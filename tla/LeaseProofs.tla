----------------------------- MODULE LeaseProofs -----------------------------
(***************************************************************************)
(* Proofs about Lease for every set of commands and durations, for every   *)
(* number of renewals and however far the clock is set back: renewal times *)
(* never go back, what has been given stays given, and a command whose     *)
(* heartbeats are in time is not collected.                                *)
(***************************************************************************)
EXTENDS Lease, TLAPS

(* As long as nothing is late the wall clock is the time that passes, and  *)
(* neither the record nor a collection is ahead of it.                     *)
ClockHolds == ~late => back = 0 /\ lease.renewedAt <= time /\ gc.now <= time

(* A renewal, a heartbeat or an acquisition has given the whole duration,  *)
(* up to the tick that its conversion may lose.                            *)
LeaseIsWhole == lease.expiresAt + 1 >= lease.renewedAt + lease.minutes

(* A command beats when its next tick is due, and its keeper is valid for  *)
(* longer: by one interval, or by two when it has just been refreshed.     *)
Beats(c) ==
  /\ pc[c] \in {"begin", "work", "refresh", "reread"} => interval[c] >= 1
  /\ Working(c) => time <= due[c] /\ keepers[c] # None
  /\ pc[c] \in {"refresh", "reread"} => time = due[c]
  /\ pc[c] \in {"work", "refresh"} => keepers[c] > due[c]
  /\ pc[c] = "refresh" => asked[c] = time + 2 * interval[c]
  /\ pc[c] = "reread" => keepers[c] >= due[c] + 2 * interval[c]

(* A collection that has got past its second look at the keepers finds a   *)
(* lease that has been renewed if there is a command by then.              *)
Spared(c) ==
  Working(c) => life # "collected" /\ (gc.step = "begin" => lease.expiresAt > gc.now)

Timely == ~late /\ ~stretched => \A c \in Commands : Beats(c) /\ Spared(c)

IInv == TypeOK /\ ClockHolds /\ LeaseIsWhole /\ Timely

-----------------------------------------------------------------------------
LEMMA InitHolds ==
  ASSUME LeaseAssumption, Init
  PROVE  IInv
<1>1. TypeOK
  <2>1. PICK ttl \in Ttls : /\ lease = [renewedAt |-> 0, expiresAt |-> ttl, minutes |-> ttl]
                            /\ acquiring = ttl
    BY DEF Init
  <2>2. ttl \in Nat \ {0} /\ MaxTime \in Nat /\ Renewals \in Nat
    BY DEF LeaseAssumption
  <2>3. /\ lease \in [renewedAt : Int, expiresAt : Int, minutes : Nat \ {0}]
        /\ lease.renewedAt < lease.expiresAt
    BY <2>1, <2>2
  <2>4. /\ time \in 0 .. MaxTime /\ back \in Jumps \cup {0} /\ asks \in Nat
        /\ gc \in [step : {"idle", "revalidate", "begin"}, now : Int]
    BY <2>2 DEF Init, NoGC
  <2>6. late \in BOOLEAN /\ stretched \in BOOLEAN
    BY DEF Init
  <2>5. /\ keepers \in [Commands -> Int \cup {None}]
        /\ interval \in [Commands -> Nat] /\ due \in [Commands -> Nat]
        /\ asked \in [Commands -> Int] /\ renewal \in Int \cup {None}
        /\ acquiring \in Ttls \cup {None}
    BY <2>1 DEF Init
  <2> QED
    BY <2>3, <2>4, <2>5, <2>6 DEF Init, TypeOK
<1>2. ClockHolds /\ LeaseIsWhole /\ Timely
  BY DEF LeaseAssumption, Init, NoGC, ClockHolds, LeaseIsWhole, Timely, Beats, Spared, Working
<1> QED
  BY <1>1, <1>2 DEF IInv

(* What every update of the record by a command leaves.                    *)
LEMMA Recorded ==
  ASSUME LeaseAssumption, IInv, NEW now \in Int, RecordActivity(now)
  PROVE  /\ lease' \in [renewedAt : Int, expiresAt : Int, minutes : Nat \ {0}]
         /\ lease'.renewedAt = now /\ lease'.expiresAt > now
         /\ LeaseIsWhole' /\ gc' \in {gc, NoGC}
         /\ UNCHANGED <<time, back, life, acquiring, renewal, asks, late, stretched>>
<1>1. PICK rounding \in {0, 1} :
        lease' = [lease EXCEPT !.renewedAt = now, !.expiresAt = now + lease.minutes - rounding]
  BY DEF RecordActivity
<1>2. /\ lease \in [renewedAt : Int, expiresAt : Int, minutes : Nat \ {0}]
      /\ lease.minutes \in Nat \ {0} /\ now + lease.minutes - rounding \in Int
  BY DEF IInv, TypeOK
<1>3. /\ lease' \in [renewedAt : Int, expiresAt : Int, minutes : Nat \ {0}]
      /\ lease'.renewedAt = now /\ lease'.minutes = lease.minutes
      /\ lease'.expiresAt = now + lease.minutes - rounding
  BY <1>1, <1>2
<1>4. lease'.expiresAt > now /\ LeaseIsWhole'
  BY <1>2, <1>3 DEF RecordActivity, ValidAssignment, LeaseIsWhole
<1> QED
  BY <1>3, <1>4 DEF RecordActivity, Stamp, clock, renewing, history

(* Keepers that are valid stay.                                            *)
LEMMA KeepersSet ==
  ASSUME LeaseAssumption, IInv, NEW now \in Int, NEW c \in Commands,
         NEW until \in Int \cup {None}, SetKeeper(now, c, until)
  PROVE  /\ keepers' \in [Commands -> Int \cup {None}] /\ keepers'[c] = until
         /\ \A d \in Commands \ {c} : keepers[d] # None /\ keepers[d] > now
              => keepers'[d] = keepers[d]
BY DEF IInv, TypeOK, SetKeeper, Valid

LEMMA RestartedLease ==
  ASSUME LeaseAssumption, IInv, RefreshAcquisitionLease
  PROVE  /\ lease' \in [renewedAt : Int, expiresAt : Int, minutes : Nat \ {0}]
         /\ lease'.renewedAt < lease'.expiresAt
         /\ lease'.renewedAt > lease.renewedAt /\ lease'.renewedAt >= Wall
         /\ lease'.expiresAt = lease'.renewedAt + lease'.minutes
         /\ lease'.expiresAt + 1 >= lease.renewedAt + lease.minutes
         /\ lease'.renewedAt > Wall => late'
<1>1. acquiring \in Nat \ {0} /\ lease.renewedAt \in Int /\ lease.minutes \in Nat /\ Wall \in Int
  BY DEF IInv, TypeOK, RefreshAcquisitionLease, LeaseAssumption, Wall
<1>2. PICK now \in Int :
        /\ now >= Wall /\ now > lease.renewedAt
        /\ lease' = [renewedAt |-> now, expiresAt |-> now + acquiring, minutes |-> acquiring]
        /\ (now > Wall => late')
  <2> DEFINE now == Later(Wall, lease.renewedAt + 1)
  <2>1. now \in Int /\ now >= Wall /\ now > lease.renewedAt
    BY <1>1 DEF Later
  <2>2. lease' = [renewedAt |-> now, expiresAt |-> now + acquiring, minutes |-> acquiring]
    BY DEF RefreshAcquisitionLease, RestartLease
  <2>3. now > Wall => late'
    BY Zenon DEF RefreshAcquisitionLease, RestartLease
  <2> QED
    BY <2>1, <2>2, <2>3
<1>3. lease.renewedAt = 0 /\ lease.minutes <= acquiring + 1
  BY <1>1 DEF IInv, LeaseIsWhole, RefreshAcquisitionLease
<1>4. /\ lease'.renewedAt = now /\ lease'.expiresAt = now + acquiring
      /\ lease'.minutes = acquiring
  BY <1>2
<1>5. lease' \in [renewedAt : Int, expiresAt : Int, minutes : Nat \ {0}]
  BY <1>1, <1>2
<1> QED
  BY <1>1, <1>2, <1>3, <1>4, <1>5

LEMMA RenewedLease ==
  ASSUME LeaseAssumption, IInv, RenewAssignment
  PROVE  /\ lease' \in [renewedAt : Int, expiresAt : Int, minutes : Nat \ {0}]
         /\ lease'.renewedAt < lease'.expiresAt
         /\ lease'.renewedAt > lease.renewedAt /\ lease'.renewedAt >= Wall
         /\ lease'.expiresAt = lease'.renewedAt + lease'.minutes
         /\ lease'.renewedAt > Wall => late'
<1>1. renewal \in Int /\ lease.renewedAt \in Int /\ Wall \in Int
  BY DEF IInv, TypeOK, RenewAssignment, LeaseAssumption, Wall
<1>2. PICK now \in Int :
        /\ now >= Wall /\ now > lease.renewedAt /\ renewal > now
        /\ lease' = [renewedAt |-> now, expiresAt |-> renewal, minutes |-> renewal - now]
        /\ (now > Wall => late')
  <2> DEFINE now == Later(Wall, lease.renewedAt + 1)
  <2>1. now \in Int /\ now >= Wall /\ now > lease.renewedAt
    BY <1>1 DEF Later
  <2>2. /\ renewal > now
        /\ lease' = [renewedAt |-> now, expiresAt |-> renewal, minutes |-> renewal - now]
    BY DEF RenewAssignment
  <2>3. now > Wall => late'
    BY Zenon DEF RenewAssignment
  <2> QED
    BY <2>1, <2>2, <2>3
<1>3. /\ lease'.renewedAt = now /\ lease'.expiresAt = renewal
      /\ lease'.minutes = renewal - now
  BY <1>2
<1>4. lease' \in [renewedAt : Int, expiresAt : Int, minutes : Nat \ {0}]
  BY <1>1, <1>2
<1> QED
  BY <1>1, <1>2, <1>3, <1>4

(* The steps of a command.                                                 *)
LEMMA CommandKeeps ==
  ASSUME LeaseAssumption, IInv, NEW c \in Commands,
         StartCommand(c) \/ Run(c) \/ WorkDone(c) \/ Crash(c)
  PROVE  IInv'
<1> USE LeaseAssumption
       DEF IInv, TypeOK, LeaseAssumption, Wall, Later, Stamp, NoGC, Assigned, Goto, Stop,
           record, renewing, command, clock, history
<1>1. CASE StartCommand(c)
  <2> USE <1>1 DEF StartCommand, ActivityHeartbeatInterval
  <2>1. TypeOK'
    OBVIOUS
  <2>2. ClockHolds' /\ LeaseIsWhole'
    BY DEF ClockHolds, LeaseIsWhole
  <2>3. Timely'
    BY DEF ClockHolds, Timely, Beats, Spared, Working
  <2> QED
    BY <2>1, <2>2, <2>3
<1>2. CASE BeginAssignmentActivity(c)
  <2> USE <1>2 DEF BeginAssignmentActivity
  <2> DEFINE now == Later(Wall, lease.renewedAt)
             until == now + 2 * interval[c]
  <2>1. now \in Int /\ now >= Wall /\ (~late => now = time) /\ until \in Int \cup {None}
    BY DEF ClockHolds
  <2>2. SetKeeper(now, c, until) /\ RecordActivity(now)
    OBVIOUS
  <2> HIDE DEF now, until
  <2>3. /\ lease' \in [renewedAt : Int, expiresAt : Int, minutes : Nat \ {0}]
        /\ lease'.renewedAt = now /\ lease'.expiresAt > now
        /\ LeaseIsWhole' /\ gc' \in {gc, NoGC}
        /\ UNCHANGED <<time, back, life, acquiring, renewal, asks, late, stretched>>
    BY <2>1, <2>2, Recorded
  <2>4. /\ keepers' \in [Commands -> Int \cup {None}] /\ keepers'[c] = until
        /\ \A d \in Commands \ {c} : keepers[d] # None /\ keepers[d] > now
             => keepers'[d] = keepers[d]
    BY <2>1, <2>2, KeepersSet
  <2>5. TypeOK'
    <3>1. /\ pc' \in [Commands -> {"idle", "begin", "work", "refresh", "reread", "finish", "done"}]
          /\ interval' \in [Commands -> Nat] /\ due' \in [Commands -> Nat]
          /\ asked' \in [Commands -> Int]
      OBVIOUS
    <3>2. lease'.renewedAt < lease'.expiresAt
      BY <2>1, <2>3
    <3> QED
      BY <2>3, <2>4, <3>1, <3>2
  <2>6. ClockHolds'
    BY <2>1, <2>3 DEF ClockHolds
  <2>7. Timely'
    BY <2>1, <2>3, <2>4 DEF until, ClockHolds, Timely, Beats, Spared, Working
  <2> QED
    BY <2>3, <2>5, <2>6, <2>7
<1>3. CASE Beat(c)
  <2> USE <1>3 DEF Beat
  <2>1. TypeOK'
    OBVIOUS
  <2>2. ClockHolds' /\ LeaseIsWhole'
    BY DEF ClockHolds, LeaseIsWhole
  <2>3. Timely'
    BY DEF ClockHolds, Timely, Beats, Spared, Working
  <2> QED
    BY <2>1, <2>2, <2>3
<1>4. CASE RefreshAssignmentActivity(c)
  <2> USE <1>4 DEF RefreshAssignmentActivity
  <2> DEFINE now == Later(Wall, lease.renewedAt)
             until == Later(keepers[c], now + asked[c] - Wall)
  <2>1. now \in Int /\ now >= Wall /\ (~late => now = time) /\ until \in Int \cup {None}
    BY DEF ClockHolds
  <2>2. SetKeeper(now, c, until) /\ RecordActivity(now)
    OBVIOUS
  <2> HIDE DEF now, until
  <2>3. /\ lease' \in [renewedAt : Int, expiresAt : Int, minutes : Nat \ {0}]
        /\ lease'.renewedAt = now /\ lease'.expiresAt > now
        /\ LeaseIsWhole' /\ gc' \in {gc, NoGC}
        /\ UNCHANGED <<time, back, life, acquiring, renewal, asks, late, stretched>>
    BY <2>1, <2>2, Recorded
  <2>4. /\ keepers' \in [Commands -> Int \cup {None}] /\ keepers'[c] = until
        /\ \A d \in Commands \ {c} : keepers[d] # None /\ keepers[d] > now
             => keepers'[d] = keepers[d]
    BY <2>1, <2>2, KeepersSet
  <2>5. TypeOK'
    <3>1. /\ pc' \in [Commands -> {"idle", "begin", "work", "refresh", "reread", "finish", "done"}]
          /\ interval' \in [Commands -> Nat] /\ due' \in [Commands -> Nat]
          /\ asked' \in [Commands -> Int]
      OBVIOUS
    <3>2. lease'.renewedAt < lease'.expiresAt
      BY <2>1, <2>3
    <3> QED
      BY <2>3, <2>4, <3>1, <3>2
  <2>6. ClockHolds'
    BY <2>1, <2>3 DEF ClockHolds
  <2>7. Timely'
    BY <2>1, <2>3, <2>4 DEF until, ClockHolds, Timely, Beats, Spared, Working
  <2> QED
    BY <2>3, <2>5, <2>6, <2>7
<1>5. CASE Reread(c)
  <2> USE <1>5 DEF Reread
  <2>1. ActivityHeartbeatInterval \in Nat /\ ActivityHeartbeatInterval >= 1
    BY DEF ActivityHeartbeatInterval
  <2>2. TypeOK'
    BY <2>1
  <2>3. ClockHolds' /\ LeaseIsWhole'
    BY DEF ClockHolds, LeaseIsWhole
  <2>4. Timely'
    <3> SUFFICES ASSUME ~late', ~stretched', NEW d \in Commands
                 PROVE  Beats(d)' /\ Spared(d)'
      BY DEF Timely
    <3>1. /\ Beats(d) /\ Spared(d) /\ Beats(c) /\ Spared(c) /\ time \in Int
          /\ ActivityHeartbeatInterval < 2 * interval[c]
          /\ interval[c] \in Nat /\ due[c] \in Nat
      <4>1. ~late /\ ~stretched /\ ~(ActivityHeartbeatInterval >= 2 * interval[c])
        BY Zenon DEF Reread
      <4> QED
        BY <2>1, <4>1 DEF Timely
    <3>2. CASE d # c
      BY <3>1, <3>2 DEF Beats, Spared, Working
    <3>3. CASE d = c
      <4>1. interval'[c] = ActivityHeartbeatInterval /\ pc'[c] = "work"
        OBVIOUS
      <4>2. due'[c] = IF ActivityHeartbeatInterval = interval[c] THEN due[c] + interval[c]
                      ELSE time + ActivityHeartbeatInterval
        OBVIOUS
      <4>3. /\ keepers[c] \in Int /\ keepers[c] >= due[c] + 2 * interval[c]
            /\ time = due[c] /\ interval[c] >= 1
        BY <3>1 DEF Beats, Working
      <4>4. keepers'[c] > due'[c] /\ time' <= due'[c]
        BY <2>1, <3>1, <4>2, <4>3
      <4> QED
        BY <2>1, <3>1, <3>3, <4>1, <4>3, <4>4 DEF Beats, Spared, Working
    <3> QED
      BY <3>2, <3>3
  <2> QED
    BY <2>2, <2>3, <2>4
<1>6. CASE HeartbeatFails(c)
  <2> USE <1>6 DEF HeartbeatFails
  <2>1. TypeOK'
    OBVIOUS
  <2>2. ClockHolds' /\ LeaseIsWhole'
    BY DEF ClockHolds, LeaseIsWhole
  <2>3. Timely'
    BY DEF ClockHolds, Timely, Beats, Spared, Working
  <2> QED
    BY <2>1, <2>2, <2>3
<1>7. CASE WorkDone(c)
  <2> USE <1>7 DEF WorkDone
  <2>1. TypeOK'
    OBVIOUS
  <2>2. ClockHolds' /\ LeaseIsWhole'
    BY DEF ClockHolds, LeaseIsWhole
  <2>3. Timely'
    BY DEF ClockHolds, Timely, Beats, Spared, Working
  <2> QED
    BY <2>1, <2>2, <2>3
<1>8. CASE FinishAssignmentActivity(c)
  <2> USE <1>8 DEF FinishAssignmentActivity, FinishAt
  <2> DEFINE now == Later(Wall, lease.renewedAt)
             until == None
  <2>1. now \in Int /\ now >= Wall /\ (~late => now = time) /\ until \in Int \cup {None}
    BY DEF ClockHolds
  <2>2. SetKeeper(now, c, until) /\ RecordActivity(now)
    OBVIOUS
  <2> HIDE DEF now, until
  <2>3. /\ lease' \in [renewedAt : Int, expiresAt : Int, minutes : Nat \ {0}]
        /\ lease'.renewedAt = now /\ lease'.expiresAt > now
        /\ LeaseIsWhole' /\ gc' \in {gc, NoGC}
        /\ UNCHANGED <<time, back, life, acquiring, renewal, asks, late, stretched>>
    BY <2>1, <2>2, Recorded
  <2>4. /\ keepers' \in [Commands -> Int \cup {None}] /\ keepers'[c] = until
        /\ \A d \in Commands \ {c} : keepers[d] # None /\ keepers[d] > now
             => keepers'[d] = keepers[d]
    BY <2>1, <2>2, KeepersSet
  <2>5. TypeOK'
    <3>1. /\ pc' \in [Commands -> {"idle", "begin", "work", "refresh", "reread", "finish", "done"}]
          /\ interval' \in [Commands -> Nat] /\ due' \in [Commands -> Nat]
          /\ asked' \in [Commands -> Int]
      OBVIOUS
    <3>2. lease'.renewedAt < lease'.expiresAt
      BY <2>1, <2>3
    <3> QED
      BY <2>3, <2>4, <3>1, <3>2
  <2>6. ClockHolds'
    BY <2>1, <2>3 DEF ClockHolds
  <2>7. Timely'
    BY <2>1, <2>3, <2>4 DEF until, ClockHolds, Timely, Beats, Spared, Working
  <2> QED
    BY <2>3, <2>5, <2>6, <2>7
<1>9. CASE Crash(c)
  <2> USE <1>9 DEF Crash
  <2>1. TypeOK'
    OBVIOUS
  <2>2. ClockHolds' /\ LeaseIsWhole'
    BY DEF ClockHolds, LeaseIsWhole
  <2>3. Timely'
    BY DEF ClockHolds, Timely, Beats, Spared, Working
  <2> QED
    BY <2>1, <2>2, <2>3
<1> QED
  BY <1>1, <1>2, <1>3, <1>4, <1>5, <1>6, <1>7, <1>8,
     <1>9
     DEF Run

(* Acquisition, renewal, collection and release; and time.                 *)
LEMMA OthersKeep ==
  ASSUME LeaseAssumption, IInv,
         Acquisition \/ Renew \/ Collect \/ Return \/ Tick \/ SetClock \/ UNCHANGED vars
  PROVE  IInv'
<1> USE LeaseAssumption
       DEF IInv, TypeOK, LeaseAssumption, Wall, Later, Stamp, NoGC, Assigned, Goto, Stop,
           record, renewing, command, clock, history
<1>1. CASE RefreshAcquisitionLease
  <2> USE <1>1
  <2>1. /\ lease' \in [renewedAt : Int, expiresAt : Int, minutes : Nat \ {0}]
        /\ lease'.renewedAt < lease'.expiresAt /\ lease'.renewedAt >= Wall
        /\ lease'.expiresAt = lease'.renewedAt + lease'.minutes
        /\ lease'.renewedAt > Wall => late'
    BY RestartedLease
  <2>2. /\ UNCHANGED <<time, back, life, keepers, pc, interval, due, asked, asks, stretched>>
        /\ gc' \in {gc, NoGC} /\ late' \in BOOLEAN /\ (late => late')
        /\ acquiring' = acquiring /\ renewal' \in {renewal, None}
    BY DEF RefreshAcquisitionLease, RestartLease
  <2>3. TypeOK'
    BY <2>1, <2>2
  <2>4. ClockHolds' /\ LeaseIsWhole'
    BY <2>1, <2>2 DEF ClockHolds, LeaseIsWhole
  <2>5. Timely'
    BY <2>1, <2>2 DEF ClockHolds, Timely, Beats, Spared, Working
  <2> QED
    BY <2>3, <2>4, <2>5
<1>2. CASE RecordAcquisitionSuccess
  <2> USE <1>2 DEF RecordAcquisitionSuccess
  <2>1. TypeOK'
    OBVIOUS
  <2>2. ClockHolds' /\ LeaseIsWhole'
    BY DEF ClockHolds, LeaseIsWhole
  <2>3. Timely'
    BY DEF ClockHolds, Timely, Beats, Spared, Working
  <2> QED
    BY <2>1, <2>2, <2>3
<1>3. CASE StartRenewal
  <2> USE <1>3 DEF StartRenewal
  <2>1. TypeOK'
    OBVIOUS
  <2>2. ClockHolds' /\ LeaseIsWhole'
    BY DEF ClockHolds, LeaseIsWhole
  <2>3. Timely'
    BY DEF ClockHolds, Timely, Beats, Spared, Working
  <2> QED
    BY <2>1, <2>2, <2>3
<1>4. CASE RenewAssignment
  <2> USE <1>4
  <2>1. /\ lease' \in [renewedAt : Int, expiresAt : Int, minutes : Nat \ {0}]
        /\ lease'.renewedAt < lease'.expiresAt /\ lease'.renewedAt >= Wall
        /\ lease'.expiresAt = lease'.renewedAt + lease'.minutes
        /\ lease'.renewedAt > Wall => late'
    BY RenewedLease
  <2>2. /\ UNCHANGED <<time, back, life, keepers, pc, interval, due, asked, asks, stretched>>
        /\ gc' \in {gc, NoGC} /\ late' \in BOOLEAN /\ (late => late')
        /\ acquiring' = acquiring /\ renewal' \in {renewal, None}
    BY DEF RenewAssignment
  <2>3. TypeOK'
    BY <2>1, <2>2
  <2>4. ClockHolds' /\ LeaseIsWhole'
    BY <2>1, <2>2 DEF ClockHolds, LeaseIsWhole
  <2>5. Timely'
    BY <2>1, <2>2 DEF ClockHolds, Timely, Beats, Spared, Working
  <2> QED
    BY <2>3, <2>4, <2>5
<1>5. CASE RenewalFails
  <2> USE <1>5 DEF RenewalFails
  <2>1. TypeOK'
    OBVIOUS
  <2>2. ClockHolds' /\ LeaseIsWhole'
    BY DEF ClockHolds, LeaseIsWhole
  <2>3. Timely'
    BY DEF ClockHolds, Timely, Beats, Spared, Working
  <2> QED
    BY <2>1, <2>2, <2>3
<1>6. CASE StartGC
  <2> USE <1>6 DEF StartGC, Expired, Valid
  <2>1. TypeOK'
    OBVIOUS
  <2>2. ClockHolds' /\ LeaseIsWhole'
    BY DEF ClockHolds, LeaseIsWhole
  <2>3. Timely'
    BY DEF ClockHolds, Timely, Beats, Spared, Working
  <2> QED
    BY <2>1, <2>2, <2>3
<1>7. CASE Revalidate
  <2> USE <1>7 DEF Revalidate, Expired, Valid
  <2>1. TypeOK'
    OBVIOUS
  <2>2. ClockHolds' /\ LeaseIsWhole'
    BY DEF ClockHolds, LeaseIsWhole
  <2>3. Timely'
    BY DEF ClockHolds, Timely, Beats, Spared, Working
  <2> QED
    BY <2>1, <2>2, <2>3
<1>8. CASE BeginWorkspaceReturn
  <2> USE <1>8 DEF BeginWorkspaceReturn, ReturnFences
  <2>1. TypeOK'
    OBVIOUS
  <2>2. ClockHolds' /\ LeaseIsWhole'
    BY DEF ClockHolds, LeaseIsWhole
  <2>3. Timely'
    BY DEF ClockHolds, Timely, Beats, Spared, Working
  <2> QED
    BY <2>1, <2>2, <2>3
<1>9. CASE Release
  <2> USE <1>9 DEF Release
  <2>1. TypeOK'
    OBVIOUS
  <2>2. ClockHolds' /\ LeaseIsWhole'
    BY DEF ClockHolds, LeaseIsWhole
  <2>3. Timely'
    BY DEF ClockHolds, Timely, Beats, Spared, Working
  <2> QED
    BY <2>1, <2>2, <2>3
<1>10. CASE CancelWorkspaceReturn
  <2> USE <1>10 DEF CancelWorkspaceReturn
  <2>1. TypeOK'
    OBVIOUS
  <2>2. ClockHolds' /\ LeaseIsWhole'
    BY DEF ClockHolds, LeaseIsWhole
  <2>3. Timely'
    BY DEF ClockHolds, Timely, Beats, Spared, Working
  <2> QED
    BY <2>1, <2>2, <2>3
<1>11. CASE FinishWorkspaceReturn
  <2> USE <1>11 DEF FinishWorkspaceReturn
  <2>1. TypeOK'
    OBVIOUS
  <2>2. ClockHolds' /\ LeaseIsWhole'
    BY DEF ClockHolds, LeaseIsWhole
  <2>3. Timely'
    BY DEF ClockHolds, Timely, Beats, Spared, Working
  <2> QED
    BY <2>1, <2>2, <2>3
<1>12. CASE Tick
  <2> USE <1>12 DEF Tick
  <2>1. TypeOK'
    OBVIOUS
  <2>2. ClockHolds' /\ LeaseIsWhole'
    BY DEF ClockHolds, LeaseIsWhole
  <2>3. Timely'
    <3> SUFFICES ASSUME ~late', ~stretched', NEW d \in Commands
                 PROVE  Beats(d)' /\ Spared(d)'
      BY DEF Timely
    <3>1. ~late /\ (Working(d) => pc[d] = "work" /\ time < due[d])
      <4>1. ~late /\ (Working(d) => ~(time >= due[d]) /\ pc[d] = "work")
        BY Zenon DEF Tick
      <4> QED
        BY <4>1
    <3>2. Beats(d) /\ Spared(d) /\ time \in Int /\ due[d] \in Int
      BY <3>1 DEF Timely
    <3> QED
      BY <3>1, <3>2 DEF Beats, Spared, Working
  <2> QED
    BY <2>1, <2>2, <2>3
<1>13. CASE SetClock
  <2> USE <1>13 DEF SetClock
  <2>1. TypeOK'
    OBVIOUS
  <2>2. ClockHolds' /\ LeaseIsWhole'
    BY DEF ClockHolds, LeaseIsWhole
  <2>3. Timely'
    BY DEF ClockHolds, Timely, Beats, Spared, Working
  <2> QED
    BY <2>1, <2>2, <2>3
<1>14. CASE UNCHANGED vars
  BY <1>14 DEF vars, ClockHolds, LeaseIsWhole, Timely, Beats, Spared, Working
<1> QED
  BY <1>1, <1>2, <1>3, <1>4, <1>5, <1>6, <1>7, <1>8,
     <1>9, <1>10, <1>11, <1>12, <1>13, <1>14
     DEF Acquisition, Renew, Collect, Return

-----------------------------------------------------------------------------
(* The inductive invariant: the ticks of every command and the ends of its *)
(* keeper, as long as nothing has been late.                               *)
THEOREM LeaseInvariance == Spec => []IInv
<1>1. Init => IInv
  BY InitHolds, LeaseAssumption
<1>2. IInv /\ [Next]_vars => IInv'
  BY CommandKeeps, OthersKeep, LeaseAssumption DEF Next
<1> QED
  BY <1>1, <1>2, PTL DEF Spec

(* The record stays one that the state file accepts, and a lease never     *)
(* ends before it begins.                                                  *)
THEOREM LeaseTypeCorrect == Spec => []TypeOK
<1>1. IInv => TypeOK
  BY DEF IInv
<1> QED
  BY <1>1, LeaseInvariance, PTL

(* activity_runner.go: whoever beats in time is not collected by force     *)
(* (gc.go), since his keeper is valid, whatever others do.                 *)
THEOREM TimelyWork == Spec => []TimelyWorkIsKept
<1>1. IInv => TimelyWorkIsKept
  <2> SUFFICES ASSUME IInv, ~late, ~stretched, NEW c \in Commands, Working(c)
               PROVE  /\ life # "collected"
                      /\ life = "assigned" => keepers[c] # None /\ keepers[c] > Wall
    BY DEF TimelyWorkIsKept
  <2>1. Beats(c) /\ Spared(c) /\ Wall = time /\ time \in Int
    BY DEF IInv, TypeOK, Timely, ClockHolds, Wall
  <2>2. keepers[c] # None /\ keepers[c] \in Int /\ interval[c] \in Nat /\ due[c] \in Nat
    BY <2>1 DEF IInv, TypeOK, Beats
  <2>3. keepers[c] > time
    BY <2>1, <2>2 DEF Beats, Working
  <2> QED
    BY <2>1, <2>2, <2>3 DEF Spared
<1> QED
  BY <1>1, LeaseInvariance, PTL

(* How a step may change the lease: RecordActivity keeps the duration and  *)
(* counts it from a later time, a renewal says so, and what an acquisition *)
(* restarts is its own.                                                    *)
LEMMA LeaseMoves ==
  ASSUME LeaseAssumption, IInv, [Next]_vars
  PROVE  /\ lease'.renewedAt >= lease.renewedAt
         /\ renewal' = renewal => lease'.expiresAt + 1 >= lease.renewedAt + lease.minutes
<1>1. lease.renewedAt \in Int /\ LeaseIsWhole /\ Wall \in Int
  BY DEF IInv, TypeOK, Wall, LeaseAssumption
<1>2. CASE lease' = lease
  BY <1>1, <1>2 DEF LeaseIsWhole
<1>3. CASE RefreshAcquisitionLease
  BY <1>1, <1>3, RestartedLease
<1>4. CASE RenewAssignment
  BY <1>1, <1>4, RenewedLease, LeaseAssumption DEF RenewAssignment
<1>5. ASSUME NEW now \in Int, now >= lease.renewedAt, RecordActivity(now)
      PROVE  /\ lease'.renewedAt >= lease.renewedAt
             /\ lease'.expiresAt + 1 >= lease.renewedAt + lease.minutes
  BY <1>1, <1>5 DEF RecordActivity, IInv, TypeOK
<1>6. ASSUME NEW c \in Commands,
             \/ BeginAssignmentActivity(c) \/ RefreshAssignmentActivity(c)
             \/ FinishAssignmentActivity(c)
      PROVE  \E now \in Int : now >= lease.renewedAt /\ RecordActivity(now)
  <2>1. Later(Wall, lease.renewedAt) \in Int /\ Later(Wall, lease.renewedAt) >= lease.renewedAt
    BY <1>1 DEF Later
  <2>2. RecordActivity(Later(Wall, lease.renewedAt))
    BY <1>6 DEF BeginAssignmentActivity, RefreshAssignmentActivity, FinishAssignmentActivity,
                FinishAt
  <2> QED
    BY <2>1, <2>2
<1>7. \/ lease' = lease \/ RefreshAcquisitionLease \/ RenewAssignment
      \/ \E c \in Commands : \/ BeginAssignmentActivity(c) \/ RefreshAssignmentActivity(c)
                             \/ FinishAssignmentActivity(c)
  BY DEF Next, vars, record, Acquisition, RecordAcquisitionSuccess, Renew, StartRenewal,
         RenewalFails, Run, StartCommand, Beat, Reread, HeartbeatFails, WorkDone, Crash, Collect,
         StartGC, Revalidate, BeginWorkspaceReturn, Return, Release, CancelWorkspaceReturn,
         FinishWorkspaceReturn, Tick, SetClock
<1> QED
  BY <1>2, <1>3, <1>4, <1>5, <1>6, <1>7

(* activity.go and renewal.go clamp their clocks to the renewal time that  *)
(* they find in the record: no step moves it back.                         *)
THEOREM RenewalsForward == Spec => RenewalsMoveForward
<1>1. IInv /\ [Next]_vars => [lease'.renewedAt >= lease.renewedAt]_vars
  BY LeaseMoves, LeaseAssumption
<1> QED
  BY <1>1, LeaseInvariance, PTL DEF Spec, RenewalsMoveForward

(* No heartbeat, no end of a command and no late acquisition takes back    *)
(* what a renewal has given, but for the tick of the conversion.           *)
THEOREM LeaseHolds == Spec => RenewedLeaseHolds
<1>1. IInv /\ [Next]_vars =>
        [renewal' = renewal => lease'.expiresAt + 1 >= lease.renewedAt + lease.minutes]_vars
  BY LeaseMoves, LeaseAssumption
<1> QED
  BY <1>1, LeaseInvariance, PTL DEF Spec, RenewedLeaseHolds
=============================================================================
