-------------------------- MODULE ProcessTreeProofs --------------------------
(***************************************************************************)
(* Proofs about ProcessTree for every number of releases and of processes  *)
(* in the group: no signal strikes a stranger unless the number is used    *)
(* again after the last check, and a live group has its record and its     *)
(* workspace.                                                              *)
(***************************************************************************)
EXTENDS ProcessTree, TLAPS

Steps == Inspecting \cup {"idle", "spawn", "describe", "sentinel", "register", "wait", "reap",
                          "remove", "exec", "reset", "over"}
Reasons == Signaling \cup Looking \cup {"none"}

(* Nothing of the tree runs any more, nor will it. *)
Dead == leader # "running" /\ members = {} /\ pc["runner"] # "spawn"

(* There is a leader as soon as somebody can know of one.                  *)
Born ==
  /\ pc["runner"] = "spawn" => leader = "unborn"
  /\ leader = "unborn" => members = {} /\ record = "none" /\ identity = "none"
  /\ pc["runner"] \in {"describe", "sentinel", "register", "wait", "reap"} => leader # "unborn"
  /\ \A c \in Clients : pc[c] \in Inspecting => leader # "unborn"

(* What a client can conclude from what it has seen.  A table that lists   *)
(* the group lists all of it, unless the group has grown; who is about to  *)
(* signal has seen the leader, or the number has been used again since.    *)
Sees(c) ==
  /\ pc[c] \in {"list", "read"} /\ why[c] \in Looking => leader # "running" /\ ~matched[c]
  /\ pc[c] = "read" /\ why[c] \in Looking /\ ~forked[c] => members \subseteq listed[c]
  /\ pc[c] = "signal" => late[c] \/ leader \in {"running", "zombie", "gone"}

(* A release does not look for the reasons of a runner. *)
Releasing == {"none", "look", "term", "kill", "await", "await alive", "await killed"}

(* The lock of the workspace is the runner's until it has settled its child. *)
Locked ==
  /\ pc["runner"] = "spawn" \/ Unsettled => handoff = "runner"
  /\ pc["runner"] = "reap" => why["runner"] \in {"cleanup", "cancel"}
  /\ \A c \in Releasers : why[c] \in Releasing

(* Whoever removes a record, or gives the workspace back, has seen the end *)
(* of the tree.                                                            *)
Settled ==
  ~excused => /\ \A c \in Clients : pc[c] \in {"remove", "reset"} => Dead
              /\ record = "none" /\ ~Unsettled /\ pc["runner"] # "spawn" => Dead
              /\ returned => Dead

IInv ==
  /\ TypeOK /\ Born /\ Locked /\ Settled /\ SignalsStayInTheTree
  /\ \A c \in Clients : Sees(c)

-----------------------------------------------------------------------------
(* The system.                                                             *)

LEMMA ForkKeeps ==
  ASSUME TreeAssumption, IInv, Fork
  PROVE  IInv'
<1> USE TreeAssumption DEF IInv, Fork, scan, Clients, Inspecting, Looking, Drains,
        Signaling, Killing
<1>1. TypeOK'
  <2>1. started' \in 0..MaxForks /\ members' \subseteq 1..started'
    <3>1. started \in 0..MaxForks /\ started < MaxForks /\ started' = started + 1 /\ members \subseteq 1..started
      BY DEF TypeOK
    <3>2. members' = members \cup {started + 1}
      OBVIOUS
    <3> HIDE DEF IInv, Fork
    <3> QED
      BY <3>1, <3>2
  <2>2. forked' \in [Clients -> BOOLEAN]
    BY DEF TypeOK
  <2>3. leader \notin {"stranger", "strangers group"}
    BY DEF TypeOK, InGroup
  <2> QED
    BY <2>1, <2>2, <2>3 DEF TypeOK
<1>2. Born'
  BY DEF TypeOK, Born, InGroup
<1>3. Locked'
  BY DEF TypeOK, Locked, Unsettled, Releasing
<1>4. Settled'
  BY DEF TypeOK, Born, Locked, Settled, Dead, Unsettled, InGroup, CleanupSafe
<1>5. SignalsStayInTheTree' /\ \A d \in Clients : Sees(d)'
  BY DEF TypeOK, Born, Sees, SignalsStayInTheTree, InGroup
<1> QED
  BY <1>1, <1>2, <1>3, <1>4, <1>5

LEMMA ExitKeeps ==
  ASSUME TreeAssumption, IInv, NEW m \in Members, Exit(m)
  PROVE  IInv'
<1> USE TreeAssumption DEF IInv, Exit, scan, history, Clients, Inspecting, Looking,
        Drains, Signaling, Killing
<1>1. TypeOK'
  BY DEF TypeOK, InGroup, Leader, Members, Records, Unsettled
<1>2. Born'
  BY DEF TypeOK, Born, InGroup
<1>3. Locked'
  BY DEF TypeOK, Locked, Unsettled, Releasing
<1>4. Settled'
  BY DEF TypeOK, Born, Locked, Settled, Dead, Unsettled, InGroup, CleanupSafe
<1>5. SignalsStayInTheTree' /\ \A d \in Clients : Sees(d)'
  BY DEF TypeOK, Born, Sees, SignalsStayInTheTree, InGroup
<1> QED
  BY <1>1, <1>2, <1>3, <1>4, <1>5

LEMMA LeaderExitsKeeps ==
  ASSUME TreeAssumption, IInv, LeaderExits
  PROVE  IInv'
<1> USE TreeAssumption DEF IInv, LeaderExits, scan, history, Clients, Inspecting,
        Looking, Drains, Signaling, Killing
<1>1. TypeOK'
  BY DEF TypeOK, InGroup, Leader, Members, Records, Unsettled
<1>2. Born'
  BY DEF TypeOK, Born, InGroup
<1>3. Locked'
  BY DEF TypeOK, Locked, Unsettled, Releasing
<1>4. Settled'
  BY DEF TypeOK, Born, Locked, Settled, Dead, Unsettled, InGroup, CleanupSafe
<1>5. SignalsStayInTheTree' /\ \A d \in Clients : Sees(d)'
  BY DEF TypeOK, Born, Sees, SignalsStayInTheTree, InGroup
<1> QED
  BY <1>1, <1>2, <1>3, <1>4, <1>5

LEMMA ReapKeeps ==
  ASSUME TreeAssumption, IInv, Reap
  PROVE  IInv'
<1> USE TreeAssumption DEF IInv, Reap, scan, history, Clients, Inspecting, Looking,
        Drains, Signaling, Killing
<1>1. TypeOK'
  BY DEF TypeOK, InGroup, Leader, Members, Records, Unsettled
<1>2. Born'
  BY DEF TypeOK, Born, InGroup
<1>3. Locked'
  BY DEF TypeOK, Locked, Unsettled, Releasing
<1>4. Settled'
  BY DEF TypeOK, Born, Locked, Settled, Dead, Unsettled, InGroup, CleanupSafe
<1>5. SignalsStayInTheTree' /\ \A d \in Clients : Sees(d)'
  BY DEF TypeOK, Born, Sees, SignalsStayInTheTree, InGroup
<1> QED
  BY <1>1, <1>2, <1>3, <1>4, <1>5

LEMMA ReuseKeeps ==
  ASSUME TreeAssumption, IInv, Reuse
  PROVE  IInv'
<1> USE TreeAssumption DEF IInv, Reuse, scan, Clients, Inspecting, Looking, Drains,
        Signaling, Killing
<1>1. TypeOK'
  BY DEF TypeOK, InGroup, Leader, Members, Records, Unsettled
<1>2. Born'
  BY DEF TypeOK, Born, InGroup
<1>3. Locked'
  BY DEF TypeOK, Locked, Unsettled, Releasing
<1>4. Settled'
  BY DEF TypeOK, Born, Locked, Settled, Dead, Unsettled, InGroup, CleanupSafe
<1>5. SignalsStayInTheTree' /\ \A d \in Clients : Sees(d)'
  BY DEF TypeOK, Born, Sees, SignalsStayInTheTree, InGroup
<1> QED
  BY <1>1, <1>2, <1>3, <1>4, <1>5

-----------------------------------------------------------------------------
(* The runner, and what the command does after it.                         *)

LEMMA SpawnKeeps ==
  ASSUME TreeAssumption, IInv, Spawn
  PROVE  IInv'
<1> USE TreeAssumption DEF IInv, Spawn, Goto, GivesBack, scan, history, Clients,
        Inspecting, Looking, Drains, Signaling, Killing
<1>1. TypeOK'
  <2>1. pc' \in [Clients -> Steps] /\ why' \in [Clients -> Reasons] /\ handoff' \in Clients \cup {None}
    BY DEF TypeOK, Steps, Reasons
  <2>2. \A d \in Releasers : pc'[d] # "idle" => handoff' = d
    BY DEF TypeOK
  <2>3. leader' = "running" \/ leader' = leader
    OBVIOUS
  <2> QED
    BY <2>1, <2>2, <2>3 DEF TypeOK, Steps, Reasons
<1>2. Born'
  BY DEF TypeOK, Born, InGroup
<1>3. Locked'
  BY DEF TypeOK, Locked, Unsettled, Releasing
<1>4. Settled'
  BY DEF TypeOK, Born, Locked, Settled, Dead, Unsettled, InGroup, CleanupSafe
<1>5. SignalsStayInTheTree' /\ \A d \in Clients : Sees(d)'
  <2>1. SignalsStayInTheTree'
    BY DEF SignalsStayInTheTree
  <2>2. \A d \in Clients : pc[d] \notin {"list", "read", "signal"}
    BY DEF Born, TypeOK
  <2>3. \A d \in Clients : pc'[d] \notin {"list", "read", "signal"}
    BY <2>2 DEF TypeOK
  <2> QED
    BY <2>1, <2>3 DEF Sees
<1> QED
  BY <1>1, <1>2, <1>3, <1>4, <1>5

LEMMA DescribeKeeps ==
  ASSUME TreeAssumption, IInv, Describe
  PROVE  IInv'
<1> USE TreeAssumption DEF IInv, Describe, Goto, GivesBack, system, scan, history,
        Clients, Inspecting, Looking, Drains, Signaling, Killing
<1>1. TypeOK'
  <2>1. pc' \in [Clients -> Steps] /\ why' \in [Clients -> Reasons] /\ handoff' \in Clients \cup {None}
    BY DEF TypeOK, Steps, Reasons
  <2>2. \A d \in Releasers : pc'[d] # "idle" => handoff' = d
    BY DEF TypeOK
  <2> QED
    BY <2>1, <2>2 DEF TypeOK, Steps, Reasons
<1>2. Born'
  BY DEF TypeOK, Born, InGroup
<1>3. Locked'
  BY DEF TypeOK, Locked, Unsettled, Releasing
<1>4. Settled'
  BY DEF TypeOK, Born, Locked, Settled, Dead, Unsettled, InGroup, CleanupSafe
<1>5. SignalsStayInTheTree' /\ \A d \in Clients : Sees(d)'
  <2>1. ASSUME NEW d \in Clients PROVE Sees(d)'
    <3>1. CASE d = "runner"
      BY <3>1 DEF TypeOK, Sees
    <3>2. CASE d # "runner"
      BY <3>2 DEF TypeOK, Sees
    <3> QED
      BY <3>1, <3>2
  <2> QED
    BY <2>1 DEF SignalsStayInTheTree
<1> QED
  BY <1>1, <1>2, <1>3, <1>4, <1>5

LEMMA SentinelKeeps ==
  ASSUME TreeAssumption, IInv, Sentinel
  PROVE  IInv'
<1> USE TreeAssumption DEF IInv, Sentinel, Begin, system, scan, history, Clients, Inspecting,
        Looking, Drains, Signaling, Killing
<1>1. TypeOK'
  <2>1. pc' \in [Clients -> Steps] /\ why' \in [Clients -> Reasons]
    BY DEF TypeOK, Steps, Reasons
  <2>2. \A c \in Releasers : pc'[c] = "idle"
    BY DEF TypeOK, Locked, Unsettled
  <2>3. record' \in Records /\ identity' \in Records /\ handoff' = None
    BY DEF Records
  <2> HIDE DEF Sentinel
  <2>4. UNCHANGED <<system, returned, scan, history>>
    BY DEF Sentinel
  <2> QED
    BY <2>1, <2>2, <2>3, <2>4 DEF TypeOK, Steps, Reasons
<1>2. Born'
  BY DEF TypeOK, Born, InGroup
<1>3. Locked'
  BY DEF TypeOK, Locked, Unsettled, Releasing
<1>4. Settled'
  BY DEF TypeOK, Born, Locked, Settled, Dead, Unsettled, InGroup, CleanupSafe
<1>5. SignalsStayInTheTree' /\ \A c \in Clients : Sees(c)'
  BY DEF TypeOK, Born, Sees, SignalsStayInTheTree, InGroup
<1> QED
  BY <1>1, <1>2, <1>3, <1>4, <1>5

LEMMA SentinelFailsKeeps ==
  ASSUME TreeAssumption, IInv, SentinelFails
  PROVE  IInv'
<1> USE TreeAssumption DEF IInv, SentinelFails, Goto, GivesBack, Excuse, system, scan,
        Clients, Inspecting, Looking, Drains, Signaling, Killing
<1>1. TypeOK'
  BY DEF TypeOK, InGroup, Leader, Members, Records, Unsettled
<1>2. Born'
  BY DEF TypeOK, Born, InGroup
<1>3. Locked'
  BY DEF TypeOK, Locked, Unsettled, Releasing
<1>4. Settled'
  BY DEF TypeOK, Born, Locked, Settled, Dead, Unsettled, InGroup, CleanupSafe
<1>5. SignalsStayInTheTree' /\ \A d \in Clients : Sees(d)'
  BY DEF TypeOK, Born, Sees, SignalsStayInTheTree, InGroup
<1> QED
  BY <1>1, <1>2, <1>3, <1>4, <1>5

LEMMA RegisterKeeps ==
  ASSUME TreeAssumption, IInv, Register
  PROVE  IInv'
<1> USE TreeAssumption DEF IInv, Register, Goto, GivesBack, system, scan, history,
        Clients, Inspecting, Looking, Drains, Signaling, Killing
<1>1. TypeOK'
  BY DEF TypeOK, InGroup, Leader, Members, Records, Unsettled
<1>2. Born'
  BY DEF TypeOK, Born, InGroup
<1>3. Locked'
  BY DEF TypeOK, Locked, Unsettled, Releasing
<1>4. Settled'
  BY DEF TypeOK, Born, Locked, Settled, Dead, Unsettled, InGroup, CleanupSafe
<1>5. SignalsStayInTheTree' /\ \A d \in Clients : Sees(d)'
  BY DEF TypeOK, Born, Sees, SignalsStayInTheTree, InGroup
<1> QED
  BY <1>1, <1>2, <1>3, <1>4, <1>5

LEMMA RegisterFailsKeeps ==
  ASSUME TreeAssumption, IInv, RegisterFails
  PROVE  IInv'
<1> USE TreeAssumption DEF IInv, RegisterFails, Begin, system, scan, history, Clients,
        Inspecting, Looking, Drains, Signaling, Killing
<1>1. TypeOK'
  BY DEF TypeOK, InGroup, Leader, Members, Records, Unsettled
<1>2. Born'
  BY DEF TypeOK, Born, InGroup
<1>3. Locked'
  BY DEF TypeOK, Locked, Unsettled, Releasing
<1>4. Settled'
  BY DEF TypeOK, Born, Locked, Settled, Dead, Unsettled, InGroup, CleanupSafe
<1>5. SignalsStayInTheTree' /\ \A d \in Clients : Sees(d)'
  BY DEF TypeOK, Born, Sees, SignalsStayInTheTree, InGroup
<1> QED
  BY <1>1, <1>2, <1>3, <1>4, <1>5

LEMMA WaitKeeps ==
  ASSUME TreeAssumption, IInv, Wait
  PROVE  IInv'
<1> USE TreeAssumption DEF IInv, Wait, Begin, scan, history, Clients, Inspecting,
        Looking, Drains, Signaling, Killing
<1>1. TypeOK'
  BY DEF TypeOK, InGroup, Leader, Members, Records, Unsettled
<1>2. Born'
  BY DEF TypeOK, Born, InGroup
<1>3. Locked'
  <2>1. pc["runner"] = "wait" /\ pc'["runner"] = "inspect" /\ why'["runner"] \in {"drain", "cancel"}
    BY DEF TypeOK
  <2>2. \A c \in Releasers : why'[c] = why[c]
    BY DEF TypeOK
  <2> QED
    BY <2>1, <2>2 DEF Locked, Unsettled
<1>4. Settled'
  BY DEF TypeOK, Born, Locked, Settled, Dead, Unsettled, InGroup, CleanupSafe
<1>5. SignalsStayInTheTree' /\ \A d \in Clients : Sees(d)'
  <2>1. leader # "running" \/ leader' = leader
    OBVIOUS
  <2>2. ASSUME NEW d \in Clients PROVE Sees(d)'
    <3>1. CASE d = "runner"
      BY <3>1 DEF TypeOK, Sees
    <3>2. CASE d # "runner"
      BY <3>2, <2>1 DEF TypeOK, Sees
    <3> QED
      BY <3>1, <3>2
  <2> QED
    BY <2>2 DEF SignalsStayInTheTree
<1> QED
  BY <1>1, <1>2, <1>3, <1>4, <1>5

LEMMA WaitAfterCleanupKeeps ==
  ASSUME TreeAssumption, IInv, WaitAfterCleanup
  PROVE  IInv'
<1> USE TreeAssumption DEF IInv, WaitAfterCleanup, Begin, system, scan, history,
        Clients, Inspecting, Looking, Drains, Signaling, Killing
<1>1. TypeOK'
  BY DEF TypeOK, InGroup, Leader, Members, Records, Unsettled
<1>2. Born'
  BY DEF TypeOK, Born, InGroup
<1>3. Locked'
  BY DEF TypeOK, Locked, Unsettled, Releasing
<1>4. Settled'
  BY DEF TypeOK, Born, Locked, Settled, Dead, Unsettled, InGroup, CleanupSafe
<1>5. SignalsStayInTheTree' /\ \A d \in Clients : Sees(d)'
  BY DEF TypeOK, Born, Sees, SignalsStayInTheTree, InGroup
<1> QED
  BY <1>1, <1>2, <1>3, <1>4, <1>5

LEMMA WaitTimesOutKeeps ==
  ASSUME TreeAssumption, IInv, WaitTimesOut
  PROVE  IInv'
<1> USE TreeAssumption DEF IInv, WaitTimesOut, Goto, GivesBack, Begin, Excuse, system,
        scan, Clients, Inspecting, Looking, Drains, Signaling, Killing
<1>1. TypeOK'
  <2>1. pc' \in [Clients -> Steps] /\ why' \in [Clients -> Reasons] /\ handoff' \in Clients \cup {None}
    BY DEF TypeOK, Steps, Reasons
  <2>2. \A d \in Releasers : pc'[d] # "idle" => handoff' = d
    BY DEF TypeOK
  <2>3. excused' \in BOOLEAN
    BY DEF TypeOK
  <2> QED
    BY <2>1, <2>2, <2>3 DEF TypeOK, Steps, Reasons
<1>2. Born'
  BY DEF TypeOK, Born, InGroup
<1>3. Locked'
  BY DEF TypeOK, Locked, Unsettled, Releasing
<1>4. Settled'
  BY DEF TypeOK, Born, Locked, Settled, Dead, Unsettled, InGroup, CleanupSafe
<1>5. SignalsStayInTheTree' /\ \A d \in Clients : Sees(d)'
  <2>1. SignalsStayInTheTree'
    BY DEF SignalsStayInTheTree
  <2>2. /\ \A d \in Clients \ {"runner"} : pc'[d] = pc[d] /\ why'[d] = why[d]
        /\ pc'["runner"] \in {"over", "inspect"}
        /\ UNCHANGED <<leader, members, matched, listed, forked, late>>
    BY DEF TypeOK
  <2>3. \A d \in Clients : Sees(d)
    OBVIOUS
  <2> HIDE DEF IInv, WaitTimesOut
  <2>4. ASSUME NEW d \in Clients PROVE Sees(d)'
    <3>1. CASE d = "runner"
      BY <2>2, <3>1 DEF Sees
    <3>2. CASE d # "runner"
      BY <2>2, <2>3, <3>2 DEF Sees
    <3> QED
      BY <3>1, <3>2
  <2> QED
    BY <2>1, <2>4
<1> QED
  BY <1>1, <1>2, <1>3, <1>4, <1>5

LEMMA CrashKeeps ==
  ASSUME TreeAssumption, IInv, Crash
  PROVE  IInv'
<1> USE TreeAssumption DEF IInv, Crash, Excuse, system, Clients, Inspecting, Looking,
        Drains, Signaling, Killing
<1>1. TypeOK'
  BY DEF TypeOK, InGroup, Leader, Members, Records, Unsettled
<1>2. Born'
  BY DEF TypeOK, Born, InGroup
<1>3. Locked'
  BY DEF TypeOK, Locked, Unsettled, Releasing
<1>4. Settled'
  BY DEF TypeOK, Born, Locked, Settled, Dead, Unsettled, InGroup, CleanupSafe
<1>5. SignalsStayInTheTree' /\ \A d \in Clients : Sees(d)'
  BY DEF TypeOK, Born, Sees, SignalsStayInTheTree, InGroup
<1> QED
  BY <1>1, <1>2, <1>3, <1>4, <1>5

LEMMA ForwardSignalKeeps ==
  ASSUME TreeAssumption, IInv, ForwardSignal
  PROVE  IInv'
<1> USE TreeAssumption DEF IInv, ForwardSignal, Begin, system, scan, history, Clients,
        Inspecting, Looking, Drains, Signaling, Killing
<1>1. TypeOK'
  BY DEF TypeOK, InGroup, Leader, Members, Records, Unsettled
<1>2. Born'
  BY DEF TypeOK, Born, InGroup
<1>3. Locked'
  BY DEF TypeOK, Locked, Unsettled, Releasing
<1>4. Settled'
  BY DEF TypeOK, Born, Locked, Settled, Dead, Unsettled, InGroup, CleanupSafe
<1>5. SignalsStayInTheTree' /\ \A d \in Clients : Sees(d)'
  BY DEF TypeOK, Born, Sees, SignalsStayInTheTree, InGroup
<1> QED
  BY <1>1, <1>2, <1>3, <1>4, <1>5

LEMMA RemoveRecordKeeps ==
  ASSUME TreeAssumption, IInv, NEW c \in Clients, RemoveRecord(c)
  PROVE  IInv'
<1> USE TreeAssumption DEF IInv, system, scan, history, Clients, Inspecting, Looking, Drains, Signaling,
        Killing
<1>1. PICK step \in {"reset", "over", "exec"} :
        /\ pc' = [pc EXCEPT ![c] = step] /\ why' = [why EXCEPT ![c] = "none"]
        /\ handoff' = IF handoff = c /\ step # "reset" THEN None ELSE handoff
        /\ c \in Releasers <=> step = "reset"
  BY DEF RemoveRecord, Goto, GivesBack
<1>2. /\ pc[c] = "remove" /\ record' \in {record, "none"}
      /\ UNCHANGED <<identity, system, returned, scan, history>>
  BY DEF RemoveRecord
<1>3. TypeOK'
  <2>1. pc' \in [Clients -> Steps] /\ why' \in [Clients -> Reasons] /\ handoff' \in Clients \cup {None}
    BY <1>1, <1>2 DEF TypeOK, Steps, Reasons
  <2>2. \A d \in Releasers : pc'[d] # "idle" => handoff' = d
    BY <1>1, <1>2 DEF TypeOK
  <2>3. record' \in Records
    BY <1>2 DEF TypeOK, Records
  <2> QED
    BY <1>2, <2>1, <2>2, <2>3 DEF TypeOK, Steps, Reasons
<1>4. Born'
  BY <1>1, <1>2 DEF TypeOK, Born
<1>5. Locked'
  BY <1>1, <1>2 DEF TypeOK, Locked, Unsettled, Releasing
<1>6. Settled'
  BY <1>1, <1>2 DEF TypeOK, Settled, Dead, Unsettled
<1>7. ASSUME NEW d \in Clients PROVE Sees(d)'
  <2>1. CASE d = c
    BY <1>1, <1>2, <2>1 DEF TypeOK, Sees
  <2>2. CASE d # c
    BY <1>1, <1>2, <2>2 DEF TypeOK, Sees
  <2> QED
    BY <2>1, <2>2
<1> QED
  BY <1>2, <1>3, <1>4, <1>5, <1>6, <1>7 DEF SignalsStayInTheTree

LEMMA RemoveRecordFailsKeeps ==
  ASSUME TreeAssumption, IInv, NEW c \in Clients, RemoveRecordFails(c)
  PROVE  IInv'
<1> USE TreeAssumption DEF IInv, RemoveRecordFails, Goto, GivesBack, system, scan,
        history, Clients, Inspecting, Looking, Drains, Signaling, Killing
<1>1. TypeOK'
  BY DEF TypeOK, InGroup, Leader, Members, Records, Unsettled
<1>2. Born'
  BY DEF TypeOK, Born, InGroup
<1>3. Locked'
  BY DEF TypeOK, Locked, Unsettled, Releasing
<1>4. Settled'
  BY DEF TypeOK, Born, Locked, Settled, Dead, Unsettled, InGroup, CleanupSafe
<1>5. SignalsStayInTheTree' /\ \A d \in Clients : Sees(d)'
  BY DEF TypeOK, Born, Sees, SignalsStayInTheTree, InGroup
<1> QED
  BY <1>1, <1>2, <1>3, <1>4, <1>5

LEMMA StartReleaseKeeps ==
  ASSUME TreeAssumption, IInv, NEW c \in Clients, StartRelease(c)
  PROVE  IInv'
<1> USE TreeAssumption DEF IInv, system, scan, history, Clients, Inspecting, Looking, Drains, Signaling,
        Killing
<1>1. PICK step \in {"reset", "inspect"}, reason \in {why[c], "look"} :
        /\ pc' = [pc EXCEPT ![c] = step] /\ why' = [why EXCEPT ![c] = reason]
        /\ step = "reset" => record = "none"
        /\ step = "inspect" => record # "none" /\ reason = "look"
  <2>1. CASE record = "none"
    <3>1. why = [why EXCEPT ![c] = why[c]]
      BY DEF TypeOK
    <3> QED
      BY <2>1, <3>1 DEF StartRelease
  <2>2. CASE record # "none"
    BY <2>2 DEF StartRelease, Begin
  <2> QED
    BY <2>1, <2>2
<1>2. /\ handoff = None /\ handoff' = c
      /\ c \in Releasers \/ c = "runner"
      /\ UNCHANGED <<system, record, identity, returned, scan, history>>
  BY DEF StartRelease
<1>3. ~Unsettled /\ pc["runner"] # "spawn" /\ pc[c] \in {"idle", "exec"}
  BY <1>2 DEF Locked, StartRelease
<1>4. TypeOK'
  <2>1. pc' \in [Clients -> Steps] /\ why' \in [Clients -> Reasons] /\ handoff' \in Clients \cup {None}
    BY <1>1, <1>2 DEF TypeOK, Steps, Reasons
  <2>2. \A d \in Releasers : pc'[d] # "idle" => handoff' = d
    BY <1>1, <1>2 DEF TypeOK
  <2> QED
    BY <1>2, <2>1, <2>2 DEF TypeOK, Steps, Reasons
<1>5. Born'
  BY <1>1, <1>2, <1>3 DEF TypeOK, Born
<1>6. Locked'
  BY <1>1, <1>2, <1>3 DEF TypeOK, Locked, Unsettled, Releasing
<1>7. Settled'
  BY <1>1, <1>2, <1>3 DEF TypeOK, Settled, Dead, Unsettled
<1>8. ASSUME NEW d \in Clients PROVE Sees(d)'
  <2>1. CASE d = c
    BY <1>1, <1>2, <2>1 DEF TypeOK, Sees
  <2>2. CASE d # c
    BY <1>1, <1>2, <2>2 DEF TypeOK, Sees
  <2> QED
    BY <2>1, <2>2
<1> QED
  BY <1>2, <1>4, <1>5, <1>6, <1>7, <1>8 DEF SignalsStayInTheTree

LEMMA DrainTimesOutKeeps ==
  ASSUME TreeAssumption, IInv, NEW c \in Clients, DrainTimesOut(c)
  PROVE  IInv'
<1> USE TreeAssumption DEF IInv, DrainTimesOut, Goto, GivesBack, Begin, system, scan,
        history, Clients, Inspecting, Looking, Drains, Signaling, Killing
<1>1. TypeOK'
  BY DEF TypeOK, InGroup, Leader, Members, Records, Unsettled
<1>2. Born'
  BY DEF TypeOK, Born, InGroup
<1>3. Locked'
  BY DEF TypeOK, Locked, Unsettled, Releasing
<1>4. Settled'
  BY DEF TypeOK, Born, Locked, Settled, Dead, Unsettled, InGroup, CleanupSafe
<1>5. SignalsStayInTheTree' /\ \A d \in Clients : Sees(d)'
  <2>1. SignalsStayInTheTree'
    BY DEF SignalsStayInTheTree
  <2>2. ASSUME NEW d \in Clients PROVE Sees(d)'
    BY DEF TypeOK, Sees
  <2> QED
    BY <2>1, <2>2
<1> QED
  BY <1>1, <1>2, <1>3, <1>4, <1>5

LEMMA ResetKeeps ==
  ASSUME TreeAssumption, IInv, NEW c \in Clients, Reset(c)
  PROVE  IInv'
<1> USE TreeAssumption DEF IInv, Reset, Goto, GivesBack, system, scan, history, Clients,
        Inspecting, Looking, Drains, Signaling, Killing
<1>1. TypeOK'
  BY DEF TypeOK, InGroup, Leader, Members, Records, Unsettled
<1>2. Born'
  BY DEF TypeOK, Born, InGroup
<1>3. Locked'
  BY DEF TypeOK, Locked, Unsettled, Releasing
<1>4. Settled'
  BY DEF TypeOK, Born, Locked, Settled, Dead, Unsettled, InGroup, CleanupSafe
<1>5. SignalsStayInTheTree' /\ \A d \in Clients : Sees(d)'
  BY DEF TypeOK, Born, Sees, SignalsStayInTheTree, InGroup
<1> QED
  BY <1>1, <1>2, <1>3, <1>4, <1>5

-----------------------------------------------------------------------------
(* Looking at the group.  An inspection goes on, or it concludes.          *)

LEMMA OutcomesFit ==
  ASSUME NEW reason, NEW result, NEW next \in Outcomes(reason, result)
  PROVE  /\ next[1] \in {"reap", "inspect", "remove", "over", "idle"} /\ next[2] \in Reasons
         /\ next[1] = "reap" => next[2] = reason /\ reason \in {"cleanup", "cancel"}
         /\ next[1] = "remove" => result = "gone"
         /\ next[1] = "inspect" => next[2] \notin {"cleanup", "verify"}
         /\ reason \in {"cleanup", "verify"} =>
              next \in {<<"reap", "cleanup">>, <<"remove", "verify">>, <<"over", "none">>}
         /\ reason \in Releasing => next[2] \in Releasing /\ next[1] \notin {"reap", "over"}
<1>1. \/ next = <<"reap", reason>> /\ reason \in {"cleanup", "cancel"}
      \/ next = <<"over", "none">> /\ reason \in {"cleanup", "verify", "after"}
      \/ next \in {<<"inspect", "after">>, <<"inspect", "drain">>}
           /\ reason \in {"cancel", "drain", "verifyCancel"}
      \/ next = <<"remove", reason>> /\ reason \in {"verify", "after"} /\ result = "gone"
      \/ next = <<"remove", "look">> /\ reason \in Drains /\ result = "gone"
      \/ next \in {<<"inspect", r>> : r \in Drains \cup {"term"}} /\ reason \in Drains \cup {"term", "kill"}
      \/ next = <<"idle", "none">> /\ reason \notin {"cleanup", "verify"}
  <2>1. CASE reason \in {"cleanup", "cancel"}
    BY <2>1 DEF Outcomes, Drains
  <2>2. CASE reason \in {"drain", "verifyCancel", "verify", "after"}
    BY <2>2 DEF Outcomes, Drains
  <2>3. CASE reason = "look"
    BY <2>3 DEF Outcomes, Drains
  <2>4. CASE reason \in {"term", "kill"}
    BY <2>4 DEF Outcomes, Drains
  <2>5. CASE reason \in {"await", "await alive", "await killed"}
    BY <2>5 DEF Outcomes, Drains
  <2>6. CASE reason \notin {"cleanup", "cancel", "drain", "verifyCancel", "verify", "after", "look",
                            "term", "kill", "await", "await alive", "await killed"}
    BY <2>6 DEF Outcomes, Drains
  <2> QED
    BY <2>1, <2>2, <2>3, <2>4, <2>5, <2>6
<1>2. \/ next[1] = "reap" /\ next[2] = reason /\ reason \in {"cleanup", "cancel"}
      \/ next[1] = "over" /\ next[2] = "none" /\ reason \in {"cleanup", "verify", "after"}
      \/ /\ next[1] = "inspect" /\ next[2] \in {"after", "drain"}
         /\ reason \in {"cancel", "drain", "verifyCancel"}
      \/ next[1] = "remove" /\ next[2] = reason /\ reason \in {"verify", "after"} /\ result = "gone"
      \/ next[1] = "remove" /\ next[2] = "look" /\ reason \in Drains /\ result = "gone"
      \/ /\ next[1] = "inspect" /\ next[2] \in Drains \cup {"term"}
         /\ reason \in Drains \cup {"term", "kill"}
      \/ next[1] = "idle" /\ next[2] = "none" /\ reason \notin {"cleanup", "verify"}
  BY <1>1
<1>3. reason \in {"cleanup", "verify"} =>
        next \in {<<"reap", "cleanup">>, <<"remove", "verify">>, <<"over", "none">>}
  BY <1>1 DEF Drains
<1> QED
  BY <1>2, <1>3 DEF Reasons, Releasing, Signaling, Killing, Looking, Drains

LEMMA LooksOn ==
  ASSUME TreeAssumption, IInv, NEW c \in Clients, pc[c] \in Inspecting,
         NEW step \in {"list", "read", "revalidate", "signal"}, Goto(c, step, why[c]),
         NEW m \in BOOLEAN, NEW l \in SUBSET (Members \cup {Leader}), NEW f \in BOOLEAN,
         matched' = [matched EXCEPT ![c] = m], listed' = [listed EXCEPT ![c] = l],
         forked' = [forked EXCEPT ![c] = f], Sees(c)',
         UNCHANGED <<system, record, identity, returned, late, struck, excused>>
  PROVE  IInv'
<1> USE TreeAssumption DEF IInv, system, Clients, Inspecting, Looking, Drains, Signaling, Killing
<1>1. /\ pc' = [pc EXCEPT ![c] = step] /\ why' = [why EXCEPT ![c] = why[c]] /\ handoff' = handoff
  BY DEF Goto, GivesBack
<1>2. why' = why
  BY <1>1 DEF TypeOK
<1>3. TypeOK'
  <2>1. pc' \in [Clients -> Steps]
    BY <1>1 DEF TypeOK, Steps
  <2>2. \A d \in Releasers : pc'[d] # "idle" => handoff' = d
    BY <1>1 DEF TypeOK
  <2>3. /\ matched' \in [Clients -> BOOLEAN] /\ forked' \in [Clients -> BOOLEAN]
        /\ listed' \in [Clients -> SUBSET (Members \cup {Leader})]
    BY DEF TypeOK
  <2>4. handoff' \in Clients \cup {None} /\ why' \in [Clients -> Reasons]
    BY <1>1, <1>2 DEF TypeOK, Reasons
  <2> HIDE DEF IInv
  <2>5. TypeOK
    BY DEF IInv
  <2>6. /\ {matched, forked, late}' \subseteq [Clients -> BOOLEAN]
        /\ leader' \in {"stranger", "strangers group"} => members' = {}
        /\ UNCHANGED <<leader, started, members, doomed, record, identity, returned, struck, excused>>
    BY <2>3, <2>5 DEF TypeOK
  <2> QED
    BY <2>1, <2>2, <2>3, <2>4, <2>5, <2>6 DEF TypeOK, Steps, Reasons
<1>4. Born'
  BY <1>1 DEF TypeOK, Born
<1>5. Unsettled' = Unsettled
  BY <1>1, <1>2 DEF TypeOK, Unsettled
<1>6. Locked'
  BY <1>1, <1>2, <1>5 DEF TypeOK, Locked
<1>7. Settled'
  BY <1>1, <1>5 DEF TypeOK, Settled, Dead
<1>8. ASSUME NEW d \in Clients PROVE Sees(d)'
  <2>1. CASE d # c
    BY <1>1, <1>2, <2>1 DEF TypeOK, Sees
  <2> QED
    BY <2>1
<1> QED
  BY <1>3, <1>4, <1>6, <1>7, <1>8 DEF SignalsStayInTheTree

LEMMA Concludes ==
  ASSUME TreeAssumption, IInv, NEW c \in Clients, pc[c] \in Inspecting,
         NEW result, Conclude(c, result),
         result = "gone" /\ ~forked[c] => leader # "running" /\ members = {},
         UNCHANGED <<leader, members, started, record, identity, returned>>,
         doomed' \subseteq members \cup {Leader}, struck' = FALSE
  PROVE  IInv'
<1> USE TreeAssumption DEF IInv, Clients, Inspecting, Looking, Drains, Signaling, Killing
<1>1. PICK next \in Outcomes(why[c], result) :
        /\ Goto(c, next[1], next[2])
        /\ Excuse((result = "gone" /\ forked[c]) \/ (why[c] \in {"cleanup", "verify"} /\ next[1] = "over"))
  BY DEF Conclude
<1> DEFINE step == next[1]
           reason == next[2]
<1>2. /\ step \in {"reap", "inspect", "remove", "over", "idle"} /\ reason \in Reasons
      /\ step = "reap" => reason = why[c] /\ reason \in {"cleanup", "cancel"}
      /\ step = "remove" => result = "gone"
      /\ step = "inspect" => reason \notin {"cleanup", "verify"}
      /\ why[c] \in {"cleanup", "verify"} =>
           \/ step = "reap" /\ reason = "cleanup"
           \/ step = "remove"
           \/ step = "over"
      /\ why[c] \in Releasing => reason \in Releasing /\ step \notin {"reap", "over"}
  BY OutcomesFit
<1> HIDE DEF step, reason
<1>3. /\ pc' = [pc EXCEPT ![c] = step] /\ why' = [why EXCEPT ![c] = reason]
      /\ handoff' = IF handoff = c /\ step \in GivesBack(c) THEN None ELSE handoff
      /\ excused' = (excused \/ (result = "gone" /\ forked[c])
                             \/ (why[c] \in {"cleanup", "verify"} /\ step = "over"))
  BY <1>1 DEF Goto, Excuse, step, reason
<1>4. /\ matched' = [matched EXCEPT ![c] = FALSE] /\ listed' = [listed EXCEPT ![c] = {}]
      /\ forked' = [forked EXCEPT ![c] = FALSE] /\ late' = [late EXCEPT ![c] = FALSE]
  BY DEF Conclude
<1>5. TypeOK'
  <2>1. /\ pc' \in [Clients -> Steps] /\ why' \in [Clients -> Reasons]
        /\ handoff' \in Clients \cup {None}
    BY <1>2, <1>3 DEF TypeOK, Steps, Reasons
  <2>2. \A d \in Releasers : pc'[d] # "idle" => handoff' = d
    BY <1>2, <1>3 DEF TypeOK, Locked, GivesBack
  <2>3. /\ matched' \in [Clients -> BOOLEAN] /\ forked' \in [Clients -> BOOLEAN]
        /\ late' \in [Clients -> BOOLEAN] /\ listed' \in [Clients -> SUBSET (Members \cup {Leader})]
    BY <1>4 DEF TypeOK
  <2>4. excused' \in BOOLEAN
    BY <1>3 DEF TypeOK
  <2> QED
    BY <2>1, <2>2, <2>3, <2>4 DEF TypeOK, Steps, Reasons
<1>6. Born'
  BY <1>2, <1>3 DEF TypeOK, Born
<1>7. Unsettled' => Unsettled
  BY <1>2, <1>3 DEF TypeOK, Unsettled
<1>8. Locked'
  <2>1. pc'["runner"] = "spawn" \/ Unsettled' => handoff' = "runner"
    BY <1>2, <1>3, <1>7 DEF TypeOK, Locked, GivesBack, Unsettled
  <2> QED
    BY <1>2, <1>3, <2>1 DEF TypeOK, Locked
<1>9. Settled'
  <2>1. pc["runner"] # "spawn"
    BY DEF Born
  <2>2. ~excused' /\ pc'[c] = "remove" => Dead'
    BY <1>2, <1>3, <2>1 DEF TypeOK, Dead
  <2>3. ~excused' /\ Unsettled /\ ~Unsettled' => Dead'
    BY <1>2, <1>3, <2>2 DEF TypeOK, Unsettled
  <2> QED
    BY <1>2, <1>3, <2>1, <2>2, <2>3 DEF TypeOK, Settled, Dead
<1>10. ASSUME NEW d \in Clients PROVE Sees(d)'
  <2>1. CASE d = c
    BY <1>2, <1>3, <2>1 DEF TypeOK, Sees
  <2>2. CASE d # c
    BY <1>3, <1>4, <2>2 DEF TypeOK, Sees
  <2> QED
    BY <2>1, <2>2
<1> QED
  BY <1>5, <1>6, <1>8, <1>9, <1>10 DEF SignalsStayInTheTree

LEMMA InspectKeeps ==
  ASSUME TreeAssumption, IInv, NEW c \in Clients, Inspect(c)
  PROVE  IInv'
<1>1. /\ pc[c] \in Inspecting
      /\ UNCHANGED <<system, record, identity, returned, struck>>
  BY DEF Inspect, Inspecting
<1>2. CASE \E result \in {"unavailable", "alive"} : Conclude(c, result)
  BY <1>1, <1>2, Concludes DEF IInv, TypeOK, SignalsStayInTheTree, system
<1>3. ASSUME NEW found \in Probe, found # "unknown", Goto(c, "list", why[c]),
             why[c] \in Looking => found # "match",
             matched' = [matched EXCEPT ![c] = found = "match"],
             UNCHANGED <<listed, forked, late, excused>>
      PROVE  IInv'
  <2>1. /\ found = Holder /\ (found = "match") \in BOOLEAN
        /\ listed' = [listed EXCEPT ![c] = listed[c]] /\ listed[c] \in SUBSET (Members \cup {Leader})
        /\ forked' = [forked EXCEPT ![c] = forked[c]] /\ forked[c] \in BOOLEAN
    BY <1>3 DEF IInv, TypeOK, Probe
  <2>2. pc' = [pc EXCEPT ![c] = "list"] /\ why' = why
    BY <1>3 DEF Goto, IInv, TypeOK
  <2>3. Sees(c)'
    BY <1>1, <1>3, <2>1, <2>2 DEF Sees, Holder, IInv, TypeOK, Inspecting, system
  <2> QED
    BY <1>1, <1>3, <2>1, <2>3, LooksOn DEF system
<1> QED
  BY <1>2, <1>3 DEF Inspect

LEMMA ListKeeps ==
  ASSUME TreeAssumption, IInv, NEW c \in Clients, List(c)
  PROVE  IInv'
<1> DEFINE l == IF matched[c] THEN InGroup \cap {Leader} ELSE InGroup
<1>1. /\ pc[c] \in Inspecting /\ Goto(c, "read", why[c])
      /\ listed' = [listed EXCEPT ![c] = l] /\ forked' = [forked EXCEPT ![c] = FALSE]
      /\ UNCHANGED <<system, record, identity, returned, matched, late, struck, excused>>
  BY DEF List, Inspecting
<1>2. l \in SUBSET (Members \cup {Leader})
  <2>1. started \in 0..MaxForks /\ members \subseteq 1..started
    BY DEF IInv, TypeOK
  <2>2. members \subseteq Members
    BY <2>1, TreeAssumption DEF Members, TreeAssumption
  <2> QED
    BY <2>2 DEF InGroup
<1>3. pc' = [pc EXCEPT ![c] = "read"] /\ why' = why
  BY <1>1 DEF Goto, IInv, TypeOK
<1>4. Sees(c)'
  <2>1. /\ pc[c] = "list" /\ pc'[c] = "read" /\ why'[c] = why[c] /\ listed'[c] = l
        /\ UNCHANGED <<leader, members, matched>>
    BY <1>1, <1>3 DEF List, IInv, TypeOK, system
  <2>2. why[c] \in Looking => leader # "running" /\ ~matched[c]
    BY <2>1 DEF IInv, Sees
  <2> QED
    BY <2>1, <2>2 DEF Sees, InGroup
<1>5. matched' = [matched EXCEPT ![c] = matched[c]] /\ matched[c] \in BOOLEAN
  BY <1>1 DEF IInv, TypeOK
<1> QED
  BY <1>1, <1>2, <1>4, <1>5, LooksOn

LEMMA ReadKeeps ==
  ASSUME TreeAssumption, IInv, NEW c \in Clients, Read(c)
  PROVE  IInv'
<1>1. /\ pc[c] \in Inspecting
      /\ UNCHANGED <<system, record, identity, returned, struck>>
  BY DEF Read, Inspecting
<1>2. PICK gone \in SUBSET (listed[c] \ InGroup) : Judge(c, listed[c] \ gone)
  BY DEF Read
<1>3. CASE \E result \in {"alive", "unavailable", "done"} : Conclude(c, result)
  BY <1>1, <1>3, Concludes DEF IInv, TypeOK, SignalsStayInTheTree, system
<1>4. CASE why[c] \in Looking /\ listed[c] \ gone = {} /\ Conclude(c, "gone")
  <2>1. ~forked[c] => leader # "running" /\ members = {}
    BY <1>2, <1>4 DEF Read, IInv, Sees, InGroup
  <2> QED
    BY <1>1, <1>4, <2>1, Concludes DEF IInv, TypeOK, SignalsStayInTheTree, system
<1>5. CASE Goto(c, "revalidate", why[c]) /\ UNCHANGED <<matched, listed, forked, late, excused>>
  <2>1. /\ matched' = [matched EXCEPT ![c] = matched[c]] /\ matched[c] \in BOOLEAN
        /\ listed' = [listed EXCEPT ![c] = listed[c]] /\ listed[c] \in SUBSET (Members \cup {Leader})
        /\ forked' = [forked EXCEPT ![c] = forked[c]] /\ forked[c] \in BOOLEAN
    BY <1>5 DEF IInv, TypeOK
  <2>2. Sees(c)'
    BY <1>5 DEF Sees, Goto, IInv, TypeOK
  <2> QED
    BY <1>1, <1>5, <2>1, <2>2, LooksOn
<1> QED
  BY <1>2, <1>3, <1>4, <1>5 DEF Judge

LEMMA RevalidateKeeps ==
  ASSUME TreeAssumption, IInv, NEW c \in Clients, Revalidate(c)
  PROVE  IInv'
<1>1. /\ pc[c] \in Inspecting
      /\ UNCHANGED <<system, record, identity, returned, struck>>
  BY DEF Revalidate, Inspecting
<1>2. CASE Conclude(c, "unavailable")
  BY <1>1, <1>2, Concludes DEF IInv, TypeOK, SignalsStayInTheTree, system
<1>3. CASE /\ "match" \in Probe /\ Goto(c, "signal", why[c])
           /\ UNCHANGED <<matched, listed, forked, late, excused>>
  <2>1. /\ matched' = [matched EXCEPT ![c] = matched[c]] /\ matched[c] \in BOOLEAN
        /\ listed' = [listed EXCEPT ![c] = listed[c]] /\ listed[c] \in SUBSET (Members \cup {Leader})
        /\ forked' = [forked EXCEPT ![c] = forked[c]] /\ forked[c] \in BOOLEAN
    BY <1>3 DEF IInv, TypeOK
  <2>2. leader \in {"running", "zombie"} /\ leader' = leader
    BY <1>1, <1>3 DEF Probe, Holder, system
  <2>3. Sees(c)'
    BY <1>3, <2>2 DEF Sees, Goto, IInv, TypeOK
  <2> QED
    BY <1>1, <1>3, <2>1, <2>3, LooksOn
<1> QED
  BY <1>2, <1>3 DEF Revalidate

LEMMA SignalKeeps ==
  ASSUME TreeAssumption, IInv, NEW c \in Clients, SignalGroup(c) \/ SignalGroupSignal(c)
  PROVE  IInv'
<1>1. /\ pc[c] = "signal" /\ Conclude(c, SignalResult)
      /\ struck' = (struck \/ (leader = "strangers group" /\ ~late[c]))
      /\ UNCHANGED <<leader, members, started, record, identity, returned>>
      /\ doomed' \subseteq doomed \cup InGroup \/ doomed' = doomed
  BY DEF SignalGroup, SignalGroupSignal, system
<1>2. struck' = FALSE
  BY <1>1 DEF IInv, TypeOK, Sees, SignalsStayInTheTree
<1>3. doomed' \subseteq members \cup {Leader}
  BY <1>1 DEF IInv, TypeOK, InGroup
<1>4. SignalResult # "gone"
  BY DEF SignalResult
<1> QED
  BY <1>1, <1>2, <1>3, <1>4, Concludes DEF Inspecting

-----------------------------------------------------------------------------
(* The specification.                                                      *)

LEMMA InitSettles ==
  ASSUME TreeAssumption, Init
  PROVE  IInv
<1>1. TypeOK
  <2>1. started \in 0..MaxForks /\ members \subseteq 1..started /\ doomed \subseteq members \cup {Leader}
    BY DEF TreeAssumption, Init
  <2>2. \A c \in Releasers : pc[c] = "idle"
    BY DEF TreeAssumption, Init, Clients
  <2>3. handoff \in Clients /\ record \in Records /\ identity \in Records
    BY DEF Init, Clients, Records
  <2>4. why \in [Clients -> Signaling \cup Looking \cup {"none"}]
    BY DEF Init
  <2>5. listed \in [Clients -> SUBSET (Members \cup {Leader})]
    BY DEF Init
  <2> QED
    BY <2>1, <2>2, <2>3, <2>4, <2>5 DEF Init, TypeOK, Inspecting
<1>2. Born
  BY DEF Init, Born, Clients, Inspecting
<1>3. Locked
  BY DEF Init, Locked, Unsettled, Clients, Inspecting, Releasing
<1>4. Settled
  BY DEF Init, Settled, Unsettled, Clients
<1>5. SignalsStayInTheTree /\ \A c \in Clients : Sees(c)
  BY DEF Init, SignalsStayInTheTree, Sees, Clients
<1> QED
  BY <1>1, <1>2, <1>3, <1>4, <1>5 DEF IInv

LEMMA StutterKeeps ==
  ASSUME IInv, UNCHANGED vars
  PROVE  IInv'
  BY DEF IInv, TypeOK, Born, Locked, Settled, Dead, Unsettled, Sees, SignalsStayInTheTree, vars,
         system, scan, history

(* The invariant is inductive. *)
LEMMA NextKeeps ==
  ASSUME TreeAssumption, IInv, [Next]_vars
  PROVE  IInv'
<1>1. CASE Supervise
  BY <1>1, SpawnKeeps, DescribeKeeps, SentinelKeeps, SentinelFailsKeeps, RegisterKeeps,
     RegisterFailsKeeps, WaitKeeps, WaitAfterCleanupKeeps, WaitTimesOutKeeps DEF Supervise
<1>2. CASE Fork \/ LeaderExits \/ Reap \/ Reuse \/ \E m \in Members : Exit(m)
  BY <1>2, ForkKeeps, LeaderExitsKeeps, ReapKeeps, ReuseKeeps, ExitKeeps
<1>3. CASE Crash \/ ForwardSignal
  BY <1>3, CrashKeeps, ForwardSignalKeeps
<1>4. CASE \E c \in Clients : Look(c)
  BY <1>4, InspectKeeps, ListKeeps, ReadKeeps, RevalidateKeeps, SignalKeeps DEF Look
<1>5. CASE \E c \in Clients : \/ RemoveRecord(c) \/ RemoveRecordFails(c) \/ StartRelease(c)
                              \/ DrainTimesOut(c) \/ Reset(c)
  BY <1>5, RemoveRecordKeeps, RemoveRecordFailsKeeps, StartReleaseKeeps, DrainTimesOutKeeps, ResetKeeps
<1> QED
  BY <1>1, <1>2, <1>3, <1>4, <1>5, StutterKeeps DEF Next

(* Whatever the runner, the forwarder and the releases do, a client only   *)
(* gives a tree up that it has seen ended.                                 *)
THEOREM TreeInvariant == Spec => []IInv
  BY TreeAssumption, InitSettles, NextKeeps, PTL DEF Spec

(* Each variable keeps its type, and no release works without the lock of  *)
(* the workspace (release_service.go).                                     *)
THEOREM TreeTypeOK == Spec => []TypeOK
  BY TreeInvariant, PTL DEF IInv

(* As long as a process of the group runs, its record is kept and its      *)
(* workspace is not given back (runner.go, runner_cleanup.go,              *)
(* release_service.go), but for the three ways that RecordOutlivesTree     *)
(* exempts.                                                                *)
THEOREM RecordsOutliveTrees == Spec => []RecordOutlivesTree
<1>1. IInv => RecordOutlivesTree
  BY DEF IInv, Settled, Born, RecordOutlivesTree, Dead, Alive
<1> QED
  BY <1>1, TreeInvariant, PTL

(* No signal reaches a stranger, unless the number of the group is used    *)
(* again after its last check (release_manager.go, native_signal_posix.go).*)
THEOREM SignalsStay == Spec => []SignalsStayInTheTree
  BY TreeInvariant, PTL DEF IInv
=============================================================================
