---------------------------- MODULE ProcessTree ----------------------------
(***************************************************************************)
(* The process group of one managed command on POSIX: Runner.Run starts,   *)
(* describes and registers it, waits for it or ends it when the command is *)
(* cancelled (process/runner.go); execute_command.go forwards signals to   *)
(* it and removes its record; a release ends it with signals and waits     *)
(* until it is gone (release_service.go, release_manager.go).  All of them *)
(* know the group by a number and the start time of its leader, and look   *)
(* at a process table that changes while they read it.                     *)
(***************************************************************************)
EXTENDS Naturals

CONSTANTS
  MaxForks,   \* bound: processes that the leader of the group and its children start
  Releasers,  \* invocations of ruk release, or of a collection
  None

ASSUME TreeAssumption ==
  /\ MaxForks \in Nat
  /\ Releasers \cap {"runner", "forwarder"} = {}
  /\ None \notin Releasers \cup {"runner", "forwarder"}

Members == 1..MaxForks

(* The PID of the leader is the number of the group. *)
Leader == 0

VARIABLES
  leader,    \* who has the PID of the leader
  members,   \* members of the group that run
  started,   \* how many members have been started so far
  doomed,    \* processes that have received SIGKILL
  record,    \* the process record of the assignment: "none", "exact", "unverified"
  identity,  \* how the runner knows its child: what the record says, or would
  handoff,   \* who holds the lock of the workspace
  returned,  \* whether the workspace has been given back to the pool
  pc, why,   \* of a client: its step, and what its inspection is for
  matched,   \*   whether the probe has found the recorded leader
  listed,    \*   processes of the group that the directory of /proc had
  forked,    \* history: the group has grown while a client read the table
  late,      \* history: the PID has been reused after the last check of a client
  struck,    \* history: a signal has reached a stranger, no reuse was that late
  excused    \* history: a live tree may have been lost sight of, in a way listed below

system == <<leader, members, started, doomed>>
scan == <<matched, listed>>
history == <<forked, late, struck, excused>>
vars == <<system, record, identity, handoff, returned, pc, why, scan, history>>

Clients == {"runner", "forwarder"} \cup Releasers

(* What an inspection is for.  Those that signal, and those that kill.     *)
Killing == {"cleanup", "cancel", "kill"}
Signaling == Killing \cup {"term", "forward"}
Drains == {"look", "await", "await alive", "await killed"}
Looking == {"verify", "drain", "verifyCancel", "after"} \cup Drains

Inspecting == {"inspect", "list", "read", "revalidate", "signal"}

Records == {"none", "exact", "unverified"}

(* Strangers have the PID only once the group is empty.                    *)
TypeOK ==
  /\ leader \in {"unborn", "running", "zombie", "gone", "stranger", "strangers group"}
  /\ started \in 0..MaxForks /\ members \subseteq 1..started
  /\ doomed \subseteq members \cup {Leader}
  /\ record \in Records /\ identity \in Records
  /\ handoff \in Clients \cup {None} /\ {returned, struck, excused} \subseteq BOOLEAN
  /\ pc \in [Clients -> Inspecting \cup {"idle", "spawn", "describe", "sentinel", "register",
                                         "wait", "reap", "remove", "exec", "reset", "over"}]
  /\ why \in [Clients -> Signaling \cup Looking \cup {"none"}]
  /\ listed \in [Clients -> SUBSET (Members \cup {Leader})]
  /\ {matched, forked, late} \subseteq [Clients -> BOOLEAN]
  /\ leader \in {"stranger", "strangers group"} => members = {}
  /\ \A c \in Releasers : pc[c] # "idle" => handoff = c

Init ==
  /\ leader = "unborn" /\ members = {} /\ started = 0 /\ doomed = {}
  /\ record = "none" /\ handoff = "runner" /\ returned = FALSE
  /\ pc = [c \in Clients |-> IF c = "runner" THEN "spawn" ELSE "idle"]
  /\ why = [c \in Clients |-> "none"] /\ identity = "none"
  /\ matched = [c \in Clients |-> FALSE] /\ listed = [c \in Clients |-> {}]
  /\ forked = [c \in Clients |-> FALSE] /\ late = [c \in Clients |-> FALSE]
  /\ struck = FALSE /\ excused = FALSE

Alive == leader = "running" \/ members # {}

(* Processes of the table whose group is that number; a zombie has none.   *)
InGroup == members \cup IF leader \in {"running", "strangers group"} THEN {Leader} ELSE {}

-----------------------------------------------------------------------------
(* The system: the group grows and shrinks, and its number is used again   *)
(* once neither a process nor a group has it.                              *)

Fork ==
  /\ \E p \in InGroup \ doomed : p \in members \/ leader = "running"
  /\ started < MaxForks /\ started' = started + 1 /\ members' = members \cup {started'}
  /\ forked' = [c \in Clients |-> forked[c] \/ (pc[c] = "read" /\ why[c] \in Looking)]
  /\ UNCHANGED <<leader, doomed, record, identity, handoff, returned, pc, why, scan,
                 late, struck, excused>>

Exit(m) ==
  /\ m \in members
  /\ members' = members \ {m} /\ doomed' = doomed \ {m}
  /\ UNCHANGED <<leader, started, record, identity, handoff, returned, pc, why, scan, history>>

LeaderExits ==
  /\ leader = "running"
  /\ leader' = "zombie" /\ doomed' = doomed \ {Leader}
  /\ UNCHANGED <<members, started, record, identity, handoff, returned, pc, why, scan, history>>

(* Whether somebody waits for the leader: the runner once it is past its   *)
(* setup (it has started a goroutine for it), or init when it is dead.     *)
Awaited ==
  /\ pc["runner"] \notin {"spawn", "describe", "sentinel", "register", "wait"}
  /\ pc["runner"] \in Inspecting => why["runner"] # "cleanup"

Reap ==
  /\ leader = "zombie" /\ Awaited
  /\ leader' = "gone"
  /\ UNCHANGED <<members, started, doomed, record, identity, handoff, returned, pc, why, scan,
                 history>>

Reuse ==
  /\ \/ leader = "gone" /\ members = {} /\ leader' \in {"stranger", "strangers group"}
     \/ leader \in {"stranger", "strangers group"} /\ leader' = "gone"
  /\ late' = [c \in Clients |-> late[c] \/ pc[c] = "signal"]
  /\ UNCHANGED <<members, started, doomed, record, identity, handoff, returned, pc, why, scan,
                 forked, struck, excused>>

-----------------------------------------------------------------------------
(* Steps of a client.                                                      *)

Begin(c, reason) == pc' = [pc EXCEPT ![c] = "inspect"] /\ why' = [why EXCEPT ![c] = reason]

GivesBack(c) == {"idle", "over", "wait", "exec"} \cup IF c = "runner" THEN {"remove"} ELSE {}

(* The lock is given back by a release that is over, and by a runner that  *)
(* has handed over its child, or settled its cleanup.                      *)
Goto(c, step, reason) ==
  /\ pc' = [pc EXCEPT ![c] = step] /\ why' = [why EXCEPT ![c] = reason]
  /\ handoff' = IF handoff = c /\ step \in GivesBack(c) THEN None ELSE handoff

Excuse(condition) == excused' = (excused \/ condition)

(* Who answers to the recorded PID and start time.  A zombie still does.   *)
Holder ==
  CASE leader \in {"running", "zombie"} -> "match"
    [] leader \in {"stranger", "strangers group"} -> "other"
    [] OTHER -> "dead"

(* What is there may be unreadable. *)
Probe == {Holder} \cup IF Holder = "dead" THEN {} ELSE {"unknown"}

(* What an inspection leads to.  A process that may still be there keeps   *)
(* its record, and its lock is not returned with it.  A runner that drains *)
(* is cancelled at any time.                                               *)
Outcomes(reason, result) ==
  CASE reason \in {"cleanup", "cancel"} /\ result = "done" -> {<<"reap", reason>>}
    [] reason = "cleanup" /\ result # "done" -> {<<"over", "none">>}
    [] reason = "cancel" /\ result # "done" -> {<<"inspect", "after">>}
    [] reason \in {"drain", "verifyCancel"} ->
         {<<"inspect", "after">>} \cup IF reason = "drain" /\ result # "gone" THEN {<<"inspect", "drain">>} ELSE {}
    [] reason \in {"verify", "after"} -> {IF result = "gone" THEN <<"remove", reason>> ELSE <<"over", "none">>}
    [] reason \in Drains /\ result = "gone" -> {<<"remove", "look">>}
    [] reason = "look" /\ result = "alive" -> {<<"inspect", "term">>}
    [] reason = "term" /\ result = "done" -> {<<"inspect", "await">>}
    [] reason \in {"await", "await alive"} /\ result # "gone" ->
         {<<"inspect", IF result = "alive" THEN "await alive" ELSE "await">>}
    [] \/ reason = "kill" /\ result = "done"
       \/ reason = "await killed" /\ result # "gone" -> {<<"inspect", "await killed">>}
    [] OTHER -> {<<"idle", "none">>}

Conclude(c, result) ==
  /\ \E next \in Outcomes(why[c], result) :
       /\ Goto(c, next[1], next[2])
       /\ Excuse((result = "gone" /\ forked[c]) \/ (why[c] \in {"cleanup", "verify"} /\ next[1] = "over"))
  /\ matched' = [matched EXCEPT ![c] = FALSE] /\ listed' = [listed EXCEPT ![c] = {}]
  /\ forked' = [forked EXCEPT ![c] = FALSE] /\ late' = [late EXCEPT ![c] = FALSE]

-----------------------------------------------------------------------------
(* Exists and TerminateGroup.  What cannot be read is never taken for      *)
(* gone, and never signaled.                                               *)

(* execute_command.go stops forwarding before it looks a last time.        *)
Inspect(c) ==
  /\ pc[c] = "inspect"
  /\ why[c] = "after" => pc["forwarder"] = "idle"
  /\ \E found \in Probe :
       CASE found = "unknown" -> Conclude(c, "unavailable")
         [] why[c] \in Looking /\ (found = "match" \/ (found = "other" /\ identity = "unverified"))
              -> Conclude(c, "alive")
         [] why[c] \in Signaling /\ found \in {"match", "other"} /\ identity = "unverified"
              -> Conclude(c, "unavailable")
         [] OTHER -> /\ Goto(c, "list", why[c])
                     /\ matched' = [matched EXCEPT ![c] = found = "match"]
                     /\ UNCHANGED <<listed, forked, late, excused>>
  /\ UNCHANGED <<system, record, identity, returned, struck>>

(* The directory first, and then one entry after the other: a process that *)
(* has ended in between is skipped, and one that has started is not seen.  *)
(* Whoever knows its leader looks for the leader only.                     *)
List(c) ==
  /\ pc[c] = "list"
  /\ listed' = [listed EXCEPT ![c] = IF matched[c] THEN InGroup \cap {Leader} ELSE InGroup]
  /\ forked' = [forked EXCEPT ![c] = FALSE]
  /\ Goto(c, "read", why[c])
  /\ UNCHANGED <<system, record, identity, returned, matched, late, struck, excused>>

(* Variant: a process that could not be identified never goes away. *)
JudgeUnverified(c, entries) ==
  CASE why[c] \in Looking ->
         Conclude(c, IF identity = "unverified" THEN "alive" ELSE IF entries = {} THEN "gone" ELSE "unavailable")
    [] why[c] \notin Looking /\ ~matched[c] /\ entries = {} -> Conclude(c, "done")
    [] why[c] \notin Looking /\ matched[c] /\ Leader \in entries ->
         Goto(c, "revalidate", why[c]) /\ UNCHANGED <<matched, listed, forked, late, excused>>
    [] OTHER -> Conclude(c, "unavailable")

Judge(c, entries) ==
  CASE why[c] \in Looking ->
         Conclude(c, IF entries = {} THEN "gone" ELSE IF identity = "unverified" THEN "alive" ELSE "unavailable")
    [] why[c] \notin Looking /\ ~matched[c] /\ entries = {} -> Conclude(c, "done")
    [] why[c] \notin Looking /\ matched[c] /\ Leader \in entries ->
         Goto(c, "revalidate", why[c]) /\ UNCHANGED <<matched, listed, forked, late, excused>>
    [] OTHER -> Conclude(c, "unavailable")

(* Variant: what is left when the leader has gone is not waited for. *)
ReadLeaderOnly(c) ==
  /\ pc[c] = "read" /\ Judge(c, listed[c] \cap InGroup \cap {Leader})
  /\ UNCHANGED <<system, record, identity, returned, struck>>

Read(c) ==
  /\ pc[c] = "read"
  /\ \E gone \in SUBSET (listed[c] \ InGroup) : Judge(c, listed[c] \ gone)
  /\ UNCHANGED <<system, record, identity, returned, struck>>

(* Variant: the identity is not looked at again. *)
RevalidateNothing(c) ==
  /\ pc[c] = "revalidate" /\ Goto(c, "signal", why[c])
  /\ UNCHANGED <<matched, listed, forked, late, excused>>
  /\ UNCHANGED <<system, record, identity, returned, struck>>

Revalidate(c) ==
  /\ pc[c] = "revalidate"
  /\ \E found \in Probe :
       IF found = "match"
         THEN Goto(c, "signal", why[c]) /\ UNCHANGED <<matched, listed, forked, late, excused>>
         ELSE Conclude(c, "unavailable")
  /\ UNCHANGED <<system, record, identity, returned, struck>>

(* A group without a process, zombies included, cannot be signaled.        *)
SignalResult == IF InGroup = {} /\ leader # "zombie" THEN "unavailable" ELSE "done"

SignalGroup(c) ==
  /\ pc[c] = "signal" /\ why[c] # "forward" /\ Conclude(c, SignalResult)
  /\ doomed' = IF why[c] \in Killing /\ leader # "strangers group" THEN doomed \cup InGroup ELSE doomed
  /\ struck' = (struck \/ (leader = "strangers group" /\ ~late[c]))
  /\ UNCHANGED <<leader, members, started, record, identity, returned>>

(* An interrupt or a request to end, which the group may ignore.           *)
SignalGroupSignal(c) ==
  /\ pc[c] = "signal" /\ why[c] = "forward" /\ Conclude(c, SignalResult)
  /\ struck' = (struck \/ (leader = "strangers group" /\ ~late[c]))
  /\ UNCHANGED <<system, record, identity, returned>>

-----------------------------------------------------------------------------
(* Runner.Run, and what execute_command.go does after it.                  *)

Spawn ==
  /\ pc["runner"] = "spawn"
  /\ \/ leader' = "running" /\ Goto("runner", "describe", "none")
     \/ leader' = leader /\ \E step \in {"over", "exec"} : Goto("runner", step, "none")
  /\ UNCHANGED <<members, started, doomed, record, identity, returned, scan, history>>

(* A leader that has ended already is in no table that leads its group.    *)
Describe ==
  /\ pc["runner"] = "describe"
  /\ \/ leader = "running" /\ Goto("runner", "register", "none")
     \/ Goto("runner", "sentinel", "none")
  /\ UNCHANGED <<system, record, identity, returned, scan, history>>

Sentinel ==
  /\ pc["runner"] = "sentinel"
  /\ record' = "unverified" /\ identity' = "unverified"
  /\ Begin("runner", "after")
  /\ handoff' = None
  /\ UNCHANGED <<system, returned, scan, history>>

SentinelFails ==
  /\ pc["runner"] = "sentinel"
  /\ Goto("runner", "over", "none") /\ Excuse(TRUE)
  /\ UNCHANGED <<system, record, identity, returned, scan, forked, late, struck>>

Register ==
  /\ pc["runner"] = "register"
  /\ record' = "exact" /\ identity' = "exact"
  /\ Goto("runner", "wait", "none")
  /\ UNCHANGED <<system, returned, scan, history>>

RegisterFails ==
  /\ pc["runner"] = "register"
  /\ Begin("runner", "cleanup") /\ identity' = "exact"
  /\ UNCHANGED <<system, record, handoff, returned, scan, history>>

(* The context may be cancelled at any time. *)
Wait ==
  /\ pc["runner"] = "wait"
  /\ \/ leader = "zombie" /\ leader' = "gone" /\ Begin("runner", "drain")
     \/ leader' = leader /\ Begin("runner", "cancel")
  /\ UNCHANGED <<members, started, doomed, record, identity, handoff, returned, scan, history>>

(* The wait for a leader that has been killed is bounded.                  *)
WaitAfterCleanup ==
  /\ pc["runner"] = "reap" /\ leader \notin {"running", "zombie"}
  /\ Begin("runner", IF why["runner"] = "cleanup" THEN "verify" ELSE "verifyCancel")
  /\ UNCHANGED <<system, record, identity, handoff, returned, scan, history>>

WaitTimesOut ==
  /\ pc["runner"] = "reap"
  /\ \/ why["runner"] = "cleanup" /\ Goto("runner", "over", "none") /\ Excuse(TRUE)
     \/ why["runner"] = "cancel" /\ Begin("runner", "after") /\ UNCHANGED <<handoff, excused>>
  /\ UNCHANGED <<system, record, identity, returned, scan, forked, late, struck>>

(* A child that could never be identified makes every cleanup unsafe.      *)
CleanupSafe == identity = "exact"

(* exec releases when the record is removed, or was not written and its    *)
(* child is gone, and the cleanup was safe.                                *)
RemoveRecord(c) ==
  /\ pc[c] = "remove"
  /\ record' = IF why[c] = "verify" THEN record ELSE "none"
  /\ \/ c \in Releasers /\ Goto(c, "reset", "none")
     \/ c = "runner" /\ Goto(c, "over", "none")
     \/ c = "runner" /\ CleanupSafe /\ Goto(c, "exec", "none")
  /\ UNCHANGED <<identity, system, returned, scan, history>>

RemoveRecordFails(c) ==
  /\ pc[c] = "remove" /\ why[c] # "verify" /\ Goto(c, IF c = "runner" THEN "over" ELSE "idle", "none")
  /\ UNCHANGED <<system, record, identity, returned, scan, history>>

ForwardSignal ==
  /\ pc["forwarder"] = "idle" /\ identity = "exact"
  /\ pc["runner"] \in {"wait", "reap"} \cup Inspecting
  /\ why["runner"] \in {"none", "drain", "cancel", "verifyCancel"}
  /\ Begin("forwarder", "forward")
  /\ UNCHANGED <<system, record, identity, handoff, returned, scan, history>>

-----------------------------------------------------------------------------
(* Release, under the lock of the workspace.                               *)

(* Variant: the lock is not taken. *)
StartReleaseUnlocked(c) ==
  /\ ~returned /\ c \in Releasers /\ pc[c] = "idle"
  /\ IF record = "none"
       THEN pc' = [pc EXCEPT ![c] = "reset"] /\ why' = why
       ELSE Begin(c, "look")
  /\ UNCHANGED <<system, record, identity, handoff, returned, scan, history>>

StartRelease(c) ==
  /\ ~returned /\ handoff = None /\ handoff' = c
  /\ \/ c \in Releasers /\ pc[c] = "idle"
     \/ c = "runner" /\ pc[c] = "exec"
  /\ IF record = "none"
       THEN pc' = [pc EXCEPT ![c] = "reset"] /\ why' = why
       ELSE Begin(c, "look")
  /\ UNCHANGED <<system, record, identity, returned, scan, history>>

(* Time is over: with --force, what has been seen alive is killed.         *)
DrainTimesOut(c) ==
  /\ pc[c] = "inspect"
  /\ \/ why[c] \in {"await", "await alive", "await killed"} /\ Goto(c, "idle", "none")
     \/ why[c] = "await alive" /\ Begin(c, "kill") /\ handoff' = handoff
  /\ UNCHANGED <<system, record, identity, returned, scan, history>>

Reset(c) ==
  /\ pc[c] = "reset"
  /\ returned' \in BOOLEAN
  /\ Goto(c, IF c = "runner" THEN "over" ELSE "idle", "none")
  /\ UNCHANGED <<system, record, identity, scan, history>>

-----------------------------------------------------------------------------
(* Whether the runner has a child that no record names yet.                *)
Unsettled ==
  \/ pc["runner"] \in {"describe", "sentinel", "register"}
  \/ pc["runner"] \in Inspecting \cup {"reap"} /\ why["runner"] \in {"cleanup", "verify"}

(* The process of the command dies; its child does not, and its lock is    *)
(* taken over.  A release that dies stops where one that fails does.       *)
Crash ==
  /\ pc["runner"] # "over"
  /\ pc' = [pc EXCEPT !["runner"] = "over", !["forwarder"] = "idle"]
  /\ why' = [why EXCEPT !["runner"] = "none", !["forwarder"] = "none"]
  /\ handoff' = IF handoff = "runner" THEN None ELSE handoff
  /\ Excuse(Unsettled)
  /\ LET dead == {"runner", "forwarder"} IN
       /\ matched' = [c \in Clients |-> c \notin dead /\ matched[c]]
       /\ listed' = [c \in Clients |-> IF c \in dead THEN {} ELSE listed[c]]
       /\ forked' = [c \in Clients |-> c \notin dead /\ forked[c]]
       /\ late' = [c \in Clients |-> c \notin dead /\ late[c]]
  /\ UNCHANGED <<system, record, identity, returned, struck>>

Look(c) == Inspect(c) \/ List(c) \/ Read(c) \/ Revalidate(c) \/ SignalGroup(c) \/ SignalGroupSignal(c)

Supervise ==
  \/ Spawn \/ Describe \/ Sentinel \/ SentinelFails \/ Register \/ RegisterFails
  \/ Wait \/ WaitAfterCleanup \/ WaitTimesOut

Next ==
  \/ Fork \/ LeaderExits \/ Reap \/ Reuse \/ \E m \in Members : Exit(m)
  \/ Supervise \/ Crash \/ ForwardSignal
  \/ \E c \in Clients :
       Look(c) \/ RemoveRecord(c) \/ RemoveRecordFails(c) \/ StartRelease(c)
       \/ DrainTimesOut(c) \/ Reset(c)
  \/ pc["runner"] = "over" /\ returned /\ UNCHANGED vars

Spec == Init /\ [][Next]_vars

(* A runner comes to an end of what it does under the lock, a release to   *)
(* an end of its looking; one is tried again and again, and the state file *)
(* can be written now and then.                                            *)
Fairness ==
  /\ WF_vars(Supervise) /\ WF_vars(Look("runner"))
  /\ \A c \in Releasers : WF_vars(Look(c)) /\ SF_vars(RemoveRecord(c)) /\ SF_vars(StartRelease(c))

FairSpec == Spec /\ Fairness

-----------------------------------------------------------------------------
(* As long as a process of the group runs, the assignment has its record   *)
(* and the workspace is not given back: not when the leader ends first,    *)
(* not when it is cancelled, released or killed, not when its identity     *)
(* cannot be read.  Three ways to lose sight of a tree are exempt: ruk     *)
(* dies before it has recorded the child; the record cannot be written and *)
(* the child cannot be ended; the group grows while its table is read.     *)
RecordOutlivesTree ==
  ~Unsettled /\ ~excused /\ (record = "none" \/ returned) => ~Alive

(* No signal reaches the processes of somebody else, unless the number of  *)
(* the group is used again between the last check and the signal.          *)
SignalsStayInTheTree == ~struck

(* A tree that has ended, its number unused, is forgotten in the end, also *)
(* when it could never be identified and when its runner has died.         *)
TreesAreForgotten == <>[](leader = "gone" /\ members = {}) => <>[](record = "none")
=============================================================================
