-------------------------- MODULE PortRegistryProofs --------------------------
(***************************************************************************)
(* Proofs about PortRegistry for every set of processes, repositories,     *)
(* assignments and ports: no two assignments of a repository ever have one *)
(* port, no two of the host have while the registry's lock holds, and a    *)
(* published port is reserved for its assignment.                          *)
(***************************************************************************)
EXTENDS PortRegistry, TLAPS

(* A command has an assignment and takes the steps of its job.             *)
Placed(p) ==
  /\ ~At(p, "idle") => asg[p] \in Asgs
  /\ At(p, "finish") => job[p] = "release"
  /\ pc[p] \in {"find", "publish"} => job[p] = "acquire"

(* Two commands are never about one assignment. *)
OneEach == \A p, q \in Procs : asg[p] = asg[q] /\ asg[p] # None => p = q

(* Only an assignment that there is has ports in its state. *)
PortsAreAssigned == \A a \in Asgs : life[a] = "none" => assigned[a] = {}

(* A release comes to the registry when its ports are gone from the state. *)
Cleared(p) ==
  job[p] = "release" /\ pc[p] \in {"enter", "prune", "commit"} => assigned[asg[p]] = {}

(* From its choice of ports to their publication an acquisition has the    *)
(* lock of its state, so that the choice stays as good as it was.          *)
Chosen(p) ==
  /\ job[p] = "acquire" /\ pc[p] \in {"find", "commit", "publish"} => stateLock[My(p)] = p
  /\ job[p] = "acquire" /\ pc[p] \in {"commit", "publish"} =>
       /\ life[asg[p]] = "assigned"
       /\ \A b \in Asgs : RepoOf[b] = My(p) => got[p] \cap assigned[b] = {}

(* While the lock holds, what a transaction has read and pruned reserves   *)
(* every published port, and the ports of its own choice.                  *)
Backed(p) ==
  /\ pc[p] \in {"prune", "find", "commit"} =>
       \A a \in Asgs : \A x \in assigned[a] : txn[p][x] = a
  /\ job[p] = "acquire" /\ pc[p] = "commit" => \A x \in got[p] : txn[p][x] = asg[p]
  /\ pc[p] = "publish" => \A x \in got[p] : registry[x] = asg[p]

Commands == OneEach /\ PortsAreAssigned /\ \A p \in Procs : Placed(p) /\ Cleared(p)

States == RepositoryPortsAreExclusive /\ \A p \in Procs : Chosen(p)

Reservations ==
  ~lost => /\ \A p, q \in inside : p = q
           /\ \A a \in Asgs : \A x \in assigned[a] : registry[x] = a
           /\ \A p \in Procs : Backed(p)

IInv == TypeOK /\ Commands /\ States /\ Reservations

-----------------------------------------------------------------------------
LEMMA InitHolds ==
  ASSUME PortAssumption, Init
  PROVE  IInv
<1>1. TypeOK
  BY DEF Init, TypeOK, Table, Empty, Steps, Transaction
<1>2. Commands
  BY PortAssumption DEF Init, Commands, OneEach, PortsAreAssigned, Placed, Cleared, At
<1>3. States /\ Reservations
  BY DEF Init, States, RepositoryPortsAreExclusive, Chosen, Reservations, Backed
<1> QED
  BY <1>1, <1>2, <1>3 DEF IInv

(* One step of a command.                                                  *)
LEMMA StepKeeps ==
  ASSUME PortAssumption, IInv, NEW p \in Procs,
         Acquire(p) \/ Release(p) \/ With(p) \/ GiveUp(p)
  PROVE  IInv'
<1> USE PortAssumption DEF IInv, At, Goto, My, Leave, files, locks
<1>1. CASE Assign(p)
  <2> USE <1>1 DEF Assign, Fresh
  <2>1. TypeOK'
    BY DEF TypeOK, Table, Empty, Steps, Transaction
  <2>2. Commands'
    BY DEF TypeOK, Commands, OneEach, PortsAreAssigned, Placed, Cleared, Steps
  <2>3. States'
    BY DEF TypeOK, Commands, OneEach, PortsAreAssigned, Placed, States,
           RepositoryPortsAreExclusive, Chosen, OwnStatePorts, Steps
  <2>4. Reservations'
    BY DEF TypeOK, Commands, OneEach, PortsAreAssigned, Placed, Cleared,
           Reservations, Backed, Table, Empty, Steps, Transaction
  <2> QED
    BY <2>1, <2>2, <2>3, <2>4
<1>2. CASE BeginReturn(p)
  <2> USE <1>2 DEF BeginReturn
  <2>1. TypeOK'
    BY DEF TypeOK, Table, Empty, Steps, Transaction
  <2>2. Commands'
    BY DEF TypeOK, Commands, OneEach, PortsAreAssigned, Placed, Cleared, Steps
  <2>3. States'
    BY DEF TypeOK, Commands, OneEach, PortsAreAssigned, Placed, States,
           RepositoryPortsAreExclusive, Chosen, OwnStatePorts, Steps
  <2>4. Reservations'
    BY DEF TypeOK, Commands, OneEach, PortsAreAssigned, Placed, Cleared,
           Reservations, Backed, Table, Empty, Steps, Transaction
  <2> QED
    BY <2>1, <2>2, <2>3, <2>4
<1>3. CASE CancelReturn(p)
  <2> USE <1>3 DEF CancelReturn
  <2>1. TypeOK'
    BY DEF TypeOK, Table, Empty, Steps, Transaction
  <2>2. Commands'
    BY DEF TypeOK, Commands, OneEach, PortsAreAssigned, Placed, Cleared, Steps
  <2>3. States'
    BY DEF TypeOK, Commands, OneEach, PortsAreAssigned, Placed, States,
           RepositoryPortsAreExclusive, Chosen, OwnStatePorts, Steps
  <2>4. Reservations'
    BY DEF TypeOK, Commands, OneEach, PortsAreAssigned, Placed, Cleared,
           Reservations, Backed, Table, Empty, Steps, Transaction
  <2> QED
    BY <2>1, <2>2, <2>3, <2>4
<1>4. CASE FinishReturn(p)
  <2> USE <1>4 DEF FinishReturn
  <2>1. TypeOK'
    BY DEF TypeOK, Table, Empty, Steps, Transaction
  <2>2. Commands'
    BY DEF TypeOK, Commands, OneEach, PortsAreAssigned, Placed, Cleared, Steps
  <2>3. States'
    BY DEF TypeOK, Commands, OneEach, PortsAreAssigned, Placed, States,
           RepositoryPortsAreExclusive, Chosen, OwnStatePorts, Steps
  <2>4. Reservations'
    BY DEF TypeOK, Commands, OneEach, PortsAreAssigned, Placed, Cleared,
           Reservations, Backed, Table, Empty, Steps, Transaction
  <2> QED
    BY <2>1, <2>2, <2>3, <2>4
<1>5. CASE Begin(p)
  <2> USE <1>5 DEF Begin, RegistryLock!Grant
  <2>1. TypeOK'
    BY DEF TypeOK, Table, Empty, Steps, Transaction
  <2>2. Commands'
    BY DEF TypeOK, Commands, OneEach, PortsAreAssigned, Placed, Cleared, Steps
  <2>3. States'
    BY DEF TypeOK, Commands, OneEach, PortsAreAssigned, Placed, States,
           RepositoryPortsAreExclusive, Chosen, OwnStatePorts, Steps
  <2>4. Reservations'
    BY DEF TypeOK, Commands, OneEach, PortsAreAssigned, Placed, Cleared,
           Reservations, Backed, Table, Empty, Steps, Transaction
  <2> QED
    BY <2>1, <2>2, <2>3, <2>4
<1>6. CASE PruneInactive(p)
  <2> USE <1>6 DEF PruneInactive, Active
  <2>1. TypeOK'
    BY DEF TypeOK, Table, Empty, Steps, Transaction
  <2>2. Commands'
    BY DEF TypeOK, Commands, OneEach, PortsAreAssigned, Placed, Cleared, Steps
  <2>3. States'
    BY DEF TypeOK, Commands, OneEach, PortsAreAssigned, Placed, States,
           RepositoryPortsAreExclusive, Chosen, OwnStatePorts, Steps
  <2>4. Reservations'
    BY DEF TypeOK, Commands, OneEach, PortsAreAssigned, Placed, Cleared,
           Reservations, Backed, Table, Empty, Steps, Transaction
  <2> QED
    BY <2>1, <2>2, <2>3, <2>4
<1>7. CASE Drop(p)
  <2> USE <1>7 DEF Drop, Pruned
  <2>1. TypeOK'
    BY DEF TypeOK, Table, Empty, Steps, Transaction
  <2>2. Commands'
    BY DEF TypeOK, Commands, OneEach, PortsAreAssigned, Placed, Cleared, Steps
  <2>3. States'
    BY DEF TypeOK, Commands, OneEach, PortsAreAssigned, Placed, States,
           RepositoryPortsAreExclusive, Chosen, OwnStatePorts, Steps
  <2>4. Reservations'
    BY DEF TypeOK, Commands, OneEach, PortsAreAssigned, Placed, Cleared,
           Reservations, Backed, Table, Empty, Steps, Transaction
  <2> QED
    BY <2>1, <2>2, <2>3, <2>4
<1>8. CASE LockState(p)
  <2> USE <1>8 DEF LockState, Pruned
  <2>1. TypeOK'
    BY DEF TypeOK, Table, Empty, Steps, Transaction
  <2>2. Commands'
    BY DEF TypeOK, Commands, OneEach, PortsAreAssigned, Placed, Cleared, Steps
  <2>3. States'
    BY DEF TypeOK, Commands, OneEach, PortsAreAssigned, Placed, States,
           RepositoryPortsAreExclusive, Chosen, OwnStatePorts, Steps
  <2>4. Reservations'
    BY DEF TypeOK, Commands, OneEach, PortsAreAssigned, Placed, Cleared,
           Reservations, Backed, Table, Empty, Steps, Transaction
  <2> QED
    BY <2>1, <2>2, <2>3, <2>4
<1>9. CASE Find(p)
  <2> USE <1>9 DEF Find, FindAmong, Candidates, Reserved
  <2>1. TypeOK'
    BY DEF TypeOK, Table, Empty, Steps, Transaction
  <2>2. Commands'
    BY DEF TypeOK, Commands, OneEach, PortsAreAssigned, Placed, Cleared, Steps
  <2>3. States'
    BY DEF TypeOK, Commands, OneEach, PortsAreAssigned, Placed, States,
           RepositoryPortsAreExclusive, Chosen, OwnStatePorts, Steps
  <2>4. Reservations'
    BY DEF TypeOK, Commands, OneEach, PortsAreAssigned, Placed, Cleared,
           Reservations, Backed, Table, Empty, Steps, Transaction
  <2> QED
    BY <2>1, <2>2, <2>3, <2>4
<1>10. CASE FindFails(p)
  <2> USE <1>10 DEF FindFails
  <2>1. TypeOK'
    BY DEF TypeOK, Table, Empty, Steps, Transaction
  <2>2. Commands'
    BY DEF TypeOK, Commands, OneEach, PortsAreAssigned, Placed, Cleared, Steps
  <2>3. States'
    BY DEF TypeOK, Commands, OneEach, PortsAreAssigned, Placed, States,
           RepositoryPortsAreExclusive, Chosen, OwnStatePorts, Steps
  <2>4. Reservations'
    BY DEF TypeOK, Commands, OneEach, PortsAreAssigned, Placed, Cleared,
           Reservations, Backed, Table, Empty, Steps, Transaction
  <2> QED
    BY <2>1, <2>2, <2>3, <2>4
<1>11. CASE Commit(p)
  <2> USE <1>11 DEF Commit
  <2>1. TypeOK'
    <3>1. CASE job[p] = "acquire"
      BY <3>1 DEF TypeOK, Table, Steps, Transaction
    <3>2. CASE job[p] # "acquire"
      <4>1. registry' \in Table /\ UNCHANGED <<life, assigned, lost>>
        BY DEF TypeOK, Table
      <4>2. pc' = [pc EXCEPT ![p] = "idle"] /\ inside' = inside \ {p}
        BY <3>2
      <4>3. inside' = {q \in Procs : pc'[q] \in Transaction} /\ pc' \in [Procs -> Steps]
        BY <4>2 DEF TypeOK, Steps, Transaction
      <4>4. /\ txn' = [txn EXCEPT ![p] = Empty] /\ todo' = [todo EXCEPT ![p] = {}]
            /\ got' = [got EXCEPT ![p] = {}] /\ job' = [job EXCEPT ![p] = "acquire"]
            /\ asg' = [asg EXCEPT ![p] = None] /\ Empty \in Table
        BY <3>2 DEF Table, Empty
      <4>5. stateLock' \in [Repos -> Procs \cup {None}]
        BY <3>2 DEF TypeOK
      <4> QED
        BY <4>1, <4>3, <4>4, <4>5 DEF TypeOK
    <3> QED
      BY <3>1, <3>2
  <2>2. Commands'
    BY DEF TypeOK, Commands, OneEach, PortsAreAssigned, Placed, Cleared, Steps
  <2>3. States'
    BY DEF TypeOK, Commands, OneEach, PortsAreAssigned, Placed, States,
           RepositoryPortsAreExclusive, Chosen, OwnStatePorts, Steps
  <2>4. Reservations'
    <3>1. CASE job[p] = "acquire"
      <4>1. /\ pc'[p] = "publish" /\ inside' = inside /\ registry' = txn[p]
            /\ \A q \in Procs \ {p} : ~lost => pc'[q] \notin Transaction
        BY <3>1 DEF TypeOK, Reservations, Transaction
      <4>2. ~lost => \A a \in Asgs : \A x \in assigned'[a] : registry'[x] = a
        BY <4>1 DEF Reservations, Backed
      <4>3. ~lost => \A q \in Procs : Backed(q)'
        BY <3>1, <4>1 DEF Reservations, Backed, Transaction
      <4> QED
        BY <4>1, <4>2, <4>3 DEF Reservations
    <3>2. CASE job[p] # "acquire"
      BY <3>2 DEF TypeOK, Commands, OneEach, PortsAreAssigned, Placed, Cleared,
             Reservations, Backed, Table, Empty, Steps, Transaction
    <3> QED
      BY <3>1, <3>2
  <2> QED
    BY <2>1, <2>2, <2>3, <2>4
<1>12. CASE Publish(p)
  <2> USE <1>12 DEF Publish
  <2>1. TypeOK'
    BY DEF TypeOK, Table, Empty, Steps, Transaction
  <2>2. Commands'
    BY DEF TypeOK, Commands, OneEach, PortsAreAssigned, Placed, Cleared, Steps, States, Chosen
  <2>3. States'
    BY DEF TypeOK, Commands, OneEach, PortsAreAssigned, Placed, States,
           RepositoryPortsAreExclusive, Chosen, OwnStatePorts, Steps
  <2>4. Reservations'
    BY DEF TypeOK, Commands, OneEach, PortsAreAssigned, Placed, Cleared,
           Reservations, Backed, Table, Empty, Steps, Transaction
  <2> QED
    BY <2>1, <2>2, <2>3, <2>4
<1>13. CASE GiveUp(p)
  <2> USE <1>13 DEF GiveUp
  <2>1. TypeOK'
    BY DEF TypeOK, Table, Empty, Steps, Transaction
  <2>2. Commands'
    BY DEF TypeOK, Commands, OneEach, PortsAreAssigned, Placed, Cleared, Steps
  <2>3. States'
    BY DEF TypeOK, Commands, OneEach, PortsAreAssigned, Placed, States,
           RepositoryPortsAreExclusive, Chosen, OwnStatePorts, Steps
  <2>4. Reservations'
    BY DEF TypeOK, Commands, OneEach, PortsAreAssigned, Placed, Cleared,
           Reservations, Backed, Table, Empty, Steps, Transaction
  <2> QED
    BY <2>1, <2>2, <2>3, <2>4
<1> QED
  BY <1>1, <1>2, <1>3, <1>4, <1>5, <1>6, <1>7,
     <1>8, <1>9, <1>10, <1>11, <1>12, <1>13
     DEF Acquire, Release, With

(* The registry's lock is lost, or nothing happens.                        *)
LEMMA OthersKeep ==
  ASSUME PortAssumption, IInv, LoseLock \/ UNCHANGED vars
  PROVE  IInv'
<1>1. UNCHANGED <<files, stateLock, inside, pc, job, asg, txn, todo, got>>
  BY DEF LoseLock, RegistryLock!Lose, vars, files
<1>2. lost' \in BOOLEAN /\ (~lost' => ~lost)
  BY DEF IInv, TypeOK, LoseLock, RegistryLock!Lose, vars
<1>3. TypeOK' /\ Commands'
  BY <1>1, <1>2 DEF IInv, TypeOK, Commands, OneEach, PortsAreAssigned, Placed, Cleared, At, files
<1>4. States' /\ Reservations'
  BY <1>1, <1>2 DEF IInv, States, RepositoryPortsAreExclusive, Chosen, My,
                     Reservations, Backed, files
<1> QED
  BY <1>3, <1>4 DEF IInv

(* The inductive invariant: who may change a state, and what the registry  *)
(* and a transaction reserve.                                              *)
THEOREM RegistryInvariance == Spec => []IInv
<1>1. Init => IInv
  BY InitHolds, PortAssumption
<1>2. IInv /\ [Next]_vars => IInv'
  BY StepKeeps, OthersKeep, PortAssumption DEF Next
<1> QED
  BY <1>1, <1>2, PTL DEF Spec

(* The state files, the registry and the transactions keep their shape,    *)
(* and who is in a transaction has entered by the registry's lock.         *)
THEOREM RegistryTypeCorrect == Spec => []TypeOK
<1>1. IInv => TypeOK
  BY DEF IInv
<1> QED
  BY <1>1, RegistryInvariance, PTL

(* allocation.go excludes the ports of the state that it updates: within a *)
(* repository no port is assigned twice, be the registry's lock lost.      *)
THEOREM RepositoryPorts == Spec => []RepositoryPortsAreExclusive
<1>1. IInv => RepositoryPortsAreExclusive
  BY DEF IInv, States
<1> QED
  BY <1>1, RegistryInvariance, PTL

(* The registry is committed before the state, and pruning keeps what a    *)
(* state has: a port that is published is reserved.                        *)
THEOREM PublishedPorts == Spec => []PublishedPortsAreReserved
<1>1. IInv => PublishedPortsAreReserved
  BY DEF IInv, Reservations, PublishedPortsAreReserved
<1> QED
  BY <1>1, RegistryInvariance, PTL

(* A port is reserved for one assignment, so that two assignments of one   *)
(* host never have the same, whatever repositories they belong to.         *)
THEOREM HostPorts == Spec => []PortsAreExclusive
<1>1. IInv => PortsAreExclusive
  <2> SUFFICES ASSUME IInv, ~lost, NEW a \in Asgs, NEW b \in Asgs, a # b
               PROVE  assigned[a] \cap assigned[b] = {}
    BY DEF PortsAreExclusive
  <2>1. \A x \in assigned[a] : registry[x] = a
    BY DEF IInv, Reservations
  <2>2. \A x \in assigned[b] : registry[x] = b
    BY DEF IInv, Reservations
  <2> QED
    BY <2>1, <2>2
<1> QED
  BY <1>1, RegistryInvariance, PTL
=============================================================================
