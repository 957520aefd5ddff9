------------------------ MODULE SchedulerLeaseProofs ------------------------
(***************************************************************************)
(* Proofs about SchedulerLease, for any number of processes and any        *)
(* durations, when instance ids are distinct and refreshes are timely.     *)
(***************************************************************************)
EXTENDS SchedulerLease, FiniteSetTheorems, TLAPS

DistinctIds == \A p, q \in Processes : IdOf[p] = IdOf[q] => p = q

\* A process that counts on the lease owns it, and the lease outlives the
\* time since its last refresh: this is what makes a takeover impossible.
HeldInv ==
  /\ \A p \in Holding : owner = IdOf[p] /\ left + since[p] >= TTL
  /\ \A p \in Processes : pc[p] = "follower" => owner # IdOf[p]

\* Where a process can be while its scheduler runs.
RunInv ==
  /\ \A p \in running : \/ pc[p] = "leader"
                        \/ p \notin StopsFirst /\ pc[p] \in {"releasing", "released"}
  /\ \A p \in StopsFirst : pc[p] # "released"

LeaseInv == TypeOK /\ HeldInv /\ RunInv

LEMMA LeaseInit ==
  ASSUME Init
  PROVE  LeaseInv
  BY TimeAssumption, ProcessAssumption
     DEF Init, LeaseInv, TypeOK, HeldInv, RunInv, Holding, Ids, Pcs

LEMMA TypeStep ==
  ASSUME TypeOK, [Next]_vars
  PROVE  TypeOK'
<1> USE TimeAssumption DEF TypeOK, Pcs, Goto
<1>1. ASSUME NEW p \in Processes, Acquire(p) PROVE TypeOK'
  BY <1>1 DEF Acquire, Ids
<1>2. ASSUME NEW p \in Processes, Heartbeat(p) PROVE TypeOK'
  BY <1>2 DEF Heartbeat
<1>3. ASSUME NEW p \in Processes, StartScheduler(p) \/ StopScheduler(p) \/ Exit(p) \/ Crash(p)
      PROVE  TypeOK'
  BY <1>3 DEF StartScheduler, StopScheduler, Exit, Crash
<1>4. ASSUME NEW p \in Processes, ReleaseRead(p) \/ ReleaseWrite(p) PROVE TypeOK'
  BY <1>4 DEF ReleaseRead, ReleaseWrite
<1>5. ASSUME Tick PROVE TypeOK'
  BY <1>5 DEF Tick
<1>6. CASE UNCHANGED vars
  BY <1>6 DEF vars
<1> QED BY <1>1, <1>2, <1>3, <1>4, <1>5, <1>6 DEF Next

\* The lease row and the processes keep their types whatever the lease's length and
\* whether or not two processes share a lease id.
THEOREM LeaseTypes == Spec => []TypeOK
<1>1. Init => TypeOK
  BY LeaseInit DEF LeaseInv
<1>2. TypeOK /\ [Next]_vars => TypeOK'
  BY TypeStep
<1> QED BY <1>1, <1>2, PTL DEF Spec

LEMMA RunStep ==
  ASSUME TypeOK, RunInv, [Next]_vars
  PROVE  RunInv'
<1> USE ProcessAssumption DEF TypeOK, RunInv, Goto
<1>1. ASSUME NEW p \in Processes, Acquire(p) \/ StartScheduler(p) \/ Heartbeat(p)
      PROVE  RunInv'
  BY <1>1 DEF Acquire, StartScheduler, Heartbeat
<1>2. ASSUME NEW p \in Processes, StopScheduler(p) \/ Exit(p) \/ Crash(p) PROVE RunInv'
  BY <1>2 DEF StopScheduler, Exit, Crash
<1>3. ASSUME NEW p \in Processes, ReleaseRead(p) PROVE RunInv'
  BY <1>3 DEF ReleaseRead
<1>4. ASSUME NEW p \in Processes, ReleaseWrite(p) PROVE RunInv'
  BY <1>4 DEF ReleaseWrite
<1>5. CASE Tick \/ UNCHANGED vars
  BY <1>5 DEF Tick, vars
<1> QED BY <1>1, <1>2, <1>3, <1>4, <1>5 DEF Next

LEMMA HeldStep ==
  ASSUME DistinctIds, Timely, TypeOK, HeldInv, RunInv, [Next]_vars
  PROVE  HeldInv'
<1> USE TimeAssumption, ProcessAssumption DEF TypeOK, HeldInv, Holding, Goto
<1>1. ASSUME NEW p \in Processes, Acquire(p) PROVE HeldInv'
  <2>1. CASE left > 0 /\ owner # IdOf[p]
    BY <1>1, <2>1 DEF Acquire
  <2>2. CASE ~(left > 0 /\ owner # IdOf[p])
    <3>1. owner' = IdOf[p] /\ left' = TTL /\ pc' = [pc EXCEPT ![p] = "won"]
          /\ since' = [since EXCEPT ![p] = 0]
      BY <1>1, <2>2 DEF Acquire
    <3>2. \A q \in Holding : q = p
      <4> SUFFICES ASSUME NEW q \in Holding PROVE q = p
        OBVIOUS
      <4>1. CASE owner = IdOf[p]
        BY <4>1 DEF DistinctIds
      <4>2. CASE left = 0
        <5>1. since[q] <= MaxGap /\ since[q] \in Nat
          OBVIOUS
        <5> QED BY <4>2, <5>1
      <4> QED BY <2>2, <4>1, <4>2
    <3> QED BY <3>1, <3>2 DEF DistinctIds
  <2> QED BY <2>1, <2>2
<1>2. ASSUME NEW p \in Processes, StartScheduler(p) \/ StopScheduler(p) \/ Exit(p) \/ Crash(p)
      PROVE  HeldInv'
  BY <1>2 DEF StartScheduler, StopScheduler, Exit, Crash
<1>3. ASSUME NEW p \in Processes, Heartbeat(p) PROVE HeldInv'
  <2>1. \A q \in Holding : q # p => IdOf[q] # IdOf[p]
    BY DEF DistinctIds
  <2> QED BY <1>3, <2>1 DEF Heartbeat
<1>4. ASSUME NEW p \in Processes, ReleaseRead(p) PROVE HeldInv'
  BY <1>4 DEF ReleaseRead
<1>5. ASSUME NEW p \in Processes, ReleaseWrite(p) PROVE HeldInv'
  <2>1. \A q \in Holding : q = p
    BY <1>5 DEF DistinctIds, ReleaseWrite
  <2> QED BY <1>5, <2>1 DEF ReleaseWrite
<1>6. ASSUME Tick PROVE HeldInv'
  <2>1. \A p \in Holding : since[p] < MaxGap
    BY <1>6 DEF Tick
  <2> QED BY <1>6, <2>1 DEF Tick
<1>7. CASE UNCHANGED vars
  BY <1>7 DEF vars
<1> QED BY <1>1, <1>2, <1>3, <1>4, <1>5, <1>6, <1>7 DEF Next

LEMMA LeaseStep ==
  ASSUME DistinctIds, Timely, LeaseInv, [Next]_vars
  PROVE  LeaseInv'
  BY TypeStep, HeldStep, RunStep DEF LeaseInv

\* A set whose members are all equal has at most one of them.
LEMMA AtMostOne ==
  ASSUME NEW S, \A x, y \in S : x = y
  PROVE  Cardinality(S) <= 1
<1>1. CASE S = {}
  BY <1>1, FS_EmptySet
<1>2. CASE S # {}
  <2>1. PICK x : x \in S
    BY <1>2
  <2>2. S = {x}
    BY <2>1
  <2> QED BY <2>2, FS_Singleton
<1> QED BY <1>1, <1>2

LEMMA OneHolder ==
  ASSUME DistinctIds, LeaseInv, NEW p \in Holding, NEW q \in Holding
  PROVE  p = q
  BY DEF DistinctIds, LeaseInv, HeldInv, Holding

\* With distinct ids and timely refreshes there is one leader, however the
\* processes of the deployment shut down, crash and restart.
THEOREM LeaderIsUnique ==
  ASSUME DistinctIds, Timely
  PROVE  Spec => []OneLeader
<1>1. Init => LeaseInv
  BY LeaseInit
<1>2. LeaseInv /\ [Next]_vars => LeaseInv'
  BY LeaseStep
<1>3. LeaseInv => OneLeader
  <2> SUFFICES ASSUME LeaseInv PROVE OneLeader
    OBVIOUS
  <2>1. {p \in Processes : pc[p] = "leader"} \subseteq Holding
    BY DEF Holding
  <2> QED BY <2>1, OneHolder, AtMostOne DEF OneLeader
<1> QED BY <1>1, <1>2, <1>3, PTL DEF Spec

\* If moreover every process stops its scheduler before it releases the lease,
\* the way a worker does, one scheduler runs.
THEOREM SchedulerIsUnique ==
  ASSUME DistinctIds, Timely, StopsFirst = Processes
  PROVE  Spec => []OneScheduler
<1>1. Init => LeaseInv
  BY LeaseInit
<1>2. LeaseInv /\ [Next]_vars => LeaseInv'
  BY LeaseStep
<1>3. LeaseInv => OneScheduler
  <2> SUFFICES ASSUME LeaseInv PROVE OneScheduler
    OBVIOUS
  <2>1. running \subseteq Holding
    BY DEF LeaseInv, TypeOK, RunInv, Holding
  <2> QED BY <2>1, OneHolder, AtMostOne DEF OneScheduler
<1> QED BY <1>1, <1>2, <1>3, PTL DEF Spec

LEMMA ReleasedStep ==
  ASSUME DistinctIds, LeaseInv, ReleasedOnExit, [Next]_vars
  PROVE  ReleasedOnExit'
<1> USE ProcessAssumption DEF LeaseInv, TypeOK, ReleasedOnExit, Goto
<1>1. ASSUME NEW p \in Processes, Acquire(p) PROVE ReleasedOnExit'
  BY <1>1 DEF Acquire, DistinctIds
<1>2. ASSUME NEW p \in Processes, Heartbeat(p) PROVE ReleasedOnExit'
  BY <1>2 DEF Heartbeat, RunInv, DistinctIds
<1>3. ASSUME NEW p \in Processes, StartScheduler(p) \/ StopScheduler(p) \/ Exit(p) \/ Crash(p)
      PROVE  ReleasedOnExit'
  BY <1>3 DEF StartScheduler, StopScheduler, Exit, Crash, HeldInv, RunInv
<1>4. ASSUME NEW p \in Processes, ReleaseRead(p) \/ ReleaseWrite(p) PROVE ReleasedOnExit'
  BY <1>4 DEF ReleaseRead, ReleaseWrite
<1>5. CASE Tick \/ UNCHANGED vars
  BY <1>5 DEF Tick, vars
<1> QED BY <1>1, <1>2, <1>3, <1>4, <1>5 DEF Next

\* A worker that shuts down gracefully frees the lease for good, also next to
\* API processes.
THEOREM ShutdownFreesLease ==
  ASSUME DistinctIds, Timely
  PROVE  Spec => []ReleasedOnExit
<1>1. Init => LeaseInv /\ ReleasedOnExit
  BY LeaseInit DEF Init, ReleasedOnExit
<1>2. LeaseInv /\ ReleasedOnExit /\ [Next]_vars => (LeaseInv /\ ReleasedOnExit)'
  BY LeaseStep, ReleasedStep
<1> QED BY <1>1, <1>2, PTL DEF Spec
-----------------------------------------------------------------------------
(* Refinement of the lock *)

\* Each step takes or drops the lock for one process, or leaves it alone.
LEMMA LockStep ==
  ASSUME DistinctIds, Timely, LeaseInv, [Next]_vars
  PROVE  [Lock!Next]_Holding
<1> USE DEF LeaseInv, TypeOK, Holding, Goto
<1>1. ASSUME NEW p \in Processes, Acquire(p) PROVE Lock!Take(p) \/ Holding' = Holding
  <2>1. CASE left > 0 /\ owner # IdOf[p]
    BY <1>1, <2>1 DEF Acquire
  <2>2. CASE ~(left > 0 /\ owner # IdOf[p])
    <3>1. pc' = [pc EXCEPT ![p] = "won"] /\ pc[p] \in {"down", "exited"}
      BY <1>1, <2>2 DEF Acquire
    <3>2. ASSUME NEW q \in Holding PROVE FALSE
      <4>1. owner = IdOf[q] /\ left + since[q] >= TTL /\ since[q] \in 0..MaxGap
        BY DEF HeldInv
      <4>2. left > 0
        BY <4>1, TimeAssumption
      <4>3. p = q
        BY <2>2, <4>1, <4>2 DEF DistinctIds
      <4> QED BY <3>1, <4>3
    <3> QED BY <3>1, <3>2 DEF Lock!Take
  <2> QED BY <2>1, <2>2
<1>2. ASSUME NEW p \in Processes, ReleaseRead(p) \/ ReleaseWrite(p)
      PROVE  Lock!Drop(p) \/ Holding' = Holding
  BY <1>2 DEF ReleaseRead, ReleaseWrite, HeldInv, Lock!Drop
<1>3. ASSUME NEW p \in Processes, Crash(p) PROVE Lock!Drop(p) \/ Holding' = Holding
  BY <1>3 DEF Crash, Lock!Drop
<1>4. ASSUME NEW p \in Processes, StartScheduler(p) \/ StopScheduler(p) \/ Exit(p) \/ Heartbeat(p)
      PROVE  Holding' = Holding
  BY <1>4 DEF StartScheduler, StopScheduler, Exit, Heartbeat
<1>5. CASE Tick \/ UNCHANGED vars
  BY <1>5 DEF Tick, vars
<1> HIDE DEF LeaseInv, TypeOK, Holding, Goto
<1> QED BY <1>1, <1>2, <1>3, <1>4, <1>5 DEF Next, Lock!Next

\* With distinct ids and timely refreshes the lease is a lock on leadership, in any
\* mixture of API and worker processes that crash, restart and shut down.
THEOREM LockImplemented ==
  ASSUME DistinctIds, Timely
  PROVE  Spec => ImplementsLock
<1>1. Init => LeaseInv /\ Lock!Init
  BY LeaseInit DEF Init, Lock!Init, Holding
<1>2. LeaseInv /\ [Next]_vars => LeaseInv' /\ [Lock!Next]_Holding
  BY LeaseStep, LockStep
<1> QED BY <1>1, <1>2, PTL DEF Spec, ImplementsLock, Lock!Spec

=============================================================================
