------------------------- MODULE FlowDispatchQueues -------------------------
(***************************************************************************)
(* The scheduler holds every queued run exactly once, and types hold.      *)
(***************************************************************************)
EXTENDS FlowDispatch, FiniteSetTheorems, TLAPS

\* The tenant of a unit, and the constants' types.
LEMMA Constants ==
  /\ \A u \in Units : Tenant(u) \in Tenants
  /\ Runs \subseteq Units /\ Requests \subseteq Units
  /\ None \notin Runs /\ None \notin Tenants
  /\ \A r \in Runs : PriorityOf[r] \in Levels
BY UnitsAssumption DEF Units, Tenant

\* The level dequeue_next takes from exists and is not empty.
LEMMA TopLevelOK ==
  ASSUME queues \in [Levels -> Seq(Runs)], QueueSize > 0
  PROVE  TopLevel \in Levels /\ queues[TopLevel] # <<>>
<1>1. queues[1] # <<>> \/ queues[2] # <<>> \/ queues[3] # <<>>
  BY DEF QueueSize, Levels
<1>2. \E l \in Levels : queues[l] # <<>> /\ \A k \in Levels : k < l => queues[k] = <<>>
  <2>1. CASE queues[1] # <<>>
    BY <2>1 DEF Levels
  <2>2. CASE queues[1] = <<>> /\ queues[2] # <<>>
    BY <2>2 DEF Levels
  <2>3. CASE queues[1] = <<>> /\ queues[2] = <<>> /\ queues[3] # <<>>
    BY <2>3 DEF Levels
  <2> QED BY <1>1, <2>1, <2>2, <2>3
<1> QED BY <1>2 DEF TopLevel

\* A queue turned by dequeue_next is a queue of the same length.
LEMMA TurnedOK ==
  ASSUME queues \in [Levels -> Seq(Runs)], NEW l \in Levels, queues[l] # <<>>
  PROVE  /\ Turned(l) \in Seq(Runs) /\ Turned(l) # <<>>
         /\ Turned(l)[1] \in Runs /\ Tail(Turned(l)) \in Seq(Runs)
<1> DEFINE q == queues[l]
<1>1. q \in Seq(Runs) /\ q # <<>> /\ q[1] \in Runs /\ Tail(q) \in Seq(Runs)
  OBVIOUS
<1>2. Append(Tail(q), q[1]) \in Seq(Runs) /\ Len(Append(Tail(q), q[1])) = Len(q)
  BY <1>1
<1>3. Turned(l) \in Seq(Runs) /\ Len(Turned(l)) = Len(q)
  BY <1>1, <1>2 DEF Turned
<1> QED BY <1>1, <1>3

-----------------------------------------------------------------------------
(* Types *)

\* Every place a step goes to.
LEMMA GotoOK ==
  ASSUME at \in [Units -> Pcs], NEW u \in Units, NEW pc \in Pcs, Goto(u, pc)
  PROVE  at' \in [Units -> Pcs]
BY DEF Goto

LEMMA PlusOK ==
  ASSUME NEW f \in [Tenants -> Nat], NEW t \in Tenants, NEW n \in Nat
  PROVE  Plus(f, t, n) \in [Tenants -> Nat]
BY SMTT(40) DEF Plus

\* Steps of the runners, the requests and mark_completed.
LEMMA UnitTypes ==
  ASSUME TypeOK, NEW u \in Units,
         \/ u \in Runs /\ (Start(u) \/ StartUncounted(u) \/ Event(u) \/ Runner(u))
         \/ Completion(u)
         \/ u \in Requests /\ (Admit(u) \/ Pipeline(u))
  PROVE  TypeOK'
<1>0. \A pc \in {"check", "quota", "exec", "park", "parked", "paused", "waking", "queued",
                 "serve", "release", "decr", "leaked", "floor", "tell", "close", "new",
                 "admitted", "done"} : pc \in Pcs
  BY DEF Pcs, HoldingPcs, RunnerPcs
<1>t. Tenant(u) \in Tenants
  BY Constants
<1> USE DEF TypeOK
<1>1. CASE u \in Runs /\ Start(u)
  BY <1>0, <1>1, <1>t, GotoOK DEF Start, rows, items, Plus
<1>2. CASE u \in Runs /\ StartUncounted(u)
  BY SMTT(40), <1>0, <1>2, <1>t, GotoOK, LimitsAssumption DEF StartUncounted, Fault, items, Plus
<1>3. CASE u \in Runs /\ Event(u)
  BY <1>0, <1>3, GotoOK DEF Event, rows, items, counters
<1>4. CASE u \in Runs /\ (CheckPass(u) \/ CheckRefused(u) \/ Park(u) \/ QuotaPass(u))
  BY <1>0, <1>4, GotoOK DEF CheckPass, CheckRefused, Park, QuotaPass, rows, items, counters
<1>5. CASE u \in Runs /\ (QuotaFails(u) \/ Fail(u) \/ Succeed(u) \/ Handoff(u))
  <2>1. nodes' \in [Runs -> 0..MaxNodes]
    <3>1. nodes' = [nodes EXCEPT ![u] = 0] /\ nodes \in [Runs -> 0..MaxNodes] /\ 0 \in 0..MaxNodes
      BY <1>5, LimitsAssumption DEF QuotaFails, Fail, Succeed, Handoff
    <3> HIDE DEF TypeOK
    <3> QED BY Zenon, <3>1
  <2>2. at' \in [Units -> Pcs]
    <3>1. Goto(u, "release") \/ Goto(u, "leaked")
      BY <1>5 DEF QuotaFails, Fail, Succeed, Handoff
    <3> QED BY <1>0, <3>1, GotoOK
  <2>3. failing' \subseteq Runs
    BY <1>5 DEF QuotaFails, Fail, Succeed, Handoff
  <2> QED BY <1>5, <2>1, <2>2, <2>3 DEF QuotaFails, Fail, Succeed, Handoff, items, counters
<1>6. CASE u \in Runs /\ (NextNode(u) \/ Wait(u))
  <2>1. nodes' \in [Runs -> 0..MaxNodes]
    <3>1. /\ nodes' = [nodes EXCEPT ![u] = nodes[u] + 1] /\ nodes[u] < MaxNodes
          /\ nodes \in [Runs -> 0..MaxNodes] /\ u \in Runs
      BY <1>6 DEF NextNode, Wait, Plus
    <3>2. nodes[u] + 1 \in 0..MaxNodes
      BY <3>1, LimitsAssumption
    <3> HIDE DEF TypeOK
    <3> QED BY <3>1, <3>2
  <2>2. at' \in [Units -> Pcs]
    <3>1. Goto(u, "check") \/ Goto(u, "paused")
      BY <1>6 DEF NextNode, Wait
    <3> QED BY <1>0, <3>1, GotoOK
  <2> QED BY <1>6, <2>1, <2>2 DEF NextNode, Wait, items, counters
<1>7. CASE u \in Runs /\ (FinalizeFails(u) \/ Close(u))
  <2>1. at' \in [Units -> Pcs]
    <3>1. Goto(u, "release") \/ Goto(u, "done")
      BY <1>7 DEF FinalizeFails, Close
    <3> QED BY <1>0, <3>1, GotoOK
  <2>2. lost' \in [Tenants -> Nat]
    <3>1. lost' = lost \/ lost' = Plus(lost, Tenant(u), 1)
      BY <1>7 DEF FinalizeFails, Close, counters
    <3>2. lost \in [Tenants -> Nat] /\ Plus(lost, Tenant(u), 1) \in [Tenants -> Nat]
      BY Zenon, <1>t, PlusOK
    <3> QED BY <3>1, <3>2
  <2>3. faults' \in 0..MaxFaults
    BY <1>7, LimitsAssumption DEF FinalizeFails, Close, Fault
  <2> QED BY <1>7, <2>1, <2>2, <2>3 DEF FinalizeFails, Close, items, counters
<1>8. CASE u \in Runs /\ RunnerRaises(u)
  <2>1. at' \in [Units -> Pcs]
    BY <1>0, <1>8, GotoOK DEF RunnerRaises
  <2>2. faults' \in 0..MaxFaults
    BY <1>8, LimitsAssumption DEF RunnerRaises, Fault
  <2> QED BY <1>8, <2>1, <2>2 DEF RunnerRaises, items, rows, counters
<1>9. CASE u \in Runs /\ EnqueueResume(u)
  <2>1. at' \in [Units -> Pcs]
    BY <1>0, <1>9, GotoOK DEF EnqueueResume
  <2>2. queues' \in [Levels -> Seq(Runs)] /\ level' \in [Runs -> Levels]
    BY <1>9, Constants DEF EnqueueResume, Enqueued
  <2>3. retries' \in [Runs -> 0..MaxRetries]
    BY <1>9, LimitsAssumption DEF EnqueueResume
  <2> QED BY Zenon, <1>9, <2>1, <2>2, <2>3 DEF EnqueueResume, rows, counters
<1>10. CASE ReadCount(u)
  BY <1>0, <1>10, <1>t, GotoOK DEF ReadCount, rows, items
<1>11. CASE Decr(u) \/ Floor(u)
  <2>1. After(u) \in Pcs
    BY <1>0 DEF After
  <2>2. at' \in [Units -> Pcs]
    <3>1. Goto(u, "floor") \/ Goto(u, "tell") \/ Goto(u, After(u))
      BY <1>11 DEF Decr, Floor
    <3> QED BY <1>0, <2>1, <3>1, GotoOK
  <2>3. active' \in [Tenants -> Int] /\ seen' \in [Units -> Int]
    BY <1>11, <1>t DEF Decr, Floor
  <2>4. lost' \in [Tenants -> Nat]
    <3>1. CASE Decr(u)
      BY <3>1 DEF Decr
    <3>2. CASE Floor(u)
      <4> DEFINE n == IF active[Tenant(u)] > 0 THEN active[Tenant(u)] ELSE 0
      <4>1. n \in Nat
        BY <1>t
      <4>2. lost' = Plus(lost, Tenant(u), n)
        BY <3>2 DEF Floor
      <4> QED BY Zenon, <1>t, <4>1, <4>2, PlusOK
    <3> QED BY <1>11, <3>1, <3>2
  <2> QED BY Zenon, <1>11, <2>2, <2>3, <2>4 DEF Decr, Floor, rows, items
<1>12. CASE Tell(u)
  <2>1. After(u) \in Pcs
    BY <1>0 DEF After
  <2>2. at' \in [Units -> Pcs]
    BY <1>0, <1>12, <2>1 DEF Tell
  <2> QED BY <1>12, <2>2 DEF Tell, rows, items, counters
<1>13. CASE u \in Requests /\ (Admit(u) \/ Serve(u))
  BY <1>0, <1>13, GotoOK DEF Admit, Serve, rows, items, counters
<1>14. CASE u \in Requests /\ Begin(u)
  BY <1>0, <1>14, <1>t, GotoOK DEF Begin, rows, items, Plus
<1> QED
  BY Zenon, <1>1, <1>2, <1>3, <1>4, <1>5, <1>6, <1>7, <1>8, <1>9, <1>10, <1>11, <1>12, <1>13,
     <1>14 DEF Runner, Completion, Pipeline

\* The record of a cycle.
LEMMA SchedFields ==
  ASSUME sched \in Scheds
  PROVE  /\ sched.item \in Runs \union {None} /\ sched.skips \in Nat
         /\ sched.processed \in Nat /\ sched.saturated \subseteq Tenants
         /\ sched.retry \in Seq(Runs)
BY DEF Scheds

\* A tick that looks at an item has one.
HasItem == sched.pc \in {"have", "inline"} => sched.item \in Runs

\* Steps of the scheduler that only change its own record.
LEMMA TickTypes ==
  ASSUME TypeOK, Cycle \/ Return \/ LoopEnd \/ CycleEnd
  PROVE  TypeOK'
<1>0. sched \in Scheds
  BY DEF TypeOK
<1>1. sched' \in Scheds
  <2>1. CASE Cycle
    BY <1>0, <2>1 DEF Cycle, Scheds
  <2>2. CASE Return
    BY Zenon, <1>0, <2>2 DEF Return, Scheds
  <2>3. CASE LoopEnd
    BY <1>0, <2>3 DEF LoopEnd, Scheds
  <2>4. CASE CycleEnd
    BY <1>0, <2>4, LimitsAssumption DEF CycleEnd, Idle, Scheds
  <2> QED BY <2>1, <2>2, <2>3, <2>4
<1> QED BY <1>1 DEF TypeOK, Cycle, Return, LoopEnd, CycleEnd, items, rows, counters

\* Steps that move an item.
LEMMA ItemTypes ==
  ASSUME TypeOK, HasItem, Dequeue \/ Skip \/ Defer \/ Flush
  PROVE  TypeOK'
<1>0. /\ sched \in Scheds /\ queues \in [Levels -> Seq(Runs)]
      /\ level \in [Runs -> Levels] /\ cursor \in [Levels -> Tenants \union {None}]
  BY DEF TypeOK
<1>1. CASE Dequeue
  <2> DEFINE q == Turned(TopLevel)
  <2>1. /\ TopLevel \in Levels /\ q[1] \in Runs /\ Tail(q) \in Seq(Runs)
    BY <1>0, <1>1, TopLevelOK, TurnedOK DEF Dequeue
  <2>2. sched' \in Scheds
    BY Zenon, <1>0, <1>1, <2>1 DEF Dequeue, Scheds
  <2>3. queues' \in [Levels -> Seq(Runs)] /\ cursor' \in [Levels -> Tenants \union {None}]
    BY <1>0, <1>1, <2>1, Constants DEF Dequeue
  <2> QED BY Zenon, <1>1, <2>2, <2>3 DEF TypeOK, Dequeue, rows, counters
<1>2. CASE Skip \/ Defer
  <2>1. sched.item \in Runs
    BY <1>2 DEF Skip, Defer, HasItem
  <2>2. queues' \in [Levels -> Seq(Runs)]
    <3>1. queues' = [queues EXCEPT ![level[sched.item]] = <<sched.item>> \o queues[level[sched.item]]]
      BY Zenon, <1>2 DEF Skip, Defer, PutBack
    <3>2. level[sched.item] \in Levels
      BY <1>0, <2>1
    <3>3. <<sched.item>> \o queues[level[sched.item]] \in Seq(Runs)
      BY <1>0, <2>1, <3>2
    <3> QED BY <1>0, <3>1, <3>2, <3>3
  <2>3. sched' \in Scheds
    <3>1. CASE Skip
      <4>1. sched.skips + 1 \in Nat
        BY <1>0, SchedFields
      <4> QED BY Zenon, <1>0, <3>1, <4>1 DEF Skip, Scheds
    <3>2. CASE Defer
      <4>1. sched.saturated \union {Tenant(sched.item)} \subseteq Tenants
        BY <1>0, <2>1, SchedFields, Constants
      <4>2. sched.processed + 1 \in Nat
        BY <1>0, SchedFields
      <4> QED BY Zenon, <1>0, <3>2, <4>1, <4>2 DEF Defer, Scheds
    <3> QED BY <1>2, <3>1, <3>2
  <2> QED BY <1>2, <2>2, <2>3 DEF TypeOK, Skip, Defer, rows, counters
<1>3. CASE Flush
  <2>1. Head(sched.retry) \in Runs /\ Tail(sched.retry) \in Seq(Runs)
    BY <1>0, <1>3, SchedFields DEF Flush
  <2>2. queues' \in [Levels -> Seq(Runs)]
    BY <1>0, <1>3, <2>1 DEF Flush, Enqueued
  <2>3. sched' \in Scheds
    BY Zenon, <1>0, <1>3, <2>1 DEF Flush, Scheds
  <2> QED BY Zenon, <1>3, <2>2, <2>3 DEF TypeOK, Flush, rows, counters
<1> QED BY <1>1, <1>2, <1>3

\* Dispatching, and what follows when it raises.
LEMMA DispatchTypes ==
  ASSUME TypeOK, HasItem, Dispatch \/ DispatchRetried \/ DispatchDropped
  PROVE  TypeOK'
<1>0. /\ sched \in Scheds /\ at \in [Units -> Pcs] /\ lost \in [Tenants -> Nat]
      /\ level \in [Runs -> Levels] /\ retries \in [Runs -> 0..MaxRetries]
      /\ untracked \subseteq Runs /\ faults \in 0..MaxFaults
  BY DEF TypeOK
<1>1. sched.item \in Runs
  BY <1>0, SchedFields DEF Dispatch, DispatchRetried, DispatchDropped, HasItem
<1>2. sched.item \in Units /\ Tenant(sched.item) \in Tenants
  BY <1>1, Constants
<1>3. "check" \in Pcs /\ "queued" \in Pcs /\ "done" \in Pcs /\ "leaked" \in Pcs
  BY DEF Pcs, HoldingPcs, RunnerPcs
<1>4. sched.processed + 1 \in Nat /\ sched.processed \in Nat
  BY <1>0, SchedFields
<1>5. Caught \in Scheds
  BY Zenon, <1>0, <1>4 DEF Caught, Scheds
<1>6. CASE Dispatch
  <2>1. sched' \in Scheds
    BY Zenon, <1>0, <1>1, <1>4, <1>6 DEF Dispatch, Scheds
  <2>2. at' \in [Units -> Pcs]
    BY <1>0, <1>2, <1>3, <1>6, GotoOK DEF Dispatch
  <2> QED BY <1>6, <2>1, <2>2 DEF TypeOK, Dispatch, items, rows, counters
<1>7. CASE DispatchRetried
  <2>1. sched' \in Scheds
    <3>1. sched' = [Caught EXCEPT !.retry = Append(Caught.retry, sched.item)]
      BY <1>7 DEF DispatchRetried
    <3>2. Append(Caught.retry, sched.item) \in Seq(Runs)
      BY <1>1, <1>5 DEF Scheds
    <3> QED BY Zenon, <1>5, <3>1, <3>2 DEF Scheds
  <2>2. at' \in [Units -> Pcs]
    BY <1>0, <1>2, <1>3, <1>7, GotoOK DEF DispatchRetried
  <2>3. lost' \in [Tenants -> Nat]
    <3>1. lost' = lost \/ lost' = Plus(lost, Tenant(sched.item), 1)
      BY <1>7 DEF DispatchRetried
    <3>2. Plus(lost, Tenant(sched.item), 1) \in [Tenants -> Nat]
      BY Zenon, <1>0, <1>2, PlusOK
    <3> QED BY <1>0, <3>1, <3>2
  <2>4. retries' \in [Runs -> 0..MaxRetries]
    <3>1. retries[sched.item] + 1 \in 0..MaxRetries
      BY <1>0, <1>1, <1>7, LimitsAssumption DEF DispatchRetried, MayRetry
    <3>2. retries' = [retries EXCEPT ![sched.item] = retries[sched.item] + 1]
      BY <1>7 DEF DispatchRetried, Plus
    <3> QED BY <1>0, <1>1, <3>1, <3>2
  <2>5. level' \in [Runs -> Levels]
    BY <1>0, <1>1, <1>7 DEF DispatchRetried, Levels, LOW
  <2>6. untracked' \subseteq Runs
    BY <1>0, <1>1, <1>7 DEF DispatchRetried
  <2>7. faults' \in 0..MaxFaults
    BY <1>0, <1>7, LimitsAssumption DEF DispatchRetried, Fault
  <2> QED BY <1>7, <2>1, <2>2, <2>3, <2>4, <2>5, <2>6, <2>7 DEF TypeOK, DispatchRetried
<1>8. CASE DispatchDropped
  <2>1. at' \in [Units -> Pcs]
    BY <1>0, <1>2, <1>3, <1>8, GotoOK DEF DispatchDropped
  <2>2. faults' \in 0..MaxFaults
    BY <1>0, <1>8, LimitsAssumption DEF DispatchDropped, Fault
  <2> QED BY <1>5, <1>8, <2>1, <2>2 DEF TypeOK, DispatchDropped, items, rows, counters
<1> QED BY <1>6, <1>7, <1>8

\* Every step keeps the types.
LEMMA TypeStep == TypeOK /\ HasItem /\ [Next]_vars => TypeOK'
<1> SUFFICES ASSUME TypeOK, HasItem, [Next]_vars PROVE TypeOK'
  OBVIOUS
<1>1. CASE UNCHANGED vars
  BY <1>1 DEF vars, TypeOK, counters, rows, items
<1>2. CASE Scheduler
  BY <1>2, TickTypes, ItemTypes, DispatchTypes DEF Scheduler
<1>3. ASSUME NEW u \in Units,
             \/ u \in Runs /\ (Start(u) \/ StartUncounted(u) \/ Event(u) \/ Runner(u))
             \/ Completion(u)
             \/ u \in Requests /\ (Admit(u) \/ Pipeline(u))
      PROVE  TypeOK'
  BY <1>3, UnitTypes
<1> QED BY <1>1, <1>2, <1>3, Constants DEF Next

-----------------------------------------------------------------------------
(* How often a run occurs in a queue *)

LEMMA CountNat ==
  ASSUME NEW q \in Seq(Runs), NEW r
  PROVE  /\ IsFiniteSet({i \in DOMAIN q : q[i] = r})
         /\ Count(q, r) \in Nat
<1>1. DOMAIN q = 1..Len(q) /\ Len(q) \in Nat
  OBVIOUS
<1>2. IsFiniteSet(1..Len(q))
  BY <1>1, FS_Interval
<1>3. IsFiniteSet({i \in DOMAIN q : q[i] = r})
  BY <1>1, <1>2, FS_Subset
<1> QED BY <1>3, FS_CardinalityType DEF Count

LEMMA CountAppend ==
  ASSUME NEW q \in Seq(Runs), NEW x \in Runs, NEW r \in Runs
  PROVE  Count(Append(q, x), r) = Count(q, r) + (IF x = r THEN 1 ELSE 0)
<1> DEFINE S == {i \in DOMAIN q : q[i] = r}
           T == {i \in DOMAIN Append(q, x) : Append(q, x)[i] = r}
<1>1. /\ Len(q) \in Nat /\ DOMAIN q = 1..Len(q)
      /\ DOMAIN Append(q, x) = 1..Len(q) + 1
      /\ \A i \in 1..Len(q) : Append(q, x)[i] = q[i]
      /\ Append(q, x)[Len(q) + 1] = x
  OBVIOUS
<1>2. IsFiniteSet(S) /\ Cardinality(S) \in Nat
  BY Zenon, CountNat DEF Count
<1>3. CASE x = r
  <2>1. T = S \union {Len(q) + 1} /\ Len(q) + 1 \notin S
    BY <1>1, <1>3
  <2>2. Cardinality(T) = Cardinality(S) + 1
    BY Zenon, <1>2, <2>1, FS_AddElement
  <2> QED BY Zenon, <1>3, <2>2 DEF Count
<1>4. CASE x # r
  <2>1. T = S
    BY <1>1, <1>4
  <2>2. Count(q, r) \in Nat /\ Count(Append(q, x), r) = Count(q, r)
    BY Zenon, <1>2, <2>1 DEF Count
  <2> QED BY <1>4, <2>2
<1> QED BY <1>3, <1>4

LEMMA CountTail ==
  ASSUME NEW q \in Seq(Runs), q # <<>>, NEW r \in Runs
  PROVE  Count(q, r) = Count(Tail(q), r) + (IF q[1] = r THEN 1 ELSE 0)
<1> DEFINE S == {i \in DOMAIN q : q[i] = r}
           T == {i \in DOMAIN Tail(q) : Tail(q)[i] = r}
           f == [i \in T |-> i + 1]
<1>1. /\ Len(q) \in Nat \ {0} /\ DOMAIN q = 1..Len(q)
      /\ DOMAIN Tail(q) = 1..Len(q) - 1
      /\ \A i \in 1..Len(q) - 1 : Tail(q)[i] = q[i + 1]
      /\ Tail(q) \in Seq(Runs)
  OBVIOUS
<1>2. IsFiniteSet(S) /\ Cardinality(S) \in Nat /\ IsFiniteSet(T) /\ Cardinality(T) \in Nat
  BY Zenon, <1>1, CountNat DEF Count
<1>3. T \subseteq Nat /\ \A i \in T : i + 1 \in S \ {1}
  BY <1>1
<1>4. \A j \in S \ {1} : j - 1 \in T /\ j = (j - 1) + 1
  BY <1>1
<1>5. f \in Bijection(T, S \ {1})
  <2>1. f \in [T -> S \ {1}]
    BY <1>3
  <2>2. \A i, j \in T : f[i] = f[j] => i = j
    BY <1>3
  <2>3. \A j \in S \ {1} : \E i \in T : f[i] = j
    BY Zenon, <1>4
  <2> QED BY <2>1, <2>2, <2>3 DEF Bijection, Injection, Surjection, IsInjective
<1>6. Cardinality(T) = Cardinality(S \ {1})
  BY ZenonT(40), <1>2, <1>5, FS_Bijection DEF ExistsBijection
<1>7. Cardinality(S \ {1}) = IF 1 \in S THEN Cardinality(S) - 1 ELSE Cardinality(S)
  BY Zenon, <1>2, FS_RemoveElement
<1>8. 1 \in S <=> q[1] = r
  BY <1>1
<1>9. Count(q, r) = Cardinality(S) /\ Count(Tail(q), r) = Cardinality(T)
  BY DEF Count
<1> HIDE DEF S, T
<1> QED BY <1>2, <1>6, <1>7, <1>8, <1>9

LEMMA CountFront ==
  ASSUME NEW q \in Seq(Runs), NEW x \in Runs, NEW r \in Runs
  PROVE  Count(<<x>> \o q, r) = Count(q, r) + (IF x = r THEN 1 ELSE 0)
<1> DEFINE p == <<x>> \o q
<1>1. p \in Seq(Runs) /\ p # <<>> /\ p[1] = x /\ Len(p) = Len(q) + 1
  OBVIOUS
<1>2. Tail(p) = q
  OBVIOUS
<1> HIDE DEF p
<1>3. Count(p, r) = Count(Tail(p), r) + (IF p[1] = r THEN 1 ELSE 0)
  BY <1>1, CountTail
<1> QED BY Zenon, <1>1, <1>2, <1>3 DEF p

\* Turning a queue keeps its items.
LEMMA CountTurned ==
  ASSUME queues \in [Levels -> Seq(Runs)], NEW l \in Levels, queues[l] # <<>>, NEW r \in Runs
  PROVE  Count(Turned(l), r) = Count(queues[l], r)
<1> DEFINE q == queues[l]
<1>1. q \in Seq(Runs) /\ q # <<>> /\ q[1] \in Runs /\ Tail(q) \in Seq(Runs)
  OBVIOUS
<1> HIDE DEF q
<1>2. Count(q, r) = Count(Tail(q), r) + (IF q[1] = r THEN 1 ELSE 0)
  BY <1>1, CountTail
<1>3. Count(Append(Tail(q), q[1]), r) = Count(Tail(q), r) + (IF q[1] = r THEN 1 ELSE 0)
  BY Zenon, <1>1, CountAppend
<1>4. Turned(l) = q \/ Turned(l) = Append(Tail(q), q[1])
  BY DEF Turned, q
<1> QED BY Zenon, <1>2, <1>3, <1>4 DEF q

-----------------------------------------------------------------------------
(* The scheduler holds a queued run exactly once *)

InQueues(r) == Count(queues[1], r) + Count(queues[2], r) + Count(queues[3], r)
InHand(r) == IF sched.pc = "have" /\ sched.item = r THEN 1 ELSE 0

LEMMA HeldParts ==
  ASSUME TypeOK, NEW r \in Runs
  PROVE  /\ InQueues(r) \in Nat /\ Count(sched.retry, r) \in Nat /\ InHand(r) \in 0..1
         /\ Held(r) = InQueues(r) + Count(sched.retry, r) + InHand(r)
<1>1. queues[1] \in Seq(Runs) /\ queues[2] \in Seq(Runs) /\ queues[3] \in Seq(Runs)
  BY DEF TypeOK, Levels
<1>2. sched.retry \in Seq(Runs)
  BY SchedFields DEF TypeOK
<1>3. /\ Count(queues[1], r) \in Nat /\ Count(queues[2], r) \in Nat
      /\ Count(queues[3], r) \in Nat /\ Count(sched.retry, r) \in Nat
  BY Zenon, <1>1, <1>2, CountNat
<1> QED BY <1>3 DEF Held, InQueues, InHand

\* One queue changes.
LEMMA QueueChange ==
  ASSUME TypeOK, NEW l \in Levels, NEW q \in Seq(Runs), NEW r \in Runs,
         queues' = [queues EXCEPT ![l] = q]
  PROVE  InQueues(r)' = InQueues(r) - Count(queues[l], r) + Count(q, r)
<1>1. queues \in [Levels -> Seq(Runs)]
  BY DEF TypeOK
<1>2. queues[1] \in Seq(Runs) /\ queues[2] \in Seq(Runs) /\ queues[3] \in Seq(Runs)
  BY <1>1 DEF Levels
<1>3. /\ Count(queues[1], r) \in Nat /\ Count(queues[2], r) \in Nat
      /\ Count(queues[3], r) \in Nat /\ Count(q, r) \in Nat
  BY Zenon, <1>2, CountNat
<1>4. l = 1 \/ l = 2 \/ l = 3
  BY DEF Levels
<1>5. CASE l = 1
  <2>1. queues'[1] = q /\ queues'[2] = queues[2] /\ queues'[3] = queues[3]
    BY <1>1, <1>5 DEF Levels
  <2> QED BY <1>3, <1>5, <2>1 DEF InQueues
<1>6. CASE l = 2
  <2>1. queues'[2] = q /\ queues'[1] = queues[1] /\ queues'[3] = queues[3]
    BY <1>1, <1>6 DEF Levels
  <2> QED BY <1>3, <1>6, <2>1 DEF InQueues
<1>7. CASE l = 3
  <2>1. queues'[3] = q /\ queues'[2] = queues[2] /\ queues'[1] = queues[1]
    BY <1>1, <1>7 DEF Levels
  <2> QED BY <1>3, <1>7, <2>1 DEF InQueues
<1> QED BY <1>4, <1>5, <1>6, <1>7

\* A step that leaves the scheduler alone, and neither queues nor unqueues a run.
LEMMA QueuedFrame ==
  ASSUME QueuedOnce, UNCHANGED <<queues, sched>>,
         \A r \in Runs : at'[r] = "queued" <=> at[r] = "queued"
  PROVE  QueuedOnce'
BY DEF QueuedOnce, Held

\* Steps of the runners, the requests and mark_completed.
LEMMA QueuedUnit ==
  ASSUME TypeOK, TypeOK', QueuedOnce, NEW u \in Units,
         \/ u \in Runs /\ (Start(u) \/ StartUncounted(u) \/ Event(u) \/ Runner(u))
         \/ Completion(u)
         \/ u \in Requests /\ (Admit(u) \/ Pipeline(u))
  PROVE  QueuedOnce'
<1>1. CASE EnqueueResume(u) /\ u \in Runs
  <2> DEFINE l == PriorityOf[u]
  <2>1. l \in Levels /\ queues[l] \in Seq(Runs)
    BY Zenon, <1>1, Constants DEF TypeOK
  <2>2. Append(queues[l], u) \in Seq(Runs)
    BY SMTT(40), <1>1, <2>1
  <2>3. queues' = [queues EXCEPT ![l] = Append(queues[l], u)] /\ sched' = sched
    BY Zenon, <1>1 DEF EnqueueResume, Enqueued
  <2>4. at[u] = "waking" /\ at' = [at EXCEPT ![u] = "queued"] /\ at \in [Units -> Pcs]
    BY <1>1 DEF EnqueueResume, At, Goto, TypeOK
  <2> SUFFICES ASSUME NEW r \in Runs
               PROVE  Held(r)' = IF at'[r] = "queued" THEN 1 ELSE 0
    BY DEF QueuedOnce
  <2>5. InQueues(r)' = InQueues(r) - Count(queues[l], r) + Count(Append(queues[l], u), r)
    BY Zenon, <2>1, <2>2, <2>3, QueueChange
  <2>6. Count(Append(queues[l], u), r) = Count(queues[l], r) + (IF u = r THEN 1 ELSE 0)
    BY <1>1, <2>1, CountAppend
  <2>7. Count(queues[l], r) \in Nat
    BY Zenon, <2>1, CountNat
  <2>8. InQueues(r)' = InQueues(r) + (IF u = r THEN 1 ELSE 0)
    BY SMTT(40), <2>5, <2>6, <2>7, HeldParts
  <2>9. Held(r)' = Held(r) + (IF u = r THEN 1 ELSE 0)
    <3>1. Held(r)' = InQueues(r)' + Count(sched.retry, r) + InHand(r)
      BY <2>3 DEF Held, InQueues, InHand
    <3> QED BY <2>8, <3>1, HeldParts
  <2>10. Held(r) = IF at[r] = "queued" THEN 1 ELSE 0
    BY DEF QueuedOnce
  <2>11. r \in Units
    BY Constants
  <2>12. CASE u = r
    BY SMTT(40), <2>4, <2>9, <2>10, <2>11, <2>12
  <2>13. CASE u # r
    <3>1. at'[r] = at[r]
      BY <2>4, <2>11, <2>13
    <3> QED BY <2>9, <2>10, <2>13, <3>1
  <2> QED BY Zenon, <2>12, <2>13
<1>2. CASE ~(EnqueueResume(u) /\ u \in Runs)
  <2>1. UNCHANGED <<queues, sched>>
    BY Zenon, <1>2 DEF Start, StartUncounted, Event, Runner, Completion, Admit, Pipeline, CheckPass,
       CheckRefused, Park, QuotaPass, QuotaFails, NextNode, Wait, Fail, Succeed, Handoff,
       Close, FinalizeFails, RunnerRaises, ReadCount, Decr, Floor, Tell, Begin, Serve, items
  <2>2. CASE Tell(u)
    <3>1. \A r \in Runs : at'[r] = "queued" <=> at[r] = "queued"
      BY <2>2, Constants DEF Tell, At, After
    <3> QED BY <2>1, <3>1, QueuedFrame
  <2>3. CASE ~Tell(u)
    <3>1. at[u] # "queued"
      BY Zenon, <1>2, <2>3 DEF Start, StartUncounted, Event, Runner, Completion, Admit, Pipeline,
         CheckPass, CheckRefused, Park, QuotaPass, QuotaFails, NextNode, Wait, Fail, Succeed,
         Handoff, Close, FinalizeFails, RunnerRaises, MayRaise, ReadCount, Decr, Floor, Begin,
         Serve, At
    <3>2. \E pc \in Pcs \ {"queued"} : Goto(u, pc)
      BY SMTT(40), <1>2, <2>3 DEF Start, StartUncounted, Event, Runner, Completion, Admit, Pipeline,
         CheckPass, CheckRefused, Park, QuotaPass, QuotaFails, NextNode, Wait, Fail, Succeed,
         Handoff, Close, FinalizeFails, RunnerRaises, ReadCount, Decr, Floor, Begin, Serve,
         After, Pcs, HoldingPcs, RunnerPcs
    <3>3. \A r \in Runs : at'[r] = "queued" <=> at[r] = "queued"
      BY Zenon, <3>1, <3>2, Constants DEF Goto, TypeOK
    <3> QED BY <2>1, <3>3, QueuedFrame
  <2> QED BY Zenon, <2>2, <2>3
<1> QED BY <1>1, <1>2

\* Steps that move an item between the queues, the tick's hands and the retries.
LEMMA QueuedMove ==
  ASSUME TypeOK, TypeOK', HasItem, QueuedOnce, Dequeue \/ Skip \/ Defer \/ Flush
  PROVE  QueuedOnce'
<1>0. /\ queues \in [Levels -> Seq(Runs)] /\ level \in [Runs -> Levels] /\ sched \in Scheds
      /\ sched.retry \in Seq(Runs)
  BY Zenon, SchedFields DEF TypeOK
<1> SUFFICES ASSUME NEW r \in Runs
             PROVE  Held(r)' = Held(r)
  <2>1. at' = at
    BY DEF Dequeue, Skip, Defer, Flush
  <2> QED BY <2>1 DEF QueuedOnce
<1>a. /\ InQueues(r) \in Nat /\ Count(sched.retry, r) \in Nat /\ InHand(r) \in 0..1
      /\ Held(r) = InQueues(r) + Count(sched.retry, r) + InHand(r)
  BY HeldParts
<1>b. Held(r)' = InQueues(r)' + Count(sched'.retry, r) + InHand(r)'
  BY DEF Held, InQueues, InHand
<1>1. CASE Dequeue
  <2> DEFINE l == TopLevel
             q == Turned(l)
             n == IF q[1] = r THEN 1 ELSE 0
  <2>1. l \in Levels /\ queues[l] # <<>>
    BY <1>0, <1>1, TopLevelOK DEF Dequeue
  <2>2. q \in Seq(Runs) /\ q # <<>> /\ q[1] \in Runs /\ Tail(q) \in Seq(Runs)
    BY <1>0, <2>1, TurnedOK
  <2>3. Count(q, r) = Count(queues[l], r)
    BY <1>0, <2>1, CountTurned
  <2>4. queues' = [queues EXCEPT ![l] = Tail(q)]
    BY <1>1 DEF Dequeue
  <2>5. sched.pc = "loop" /\ sched' = [sched EXCEPT !.pc = "have", !.item = q[1]]
    BY <1>1 DEF Dequeue
  <2> HIDE DEF l, q
  <2>6. InQueues(r)' = InQueues(r) - Count(queues[l], r) + Count(Tail(q), r)
    BY Zenon, <2>1, <2>2, <2>4, QueueChange
  <2>7. Count(q, r) = Count(Tail(q), r) + n
    BY <2>2, CountTail
  <2>8. Count(Tail(q), r) \in Nat
    BY Zenon, <2>2, CountNat
  <2>9. sched'.retry = sched.retry /\ sched'.pc = "have" /\ sched'.item = q[1]
    BY <1>0, <2>5 DEF Scheds
  <2>10. InHand(r) = 0 /\ InHand(r)' = n /\ n \in 0..1
    BY <2>5, <2>9 DEF InHand
  <2> HIDE DEF n
  <2> QED BY <1>a, <1>b, <2>3, <2>6, <2>7, <2>8, <2>9, <2>10
<1>2. CASE Skip \/ Defer
  <2> DEFINE x == sched.item
             l == level[x]
             n == IF x = r THEN 1 ELSE 0
  <2>1. x \in Runs /\ sched.pc = "have"
    BY <1>2 DEF Skip, Defer, HasItem
  <2>2. l \in Levels /\ queues[l] \in Seq(Runs) /\ <<x>> \o queues[l] \in Seq(Runs)
    BY SMTT(40), <1>0, <2>1
  <2>3. queues' = [queues EXCEPT ![l] = <<x>> \o queues[l]]
    BY Zenon, <1>2 DEF Skip, Defer, PutBack
  <2>4. sched'.retry = sched.retry /\ sched'.pc # "have"
    BY Zenon, <1>0, <1>2 DEF Skip, Defer, Scheds
  <2>5. InHand(r) = n /\ InHand(r)' = 0 /\ n \in 0..1
    BY <2>1, <2>4 DEF InHand
  <2> HIDE DEF x, l
  <2>6. InQueues(r)' = InQueues(r) - Count(queues[l], r) + Count(<<x>> \o queues[l], r)
    BY Zenon, <2>2, <2>3, QueueChange
  <2>7. Count(<<x>> \o queues[l], r) = Count(queues[l], r) + n
    BY <2>1, <2>2, CountFront
  <2>8. Count(queues[l], r) \in Nat
    BY Zenon, <2>2, CountNat
  <2> HIDE DEF n
  <2> QED BY <1>a, <1>b, <2>4, <2>5, <2>6, <2>7, <2>8
<1>3. CASE Flush
  <2> DEFINE s == sched.retry
             x == Head(s)
             l == level[x]
             n == IF x = r THEN 1 ELSE 0
  <2>1. s \in Seq(Runs) /\ s # <<>> /\ x \in Runs /\ x = s[1] /\ Tail(s) \in Seq(Runs)
    BY <1>0, <1>3 DEF Flush
  <2>2. l \in Levels /\ queues[l] \in Seq(Runs) /\ Append(queues[l], x) \in Seq(Runs)
    BY <1>0, <2>1
  <2>3. queues' = [queues EXCEPT ![l] = Append(queues[l], x)]
    BY <1>3 DEF Flush, Enqueued
  <2>4. sched'.retry = Tail(s) /\ sched'.pc = "flush" /\ sched.pc = "flush"
    BY Zenon, <1>0, <1>3 DEF Flush, Scheds
  <2>5. InHand(r) = 0 /\ InHand(r)' = 0
    BY <2>4 DEF InHand
  <2>6. Count(sched.retry, r) = Count(s, r)
    OBVIOUS
  <2> HIDE DEF s, x, l
  <2>7. InQueues(r)' = InQueues(r) - Count(queues[l], r) + Count(Append(queues[l], x), r)
    BY Zenon, <2>2, <2>3, QueueChange
  <2>8. Count(Append(queues[l], x), r) = Count(queues[l], r) + n
    BY <2>1, <2>2, CountAppend
  <2>9. Count(s, r) = Count(Tail(s), r) + n
    BY <2>1, CountTail
  <2>10. Count(queues[l], r) \in Nat /\ Count(Tail(s), r) \in Nat
    BY Zenon, <2>1, <2>2, CountNat
  <2>11. n \in 0..1
    OBVIOUS
  <2> HIDE DEF n
  <2> QED BY <1>a, <1>b, <2>4, <2>5, <2>6, <2>7, <2>8, <2>9, <2>10, <2>11
<1> QED BY Zenon, <1>1, <1>2, <1>3

\* Dispatching, and what follows when it raises.
LEMMA QueuedDispatch ==
  ASSUME TypeOK, TypeOK', HasItem, QueuedOnce,
         Dispatch \/ DispatchRetried \/ DispatchDropped
  PROVE  QueuedOnce'
<1> DEFINE x == sched.item
<1>0. /\ sched \in Scheds /\ sched.retry \in Seq(Runs) /\ queues' = queues
      /\ at \in [Units -> Pcs]
  BY SchedFields DEF TypeOK, Dispatch, DispatchRetried, DispatchDropped, items
<1>1. x \in Runs /\ x \in Units
  BY <1>0, SchedFields, Constants DEF Dispatch, DispatchRetried, DispatchDropped, HasItem
<1>2. \A r \in Runs : InQueues(r)' = InQueues(r)
  BY <1>0 DEF InQueues
<1>3. sched'.pc # "have"
  BY Zenon, <1>0 DEF Dispatch, DispatchRetried, DispatchDropped, Caught, Scheds
<1>4. sched'.retry = IF DispatchRetried THEN Append(sched.retry, x) ELSE sched.retry
  <2>1. CASE DispatchRetried
    BY <1>0, <2>1 DEF DispatchRetried, Caught, Scheds
  <2>2. CASE ~DispatchRetried
    BY Zenon, <1>0, <2>2 DEF Dispatch, DispatchDropped, Caught, Scheds
  <2> QED BY <2>1, <2>2
<1>5. \E pc \in Pcs : Goto(x, pc) /\ (pc = "queued" <=> DispatchRetried)
  <2>1. CASE DispatchRetried
    BY <2>1 DEF DispatchRetried, Pcs, HoldingPcs
  <2>2. CASE ~DispatchRetried
    BY <2>2 DEF Dispatch, DispatchDropped, Pcs, HoldingPcs
  <2> QED BY <2>1, <2>2
<1>6. /\ at'[x] = "queued" <=> DispatchRetried
      /\ \A r \in Runs \ {x} : at'[r] = at[r]
  BY <1>0, <1>1, <1>5, Constants DEF Goto
<1>7. sched.pc # "have" => at[x] # "queued"
  BY DEF Dispatch, DispatchRetried, DispatchDropped, Raised, MayRaise
<1> SUFFICES ASSUME NEW r \in Runs
             PROVE  Held(r)' = IF at'[r] = "queued" THEN 1 ELSE 0
  BY DEF QueuedOnce
<1>8. /\ InQueues(r) \in Nat /\ Count(sched.retry, r) \in Nat /\ InHand(r) \in 0..1
      /\ Held(r) = InQueues(r) + Count(sched.retry, r) + InHand(r)
  BY HeldParts
<1>9. Held(r)' = InQueues(r) + Count(sched'.retry, r)
  <2>1. Held(r)' = InQueues(r)' + Count(sched'.retry, r) + InHand(r)'
    BY DEF Held, InQueues, InHand
  <2>2. InHand(r)' = 0
    BY <1>3 DEF InHand
  <2>3. InQueues(r)' \in Nat /\ Count(sched.retry, r)' \in Nat
    <3>1. TypeOK' /\ (TypeOK => InQueues(r) \in Nat /\ Count(sched.retry, r) \in Nat)'
      BY HeldParts, PTL
    <3> QED BY <3>1
  <2> QED BY <1>2, <2>1, <2>2, <2>3
<1>10. Held(r) = IF at[r] = "queued" THEN 1 ELSE 0
  BY DEF QueuedOnce
<1>11. Count(Append(sched.retry, x), r) = Count(sched.retry, r) + (IF x = r THEN 1 ELSE 0)
  BY Zenon, <1>0, <1>1, CountAppend
<1>12. CASE r = x
  <2>1. InQueues(r) + Count(sched.retry, r) = 0
    <3>1. InHand(r) = IF sched.pc = "have" THEN 1 ELSE 0
      BY Zenon, <1>12 DEF InHand
    <3> QED BY <1>7, <1>8, <1>10, <1>12, <3>1
  <2> QED BY <1>4, <1>6, <1>8, <1>9, <1>11, <1>12, <2>1
<1>13. CASE r # x
  <2>1. InHand(r) = 0
    BY Zenon, <1>13 DEF InHand
  <2>2. Count(sched'.retry, r) = Count(sched.retry, r)
    BY <1>4, <1>8, <1>11, <1>13
  <2>3. at'[r] = at[r]
    BY <1>6, <1>13
  <2> QED BY <1>8, <1>9, <1>10, <2>1, <2>2, <2>3
<1> QED BY <1>12, <1>13

\* A tick that looks at an item has one.
LEMMA HasItemStep == TypeOK /\ HasItem /\ [Next]_vars => HasItem'
<1> SUFFICES ASSUME TypeOK, HasItem, [Next]_vars PROVE HasItem'
  OBVIOUS
<1>0. sched \in Scheds
  BY DEF TypeOK
<1>1. CASE sched' = sched
  BY <1>1 DEF HasItem
<1>2. CASE Cycle \/ Return \/ LoopEnd \/ Flush \/ CycleEnd \/ Skip \/ Defer
  <2>1. sched'.pc \notin {"have", "inline"}
    <3>1. CASE Cycle
      BY <1>0, <3>1 DEF Cycle, Scheds
    <3>2. CASE Return
      BY <1>0, <3>2 DEF Return, Scheds
    <3>3. CASE LoopEnd
      BY <1>0, <3>3 DEF LoopEnd, Scheds
    <3>4. CASE Flush
      BY Zenon, <1>0, <3>4 DEF Flush, Scheds
    <3>5. CASE CycleEnd
      BY <3>5 DEF CycleEnd, Idle
    <3>6. CASE Skip \/ Defer
      BY Zenon, <1>0, <3>6 DEF Skip, Defer, Scheds
    <3> QED BY <1>2, <3>1, <3>2, <3>3, <3>4, <3>5, <3>6
  <2> QED BY <2>1 DEF HasItem
<1>3. CASE Dequeue
  <2>1. Turned(TopLevel)[1] \in Runs
    BY <1>3, TopLevelOK, TurnedOK DEF TypeOK, Dequeue
  <2>2. sched'.item = Turned(TopLevel)[1]
    BY <1>0, <1>3 DEF Dequeue, Scheds
  <2> QED BY <2>1, <2>2 DEF HasItem
<1>4. CASE Dispatch
  <2>1. sched.item \in Runs
    BY <1>4 DEF Dispatch, HasItem
  <2>2. sched'.pc \in {"have", "inline"} => sched'.item = sched.item
    BY <1>0, <1>4 DEF Dispatch, Scheds
  <2> QED BY <2>1, <2>2 DEF HasItem
<1>5. CASE DispatchRetried \/ DispatchDropped
  <2>1. sched'.pc = "loop"
    BY Zenon, <1>0, <1>5 DEF DispatchRetried, DispatchDropped, Caught, Scheds
  <2> QED BY <2>1 DEF HasItem
<1>6. CASE ~Scheduler
  <2>1. CASE UNCHANGED vars
    BY <1>1, <2>1 DEF vars
  <2>2. CASE \E r \in Runs : Start(r) \/ StartUncounted(r) \/ Event(r) \/ Runner(r)
    BY Zenon, <1>1, <2>2 DEF Start, StartUncounted, Event, Runner, CheckPass,
       CheckRefused, Park, QuotaPass, QuotaFails, NextNode, Wait, Fail, Succeed, Handoff,
       Close, FinalizeFails, RunnerRaises, EnqueueResume
  <2>3. CASE \/ \E u \in Units : Completion(u)
             \/ \E q \in Requests : Admit(q) \/ Pipeline(q)
    BY Zenon, <1>1, <2>3 DEF Completion, ReadCount, Decr, Floor, Tell, Admit, Pipeline, Begin, Serve
  <2> QED BY <1>6, <2>1, <2>2, <2>3 DEF Next
<1> QED BY <1>2, <1>3, <1>4, <1>5, <1>6 DEF Scheduler

LEMMA QueuedStep ==
  TypeOK /\ TypeOK' /\ HasItem /\ QueuedOnce /\ [Next]_vars => QueuedOnce'
<1> SUFFICES ASSUME TypeOK, TypeOK', HasItem, QueuedOnce, [Next]_vars PROVE QueuedOnce'
  OBVIOUS
<1>0. sched \in Scheds
  BY DEF TypeOK
<1>1. CASE UNCHANGED vars
  BY Zenon, <1>1, QueuedFrame DEF vars, items
<1>2. CASE Cycle \/ Return \/ LoopEnd \/ CycleEnd
  <2>1. queues' = queues /\ at' = at
    BY <1>2 DEF Cycle, Return, LoopEnd, CycleEnd, items
  <2>2. sched'.retry = sched.retry /\ sched.pc # "have" /\ sched'.pc # "have"
    <3>1. CASE Cycle
      BY <1>0, <3>1 DEF Cycle, Scheds
    <3>2. CASE Return
      BY <1>0, <3>2 DEF Return, Scheds
    <3>3. CASE LoopEnd
      BY Zenon, <1>0, <3>3 DEF LoopEnd, Scheds
    <3>4. CASE CycleEnd
      BY <3>4 DEF CycleEnd, Idle
    <3> QED BY <1>2, <3>1, <3>2, <3>3, <3>4
  <2> QED BY <2>1, <2>2 DEF QueuedOnce, Held
<1>3. CASE Dequeue \/ Skip \/ Defer \/ Flush
  BY <1>3, QueuedMove
<1>4. CASE Dispatch \/ DispatchRetried \/ DispatchDropped
  BY <1>4, QueuedDispatch
<1>5. ASSUME NEW u \in Units,
             \/ u \in Runs /\ (Start(u) \/ StartUncounted(u) \/ Event(u) \/ Runner(u))
             \/ Completion(u)
             \/ u \in Requests /\ (Admit(u) \/ Pipeline(u))
      PROVE  QueuedOnce'
  BY <1>5, QueuedUnit
<1> QED BY Zenon, <1>1, <1>2, <1>3, <1>4, <1>5, Constants DEF Next, Scheduler

-----------------------------------------------------------------------------
(* The theorem *)

\* The inductive invariant: QueuedOnce needs HasItem, for what the tick has in its
\* hands must be a run.
QueuesInv == TypeOK /\ HasItem /\ QueuedOnce

LEMMA QueuesInit == Init => QueuesInv
<1> SUFFICES ASSUME Init PROVE QueuesInv
  OBVIOUS
<1>1. TypeOK
  <2>1. Idle \in Scheds
    BY DEF Idle, Scheds
  <2>2. /\ at \in [Units -> Pcs] /\ active \in [Tenants -> Int] /\ seen \in [Units -> Int]
        /\ lost \in [Tenants -> Nat] /\ failing \subseteq Runs /\ untracked \subseteq Runs
        /\ queues \in [Levels -> Seq(Runs)] /\ cursor \in [Levels -> Tenants \union {None}]
        /\ inline \in BOOLEAN
    BY DEF Init, Pcs
  <2>3. nodes \in [Runs -> 0..MaxNodes] /\ retries \in [Runs -> 0..MaxRetries]
        /\ faults \in 0..MaxFaults
    BY LimitsAssumption DEF Init
  <2>4. level \in [Runs -> Levels]
    BY Zenon, UnitsAssumption DEF Init
  <2> QED BY Zenon, <2>1, <2>2, <2>3, <2>4 DEF Init, TypeOK
<1>2. HasItem
  BY Zenon DEF Init, Idle, HasItem
<1>3. QueuedOnce
  <2> SUFFICES ASSUME NEW r \in Runs PROVE Held(r) = IF at[r] = "queued" THEN 1 ELSE 0
    BY DEF QueuedOnce
  <2>1. Count(<<>>, r) = 0
    <3>1. {i \in DOMAIN <<>> : <<>>[i] = r} = {}
      OBVIOUS
    <3> QED BY <3>1, FS_EmptySet DEF Count
  <2>2. /\ queues[1] = <<>> /\ queues[2] = <<>> /\ queues[3] = <<>>
        /\ sched.retry = <<>> /\ sched.pc = "idle" /\ at[r] = "new"
    BY SMTT(40), Constants DEF Init, Idle, Levels
  <2> QED BY <2>1, <2>2 DEF Held
<1> QED BY Zenon, <1>1, <1>2, <1>3 DEF QueuesInv

LEMMA QueuesStep == QueuesInv /\ [Next]_vars => QueuesInv'
<1> SUFFICES ASSUME QueuesInv, [Next]_vars PROVE QueuesInv'
  OBVIOUS
<1>0. TypeOK /\ HasItem /\ QueuedOnce
  BY Zenon DEF QueuesInv
<1>1. TypeOK' /\ HasItem'
  BY Zenon, <1>0, TypeStep, HasItemStep
<1>2. QueuedOnce'
  BY Zenon, <1>0, <1>1, QueuedStep
<1> QED BY Zenon, <1>1, <1>2 DEF QueuesInv

\* The scheduler's queues, the tick's hands and the retries hold a run exactly
\* once from _enqueue_resume to its dispatch, and not at all otherwise.
THEOREM SchedulerKeepsItems == Spec => [](TypeOK /\ QueuedOnce)
<1>1. QueuesInv => TypeOK /\ QueuedOnce
  BY Zenon DEF QueuesInv
<1> QED BY <1>1, QueuesInit, QueuesStep, PTL DEF Spec

\* The units, queues, retries and the tick of the scheduler keep their types.
THEOREM SchedulerTypes == Spec => []TypeOK
BY SchedulerKeepsItems, PTL

=============================================================================
