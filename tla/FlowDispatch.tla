---------------------------- MODULE FlowDispatch ----------------------------
(***************************************************************************)
(* The concurrency limit of the tenants and the priority queues, on one    *)
(* instance: flow runners and HTTP requests take and give back the slots   *)
(* of ResourceManager, runs that find no slot are parked, and woken runs   *)
(* are queued, deferred, dispatched and retried by SchedulerEngine.        *)
(*                                                                         *)
(* The counters are the ones in Redis, read and decremented in two calls;  *)
(* the steps of the in-memory counters are these without interleaving.     *)
(***************************************************************************)
EXTENDS Integers, Sequences, FiniteSets

CONSTANTS
  Runs, Requests, Tenants,
  TenantOf,     \* of each run and request
  PriorityOf,   \* of each run: 1 high, 2 normal, 3 low
  None,
  Max,          \* MAX_CONCURRENT_PER_TENANT
  MaxPerCycle,  \* MAX_PER_SCHEDULE_CYCLE
  MaxRetries,   \* ScheduledItem.max_retries
  MaxNodes,     \* bound: nodes a run executes before its last
  MaxFaults     \* bound: database or pool operations that raise

Units == Runs \union Requests
Levels == 1..3
LOW == 3

ASSUME UnitsAssumption ==
  /\ IsFiniteSet(Runs) /\ IsFiniteSet(Requests) /\ Runs \intersect Requests = {}
  /\ TenantOf \in [Units -> Tenants] /\ PriorityOf \in [Runs -> Levels]
  /\ None \notin Tenants \union Units
ASSUME LimitsAssumption ==
  /\ Max \in Nat \ {0} /\ MaxPerCycle \in Nat \ {0} /\ MaxRetries \in Nat
  /\ MaxNodes \in Nat /\ MaxFaults \in Nat

VARIABLES
  at,        \* where the runner of a run, or the pipeline of a request, is
  active,    \* the tenant's counter
  seen,      \* the counter as mark_completed read it
  lost,      \* history: slots of the tenant that the counter no longer shows
  nodes,     \* nodes executed so far
  failing,   \* runs that _fail_execution is ending
  untracked, \* runs without a UsageSnapshot
  queues,    \* SchedulerEngine._queues
  cursor,    \* SchedulerEngine._rr_cursor
  level,     \* ScheduledItem.priority of the run's item
  retries,   \* ScheduledItem.retry_count
  sched,     \* the heartbeat tick inside schedule()
  inline,    \* async_heavy_execution_enabled() is false
  faults

counters == <<active, seen, lost>>
rows == <<nodes, failing, untracked>>
items == <<queues, cursor, level, retries>>
vars == <<at, counters, rows, items, sched, inline, faults>>

\* Where a unit holds a slot; a waiting run keeps the one it started with.
HoldingPcs == {"check", "quota", "exec", "park", "parked", "paused", "waking",
               "queued", "serve", "release", "decr", "leaked"}
\* Where the runner's thread is inside start() or resume().
RunnerPcs == {"check", "quota", "exec", "park", "release", "decr", "floor", "tell", "close"}
Pcs == HoldingPcs \union RunnerPcs \union {"new", "admitted", "done"}

Tenant(u) == TenantOf[u]
Holders(t) == {u \in Units : TenantOf[u] = t /\ at[u] \in HoldingPcs}
CanExecute(t) == active[t] < Max

Idle == [pc |-> "idle", item |-> None, saturated |-> {}, skips |-> 0, processed |-> 0,
         retry |-> <<>>]

Init ==
  /\ at = [u \in Units |-> "new"]
  /\ active = [t \in Tenants |-> 0]
  /\ seen = [u \in Units |-> 0]
  /\ lost = [t \in Tenants |-> 0]
  /\ nodes = [r \in Runs |-> 0]
  /\ failing = {} /\ untracked = {}
  /\ queues = [l \in Levels |-> <<>>]
  /\ cursor = [l \in Levels |-> None]
  /\ level = PriorityOf
  /\ retries = [r \in Runs |-> 0]
  /\ sched = Idle
  /\ inline \in BOOLEAN
  /\ faults = 0

At(u, pc) == at[u] = pc
Goto(u, pc) == at' = [at EXCEPT ![u] = pc]
Fault == faults < MaxFaults /\ faults' = faults + 1
Plus(f, t, n) == [f EXCEPT ![t] = @ + n]

-----------------------------------------------------------------------------
(* The flow runner *)

\* start: the row and the ExecutionUnit are created and the slot is taken,
\* before anybody asks whether there is one.
Start(r) ==
  /\ At(r, "new")
  /\ active' = Plus(active, Tenant(r), 1)
  /\ Goto(r, "check")
  /\ UNCHANGED <<seen, lost, rows, items, sched, inline, faults>>

\* The ExecutionUnit hook fails: the run goes on without a slot or a usage
\* snapshot, and gives a slot back in the end all the same.
StartUncounted(r) ==
  /\ At(r, "new") /\ Fault
  /\ lost' = Plus(lost, Tenant(r), 1)
  /\ untracked' = untracked \union {r}
  /\ Goto(r, "check")
  /\ UNCHANGED <<active, seen, nodes, failing, items, sched, inline>>

\* _check_resources, before every node: can_execute, where the run counts itself.
CheckPass(r) ==
  /\ At(r, "check") /\ CanExecute(Tenant(r))
  /\ Goto(r, "quota")
  /\ UNCHANGED <<counters, rows, items, sched, inline, faults>>

\* No slot: the row is committed as waiting for resource_available; the wait is
\* registered later.
CheckRefused(r) ==
  /\ At(r, "check") /\ ~CanExecute(Tenant(r))
  /\ Goto(r, "park")
  /\ UNCHANGED <<counters, rows, items, sched, inline, faults>>

\* register_wait.
Park(r) ==
  /\ At(r, "park")
  /\ Goto(r, "parked")
  /\ UNCHANGED <<counters, rows, items, sched, inline, faults>>

\* Mutant: check_quota does not ask can_execute again.
QuotaPassAs_once(r) ==
  /\ At(r, "quota")
  /\ Goto(r, "exec")
  /\ UNCHANGED <<counters, rows, items, sched, inline, faults>>

\* check_quota asks can_execute again, unless the unit has no usage snapshot.
QuotaPass(r) ==
  /\ At(r, "quota")
  /\ r \in untracked \/ CanExecute(Tenant(r))
  /\ Goto(r, "exec")
  /\ UNCHANGED <<counters, rows, items, sched, inline, faults>>

\* check_quota refuses, for the tenant's limit or the unit's own: the run fails.
QuotaFails(r) ==
  /\ At(r, "quota") /\ r \notin untracked
  /\ failing' = failing \union {r}
  /\ nodes' = [nodes EXCEPT ![r] = 0]
  /\ Goto(r, "release")
  /\ UNCHANGED <<counters, untracked, items, sched, inline, faults>>

\* The node returns SUCCESS or RETRY and the loop goes on.
NextNode(r) ==
  /\ At(r, "exec") /\ nodes[r] < MaxNodes
  /\ nodes' = Plus(nodes, r, 1)
  /\ Goto(r, "check")
  /\ UNCHANGED <<counters, failing, untracked, items, sched, inline, faults>>

\* The node returns WAIT for an event; the slot is kept.
Wait(r) ==
  /\ At(r, "exec") /\ nodes[r] < MaxNodes
  /\ nodes' = Plus(nodes, r, 1)
  /\ Goto(r, "paused")
  /\ UNCHANGED <<counters, failing, untracked, items, sched, inline, faults>>

\* The event a run waits for: notify_event takes it out of _waiting.
Event(r) ==
  /\ At(r, "paused")
  /\ Goto(r, "waking")
  /\ UNCHANGED <<counters, rows, items, sched, inline, faults>>

\* The node fails: _fail_execution commits the status, then gives the slot back.
Fail(r) ==
  /\ At(r, "exec")
  /\ failing' = failing \union {r}
  /\ nodes' = [nodes EXCEPT ![r] = 0]
  /\ Goto(r, "release")
  /\ UNCHANGED <<counters, untracked, items, sched, inline, faults>>

\* The last node succeeds: _capture_flow_completion gives the slot back before
\* the status is committed.
Succeed(r) ==
  /\ At(r, "exec")
  /\ failing' = failing \ {r}
  /\ nodes' = [nodes EXCEPT ![r] = 0]
  /\ Goto(r, "release")
  /\ UNCHANGED <<counters, untracked, items, sched, inline, faults>>

\* The last node hands over to an async job, or the run has no workflow type:
\* the runner returns and the slot is never given back.
Handoff(r) ==
  /\ At(r, "exec")
  /\ nodes' = [nodes EXCEPT ![r] = 0]
  /\ Goto(r, "leaked")
  /\ UNCHANGED <<counters, failing, untracked, items, sched, inline, faults>>

\* The row is committed and the required events are emitted.
Close(r) ==
  /\ At(r, "close")
  /\ failing' = failing \ {r}
  /\ Goto(r, "done")
  /\ UNCHANGED <<counters, nodes, untracked, items, sched, inline, faults>>

\* Finalization raises after the slot went back: _fail_execution gives it back again.
FinalizeFails(r) ==
  /\ At(r, "close") /\ r \notin failing /\ Fault
  /\ failing' = failing \union {r}
  /\ lost' = Plus(lost, Tenant(r), 1)
  /\ Goto(r, "release")
  /\ UNCHANGED <<active, seen, nodes, untracked, items, sched, inline>>

-----------------------------------------------------------------------------
(* mark_completed *)

\* The counter is read with GET.
ReadCount(u) ==
  /\ At(u, "release")
  /\ seen' = [seen EXCEPT ![u] = active[Tenant(u)]]
  /\ Goto(u, "decr")
  /\ UNCHANGED <<active, lost, rows, items, sched, inline, faults>>

\* What comes after mark_completed: a request is over, a run is closed.
After(u) == IF u \in Requests THEN "new" ELSE "close"

\* Whether a counter that was n before and is m now frees capacity.
Freed(n, m) == n >= Max /\ m < Max

\* Mutant: the counter is written back from the value that was read.
DecrAs_stale(u) ==
  /\ At(u, "decr")
  /\ active' = [active EXCEPT ![Tenant(u)] = seen[u] - 1]
  /\ Goto(u, IF Freed(seen[u], seen[u] - 1) THEN "tell" ELSE After(u))
  /\ seen' = [seen EXCEPT ![u] = 0]
  /\ UNCHANGED <<lost, rows, items, sched, inline, faults>>

\* ... and decremented with DECR; a negative count is set to zero afterwards.
Decr(u) ==
  LET n == active[Tenant(u)] - 1 IN
  /\ At(u, "decr")
  /\ active' = [active EXCEPT ![Tenant(u)] = n]
  /\ Goto(u, CASE n < 0 -> "floor"
               [] n >= 0 /\ Freed(seen[u], n) -> "tell"
               [] OTHER -> After(u))
  /\ seen' = [seen EXCEPT ![u] = IF n < 0 THEN @ ELSE 0]
  /\ UNCHANGED <<lost, rows, items, sched, inline, faults>>

\* reset_tenant_quota: slots taken since the underflow are lost.
Floor(u) ==
  LET t == Tenant(u) IN
  /\ At(u, "floor")
  /\ active' = [active EXCEPT ![t] = 0]
  /\ lost' = Plus(lost, t, IF active[t] > 0 THEN active[t] ELSE 0)
  /\ Goto(u, IF Freed(seen[u], 0) THEN "tell" ELSE After(u))
  /\ seen' = [seen EXCEPT ![u] = 0]
  /\ UNCHANGED <<rows, items, sched, inline, faults>>

\* publish_event("resource_available") names no correlation: notify_event takes
\* every parked run of every tenant out of _waiting.
Tell(u) ==
  /\ At(u, "tell")
  /\ at' = [v \in Units |-> CASE v = u -> After(u)
                             [] at[v] = "parked" -> "waking"
                             [] OTHER -> at[v]]
  /\ UNCHANGED <<counters, rows, items, sched, inline, faults>>

-----------------------------------------------------------------------------
(* HTTP requests: ExecutionPipeline.run *)

\* _safe_check_quota admits the request, on a count that may be old when the
\* slot is taken; a refused one ends with 429 and changes nothing.
Admit(q) ==
  /\ At(q, "new") /\ CanExecute(Tenant(q))
  /\ Goto(q, "admitted")
  /\ UNCHANGED <<counters, rows, items, sched, inline, faults>>

Begin(q) ==
  /\ At(q, "admitted")
  /\ active' = Plus(active, Tenant(q), 1)
  /\ Goto(q, "serve")
  /\ UNCHANGED <<seen, lost, rows, items, sched, inline, faults>>

\* The handler returns, waits or raises: the slot goes back in every case.
Serve(q) ==
  /\ At(q, "serve")
  /\ Goto(q, "release")
  /\ UNCHANGED <<counters, rows, items, sched, inline, faults>>

-----------------------------------------------------------------------------
(* SchedulerEngine: enqueue and dequeue_next *)

Enqueued(l, r) == [queues EXCEPT ![l] = Append(@, r)]

\* Mutant: a deferred item is not put back.
PutBackAs_lost(r) == queues

\* appendleft: the item goes back to the head of its level.
PutBack(r) == [queues EXCEPT ![level[r]] = <<r>> \o @]

QueueSize == Len(queues[1]) + Len(queues[2]) + Len(queues[3])

\* _enqueue_resume: a new item, with the priority of the run.
EnqueueResume(r) ==
  /\ At(r, "waking")
  /\ Goto(r, "queued")
  /\ level' = [level EXCEPT ![r] = PriorityOf[r]]
  /\ retries' = [retries EXCEPT ![r] = 0]
  /\ queues' = Enqueued(PriorityOf[r], r)
  /\ UNCHANGED <<counters, rows, cursor, sched, inline, faults>>

\* The level dequeue_next takes from.
TopLevel == CHOOSE l \in Levels : queues[l] # <<>> /\ \A k \in Levels : k < l => queues[k] = <<>>

\* Mutant: the queue is not rotated.
TurnedAs_still(l) == queues[l]

\* The queue of a level, turned by one when its head is of the tenant served last.
Turned(l) ==
  LET q == queues[l] IN
  IF Len(q) > 1 /\ Tenant(q[1]) = cursor[l] THEN Append(Tail(q), q[1]) ELSE q

-----------------------------------------------------------------------------
(* schedule *)

\* The heartbeat tick begins a cycle; waits that are due are FlowResume's matter.
Cycle ==
  /\ sched.pc = "idle" /\ QueueSize > 0
  /\ sched' = [sched EXCEPT !.pc = "loop"]
  /\ UNCHANGED <<at, counters, rows, items, inline, faults>>

\* dequeue_next.
Dequeue ==
  /\ sched.pc = "loop" /\ sched.processed < MaxPerCycle /\ QueueSize > 0
  /\ LET l == TopLevel
         q == Turned(l) IN
     /\ queues' = [queues EXCEPT ![l] = Tail(q)]
     /\ cursor' = [cursor EXCEPT ![l] = Tenant(q[1])]
     /\ sched' = [sched EXCEPT !.pc = "have", !.item = q[1]]
  /\ UNCHANGED <<at, counters, rows, level, retries, inline, faults>>

\* The tenant has been refused in this cycle: the item goes back, and the cycle
\* ends when everything that is queued was skipped in a row.
Skip ==
  LET r == sched.item IN
  /\ sched.pc = "have" /\ Tenant(r) \in sched.saturated
  /\ queues' = PutBack(r)
  /\ sched' = [sched EXCEPT !.item = None, !.skips = @ + 1,
                 !.pc = IF sched.skips + 1 >= QueueSize + 1 THEN "flush" ELSE "loop"]
  /\ UNCHANGED <<at, counters, rows, cursor, level, retries, inline, faults>>

\* can_execute refuses: the item goes back and its tenant is saturated.
Defer ==
  LET r == sched.item IN
  /\ sched.pc = "have" /\ Tenant(r) \notin sched.saturated /\ ~CanExecute(Tenant(r))
  /\ queues' = PutBack(r)
  /\ sched' = [sched EXCEPT !.pc = "loop", !.item = None, !.skips = 0,
                 !.processed = @ + 1, !.saturated = @ \union {Tenant(r)}]
  /\ UNCHANGED <<at, counters, rows, cursor, level, retries, inline, faults>>

\* The callback resumes the run, on a pool thread or inside this tick.
Dispatch ==
  LET r == sched.item IN
  /\ sched.pc = "have" /\ Tenant(r) \notin sched.saturated /\ CanExecute(Tenant(r))
  /\ Goto(r, "check")
  /\ sched' = [sched EXCEPT !.pc = IF inline THEN "inline" ELSE "loop",
                 !.item = IF inline THEN r ELSE None, !.skips = 0, !.processed = @ + 1]
  /\ UNCHANGED <<counters, rows, items, inline, faults>>

\* An inline callback has returned.
Return ==
  /\ sched.pc = "inline" /\ at[sched.item] \notin RunnerPcs
  /\ sched' = [sched EXCEPT !.pc = "loop", !.item = None]
  /\ UNCHANGED <<at, counters, rows, items, inline, faults>>

\* resume() may raise where it uses the database, and after the run has failed.
MayRaise(r) == at[r] \in {"check", "exec"} \/ (at[r] = "close" /\ r \in failing)

\* The exception ends the runner's thread; the slot is not given back.
RunnerRaises(r) ==
  /\ MayRaise(r) /\ sched.item # r /\ Fault
  /\ Goto(r, IF At(r, "close") THEN "done" ELSE "leaked")
  /\ UNCHANGED <<counters, rows, items, sched, inline>>

\* dispatch raises: from the inline callback, or because the pool is shut down.
Raised(r) ==
  \/ sched.pc = "inline" /\ MayRaise(r)
  \/ sched.pc = "have" /\ ~inline /\ Tenant(r) \notin sched.saturated /\ CanExecute(Tenant(r))

\* Mutant: one retry too many.
MayRetryAs_offByOne(r) == retries[r] <= MaxRetries

MayRetry(r) == retries[r] < MaxRetries

\* After the exception: the counters of the cycle.
Caught == [sched EXCEPT !.pc = "loop", !.item = None, !.skips = 0,
             !.processed = IF sched.pc = "have" THEN @ + 1 ELSE @]

\* The item is kept for the end of the cycle, at low priority. A run that had
\* given its slot back will be resumed without one.
DispatchRetried ==
  LET r == sched.item IN
  /\ r # None /\ Raised(r) /\ Fault
  /\ MayRetry(r)
  /\ retries' = Plus(retries, r, 1)
  /\ level' = [level EXCEPT ![r] = LOW]
  /\ sched' = [Caught EXCEPT !.retry = Append(@, r)]
  /\ lost' = IF At(r, "close") THEN Plus(lost, Tenant(r), 1) ELSE lost
  /\ untracked' = IF At(r, "close") THEN untracked \union {r} ELSE untracked
  /\ Goto(r, "queued")
  /\ UNCHANGED <<active, seen, nodes, failing, queues, cursor, inline>>

\* The last attempt: the item is dropped, and the slot with it.
DispatchDropped ==
  LET r == sched.item IN
  /\ r # None /\ Raised(r) /\ Fault
  /\ ~MayRetry(r)
  /\ sched' = Caught
  /\ Goto(r, IF At(r, "close") THEN "done" ELSE "leaked")
  /\ UNCHANGED <<counters, rows, items, inline>>

\* The loop ends: nothing is queued, or the cycle has its share.
LoopEnd ==
  /\ sched.pc = "loop" /\ (sched.processed = MaxPerCycle \/ QueueSize = 0)
  /\ sched' = [sched EXCEPT !.pc = "flush"]
  /\ UNCHANGED <<at, counters, rows, items, inline, faults>>

\* The items to retry are queued again, one by one.
Flush ==
  LET r == Head(sched.retry) IN
  /\ sched.pc = "flush" /\ sched.retry # <<>>
  /\ queues' = Enqueued(level[r], r)
  /\ sched' = [sched EXCEPT !.retry = Tail(@)]
  /\ UNCHANGED <<at, counters, rows, cursor, level, retries, inline, faults>>

\* The tick ends.
CycleEnd ==
  /\ sched.pc = "flush" /\ sched.retry = <<>>
  /\ sched' = Idle
  /\ UNCHANGED <<at, counters, rows, items, inline, faults>>

-----------------------------------------------------------------------------
Scheduler ==
  \/ Cycle \/ Dequeue \/ Skip \/ Defer \/ Dispatch \/ Return
  \/ DispatchRetried \/ DispatchDropped \/ LoopEnd \/ Flush \/ CycleEnd

\* The steps a thread inside a runner, a request or a notification takes by itself.
Runner(r) ==
  \/ CheckPass(r) \/ CheckRefused(r) \/ Park(r) \/ QuotaPass(r) \/ QuotaFails(r)
  \/ NextNode(r) \/ Wait(r) \/ Fail(r) \/ Succeed(r) \/ Handoff(r)
  \/ Close(r) \/ FinalizeFails(r) \/ RunnerRaises(r) \/ EnqueueResume(r)
Completion(u) == ReadCount(u) \/ Decr(u) \/ Floor(u) \/ Tell(u)
Pipeline(q) == Begin(q) \/ Serve(q)

Next ==
  \/ \E r \in Runs : Start(r) \/ StartUncounted(r) \/ Event(r) \/ Runner(r)
  \/ \E u \in Units : Completion(u)
  \/ \E q \in Requests : Admit(q) \/ Pipeline(q)
  \/ Scheduler

Spec == Init /\ [][Next]_vars

\* The thread of the tick, inside an inline callback or not.
Heartbeat ==
  \/ Scheduler
  \/ \E r \in Runs : sched.pc = "inline" /\ sched.item = r /\ (Runner(r) \/ Completion(r))

\* The heartbeat job of APScheduler, which has no second instance, is started every
\* second and goes on, through the callbacks it executes itself. Nothing else is
\* promised: runs need not be started, events need not come, and runs and requests
\* on other threads may stop anywhere.
FairSpec == Spec /\ WF_vars(Heartbeat)

-----------------------------------------------------------------------------
(* Properties *)

Scheds == [pc : {"idle", "loop", "have", "inline", "flush"}, item : Runs \union {None},
           saturated : SUBSET Tenants, skips : Nat, processed : Nat,
           retry : Seq(Runs)]

\* Types; in particular an item is retried at most max_retries times
\* (dispatch.py:61), and only a counter may fall below zero.
TypeOK ==
  /\ at \in [Units -> Pcs]
  /\ active \in [Tenants -> Int] /\ seen \in [Units -> Int] /\ lost \in [Tenants -> Nat]
  /\ nodes \in [Runs -> 0..MaxNodes]
  /\ failing \subseteq Runs /\ untracked \subseteq Runs
  /\ queues \in [Levels -> Seq(Runs)]
  /\ cursor \in [Levels -> Tenants \union {None}]
  /\ level \in [Runs -> Levels] /\ retries \in [Runs -> 0..MaxRetries]
  /\ sched \in Scheds
  /\ inline \in BOOLEAN /\ faults \in 0..MaxFaults

\* The counter never exceeds the slots that are held, and falls short of them only
\* by lost ones.
SlotsCovered ==
  \A t \in Tenants :
    LET held == Cardinality(Holders(t)) IN active[t] <= held /\ held <= active[t] + lost[t]

\* Until a database or pool operation raises, the counter is the number of slots held.
CountsExact == faults = 0 => \A t \in Tenants : active[t] = Cardinality(Holders(t))

\* The counter of ResourceManager never exceeds the slots that are held, and falls
\* short of them only by the slots that were given back twice, or that an underflow
\* reset erased. Neither happens before something raises: the interleaved GET and
\* DECR of mark_completed, requests admitted on an old count and runs that are parked
\* or queued with their slot keep the counter exact.
SlotsMatch == SlotsCovered /\ CountsExact

Starts(r) == at[r] # "exec" /\ at'[r] = "exec"

\* A node is executed only while fewer than MAX_CONCURRENT_PER_TENANT slots of the
\* tenant are held, the run's own among them: the check and its repetition in
\* check_quota leave no gap between the count and the slots, but for lost slots.
NodeNeedsSlot ==
  [][\A r \in Runs \ untracked :
       Starts(r) => Cardinality(Holders(Tenant(r))) < Max + lost[Tenant(r)]]_vars

Count(q, r) == Cardinality({i \in DOMAIN q : q[i] = r})
\* How often the scheduler holds the run: in its queues, in its hands, or kept
\* for a retry.
Held(r) == Count(queues[1], r) + Count(queues[2], r) + Count(queues[3], r)
           + Count(sched.retry, r) + (IF sched.pc = "have" /\ sched.item = r THEN 1 ELSE 0)

\* Skips, deferrals, rotations and retries neither lose an item nor double it: a
\* run is in the scheduler's hands exactly once from its resume to its dispatch.
QueuedOnce == \A r \in Runs : Held(r) = IF at[r] = "queued" THEN 1 ELSE 0

\* The run is queued, nothing of a higher priority is, and its tenant has a slot.
Servable(r) ==
  /\ \E i \in DOMAIN queues[level[r]] : queues[level[r]][i] = r
  /\ \A l \in Levels : l < level[r] => queues[l] = <<>>
  /\ CanExecute(Tenant(r))

\* No tenant starves another within a priority level: an item that stays
\* servable is dispatched, however many items of saturated tenants surround it.
ServableIsServed == \A r \in Runs : []<>~Servable(r)

=============================================================================
