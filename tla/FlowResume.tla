----------------------------- MODULE FlowResume -----------------------------
(***************************************************************************)
(* WAIT and RESUME of flow runs across the instances of a deployment.      *)
(*                                                                         *)
(* A run that returns WAIT is committed as "waiting" and registered in     *)
(* three places: the _waiting dict of the process that ran it, a Redis     *)
(* key, and a waiting_flow_runs row.  A resume event wakes the matching    *)
(* _waiting entries of every process; each woken callback is queued, and   *)
(* a process whose APScheduler is running dispatches it.  The callback     *)
(* claims the run with UPDATE ... WHERE status = 'waiting'.                *)
(*                                                                         *)
(* Two kinds of callback exist: "runner" (the lambda that the executing    *)
(* PersistentFlowRunner registers) and "rehydrated" (the one startup, the  *)
(* orphan recovery and the resume watchdog rebuild from the database).     *)
(* The n-th WAIT of a run waits for the run's n-th event.                  *)
(***************************************************************************)
EXTENDS Naturals, FiniteSets

CONSTANTS
  Instances,     \* processes of the deployment
  Runs,          \* flow runs
  Origin,        \* instances on which flows are started; {} = all restarted
  Dispatchers,   \* instances whose APScheduler runs (lease leaders)
  MaxWaits,      \* bound: WAITs of one run
  MaxPublishes,  \* bound: resume requests per wait
  MaxEvents,     \* bound: SystemEvents of an awaited type per run
  MaxCrashes,    \* bound: crashes of instances
  Lossy          \* whether pub/sub messages may be lost

ASSUME TopologyAssumption == Instances # {} /\ Origin \subseteq Instances
                             /\ Dispatchers \subseteq Instances
ASSUME BoundsAssumption == MaxWaits \in Nat \ {0} /\ MaxPublishes \in Nat
                           /\ MaxEvents \in Nat /\ MaxCrashes \in Nat
ASSUME LossyAssumption == Lossy \in BOOLEAN

VARIABLES
  status,     \* flow_runs.status
  waitNo,     \* number of the WAIT that waiting_for belongs to
  row,        \* waiting_flow_runs row: its wait, and whether a SystemEvent
              \* of that type is newer than its waited_since
  redisKey,   \* aindy:wait:<run> exists
  phase,      \* of each instance: "down", "rehydrating" or "up"
  waiting,    \* SchedulerEngine._waiting of each instance
  queue,      \* resumed items in the priority queues of each instance
  inbox,      \* pub/sub messages not yet handled (buffered before rehydration)
  snap,       \* runs a rehydration pass has read and not yet registered
  evict,      \* runs a cleanup pass has read as stale and not yet evicted
  notes,      \* threads inside notify_event
  tasks,      \* threads inside a resume callback or a register_wait
  claims,     \* successful claims of each run (history)
  published,  \* resume requests made for each wait of each run
  events, crashes  \* counters of the bounds

dbVars == <<status, waitNo, claims>>
stores == <<row, redisKey>>
procVars == <<phase, snap, evict>>
bounds == <<published, events, crashes>>
vars == <<status, waitNo, row, redisKey, phase, waiting, queue, inbox, snap,
          evict, notes, tasks, claims, published, events, crashes>>

WaitNos == 0..MaxWaits
Kinds == {"runner", "rehydrated"}
NoEntry == [kind |-> "none", no |-> 0]
Entries == [kind : Kinds, no : WaitNos]
NoRow == [no |-> 0, fired |-> FALSE]
Rows == [no : WaitNos, fired : BOOLEAN]
Waits == [run : Runs, no : WaitNos]
Items == [run : Runs, kind : Kinds, no : WaitNos]
Notes == [at : Instances, run : Runs, no : WaitNos,
          pc : {"match", "delete", "cross", "publish"},
          by : {"request", "emit", "bus", "watchdog", "restore"}]
Tasks == [at : Instances, run : Runs, kind : Kinds, no : WaitNos,
          pc : {"begin", "read", "claim", "exec", "insert", "persist", "write"}]

ColdStart == Origin = {}
Registered(i, r) == waiting[i][r] # NoEntry
\* The subscriber and the watchdog job are one thread each per instance.
Idle(i, by) == \A n \in notes : ~(n.at = i /\ n.by = by)
\* A rehydration pass registers one run after the other.
RehydrationPersisted(i) ==
  \A t \in tasks : ~(t.at = i /\ t.kind = "rehydrated" /\ t.pc \in {"persist", "write"})
\* The heartbeat job runs schedule() and then the cleanup, one tick at a time.
TickIdle(i) == snap[i] = {} /\ evict[i] = {} /\ RehydrationPersisted(i)
Replace(S, old, new) == (S \ {old}) \union {new}
TaskAt(t, pc) == [at |-> t.at, run |-> t.run, kind |-> t.kind, no |-> t.no, pc |-> pc]
NoteAt(n, pc) == [at |-> n.at, run |-> n.run, no |-> n.no, pc |-> pc, by |-> n.by]

\* A deployment in service with no flow started, or (ColdStart) a deployment
\* whose instances all stopped while every run was waiting.
Init ==
  /\ status = [r \in Runs |-> IF ColdStart THEN "waiting" ELSE "absent"]
  /\ waitNo = [r \in Runs |-> IF ColdStart THEN 1 ELSE 0]
  /\ row = [r \in Runs |-> IF ColdStart THEN [no |-> 1, fired |-> FALSE] ELSE NoRow]
  /\ redisKey = [r \in Runs |-> ColdStart]
  /\ phase = [i \in Instances |-> IF ColdStart THEN "down" ELSE "up"]
  /\ waiting = [i \in Instances |-> [r \in Runs |-> NoEntry]]
  /\ queue = [i \in Instances |-> {}]
  /\ inbox = [i \in Instances |-> {}]
  /\ snap = [i \in Instances |-> {}]
  /\ evict = [i \in Instances |-> {}]
  /\ notes = {}
  /\ tasks = {}
  /\ claims = [r \in Runs |-> 0]
  /\ published = [r \in Runs |-> [n \in 1..MaxWaits |-> 0]]
  /\ events = [r \in Runs |-> 0]
  /\ crashes = 0

-----------------------------------------------------------------------------
(* The flow runner *)

\* PersistentFlowRunner.start: the FlowRun is committed and executed here.
Start(i, r) ==
  /\ i \in Origin
  /\ phase[i] = "up"
  /\ status[r] = "absent"
  /\ status' = [status EXCEPT ![r] = "running"]
  /\ tasks' = tasks \union
       {[at |-> i, run |-> r, kind |-> "runner", no |-> 0, pc |-> "exec"]}
  /\ UNCHANGED <<waitNo, claims, stores, procVars, waiting, queue, inbox, notes, bounds>>

\* A node returns WAIT: the new wait is committed; registering it comes later.
Wait(t) ==
  /\ t.pc = "exec"
  /\ waitNo[t.run] < MaxWaits
  /\ waitNo' = [waitNo EXCEPT ![t.run] = @ + 1]
  /\ status' = [status EXCEPT ![t.run] = "waiting"]
  /\ tasks' = Replace(tasks, t,
       [at |-> t.at, run |-> t.run, kind |-> "runner", no |-> waitNo[t.run] + 1, pc |-> "insert"])
  /\ UNCHANGED <<claims, stores, procVars, waiting, queue, inbox, notes, bounds>>

\* The flow reaches an end node, or a node fails: the run gets its final status
\* ("ended" stands for success and failed).
Finish(t) ==
  /\ t.pc = "exec"
  /\ status' = [status EXCEPT ![t.run] = "ended"]
  /\ tasks' = tasks \ {t}
  /\ UNCHANGED <<waitNo, claims, stores, procVars, waiting, queue, inbox, notes, bounds>>

\* Mutant: the UPDATE loses its WHERE status = 'waiting'.
GuardedClaimAs_unguarded(t, pc) ==
  /\ status' = [status EXCEPT ![t.run] = "executing"]
  /\ claims' = [claims EXCEPT ![t.run] = @ + 1]
  /\ tasks' = Replace(tasks, t, TaskAt(t, pc))

\* The guarded UPDATE both kinds of callback use; the winner goes on at pc.
GuardedClaim(t, pc) ==
  LET won == status[t.run] = "waiting" IN
  /\ status' = [status EXCEPT ![t.run] = IF won THEN "executing" ELSE @]
  /\ claims' = [claims EXCEPT ![t.run] = IF won THEN @ + 1 ELSE @]
  /\ tasks' = IF won THEN Replace(tasks, t, TaskAt(t, pc)) ELSE tasks \ {t}

\* The rehydrated callback claims first and then calls runner.resume().
RehydratedClaim(t) ==
  /\ t.pc = "begin"
  /\ t.kind = "rehydrated"
  /\ GuardedClaim(t, "read")
  /\ UNCHANGED <<waitNo, stores, procVars, waiting, queue, inbox, notes, bounds>>

\* resume() reads the run; a status other than "waiting" skips the claim.
ReadStatus(t) ==
  /\ t.pc = "read" \/ (t.pc = "begin" /\ t.kind = "runner")
  /\ tasks' = Replace(tasks, t,
       TaskAt(t, IF status[t.run] = "waiting" THEN "claim" ELSE "exec"))
  /\ UNCHANGED <<dbVars, stores, procVars, waiting, queue, inbox, notes, bounds>>

\* _claim_waiting_run's UPDATE; the loser returns SKIPPED.
RunnerClaim(t) ==
  /\ t.pc = "claim"
  /\ GuardedClaim(t, "exec")
  /\ UNCHANGED <<waitNo, stores, procVars, waiting, queue, inbox, notes, bounds>>

-----------------------------------------------------------------------------
(* SchedulerEngine.register_wait and its backup row *)

\* _waiting[run] is assigned under the lock, then the Redis key is set.
RegisterInsert(t) ==
  /\ t.pc = "insert"
  /\ waiting' = [waiting EXCEPT ![t.at][t.run] = [kind |-> t.kind, no |-> t.no]]
  /\ redisKey' = [redisKey EXCEPT ![t.run] = TRUE]
  /\ tasks' = Replace(tasks, t, TaskAt(t, "persist"))
  /\ UNCHANGED <<dbVars, row, procVars, queue, inbox, notes, bounds>>

\* _persist_wait_backup copies the entry, or returns when it is already gone.
PersistRead(t) ==
  /\ t.pc = "persist"
  /\ tasks' = IF Registered(t.at, t.run)
              THEN Replace(tasks, t, [at |-> t.at, run |-> t.run, kind |-> t.kind,
                                      no |-> waiting[t.at][t.run].no, pc |-> "write"])
              ELSE tasks \ {t}
  /\ UNCHANGED <<dbVars, stores, procVars, waiting, queue, inbox, notes, bounds>>

\* ... and merges the row, with waited_since = now.
PersistWrite(t) ==
  /\ t.pc = "write"
  /\ row' = [row EXCEPT ![t.run] = [no |-> t.no, fired |-> FALSE]]
  /\ tasks' = tasks \ {t}
  /\ UNCHANGED <<dbVars, redisKey, procVars, waiting, queue, inbox, notes, bounds>>

-----------------------------------------------------------------------------
(* Resume events: route_event, notify_event, the event bus *)

\* A resume request: flow_run_resume_node checks that the run is waiting, and
\* route_event publishes the event it waits for.
RouteEvent(i, r) ==
  /\ phase[i] = "up"
  /\ status[r] = "waiting"
  /\ published[r][waitNo[r]] < MaxPublishes
  /\ published' = [published EXCEPT ![r][waitNo[r]] = @ + 1]
  /\ notes' = notes \union
       {[at |-> i, run |-> r, no |-> waitNo[r], pc |-> "match", by |-> "request"]}
  /\ UNCHANGED <<dbVars, stores, procVars, waiting, queue, inbox, tasks, events, crashes>>

\* Mutant: every event wakes the run, registered or not.
NotifyMatchAs_always(n) ==
  LET e == waiting[n.at][n.run] IN
  /\ n.pc = "match"
  /\ waiting' = [waiting EXCEPT ![n.at][n.run] = NoEntry]
  /\ redisKey' = [redisKey EXCEPT ![n.run] = FALSE]
  /\ queue' = [queue EXCEPT ![n.at] = @ \union {[run |-> n.run, kind |-> e.kind, no |-> e.no]}]
  /\ notes' = Replace(notes, n, NoteAt(n, "delete"))
  /\ UNCHANGED <<dbVars, row, procVars, inbox, tasks, bounds>>

\* notify_event under the lock: a matching entry is removed from _waiting and
\* Redis, and its callback is queued.
NotifyMatch(n) ==
  LET e == waiting[n.at][n.run]
      hit == e # NoEntry /\ e.no = n.no
  IN
  /\ n.pc = "match"
  /\ waiting' = [waiting EXCEPT ![n.at][n.run] = IF hit THEN NoEntry ELSE @]
  /\ redisKey' = [redisKey EXCEPT ![n.run] = @ /\ ~hit]
  /\ queue' = [queue EXCEPT ![n.at] = IF hit
       THEN @ \union {[run |-> n.run, kind |-> e.kind, no |-> e.no]} ELSE @]
  /\ notes' = Replace(notes, n, NoteAt(n, IF hit THEN "delete" ELSE "cross"))
  /\ UNCHANGED <<dbVars, row, procVars, inbox, tasks, bounds>>

\* Mutant: a resume request is not published.
BroadcastsAs_emitOnly(n) == n.by = "emit"

\* Mutant: the subscriber leaves broadcast at its default.
BroadcastsAs_all(n) == n.by \in {"request", "emit", "bus"}

\* Requests and emitted events are published; the others notify with
\* broadcast = False.
Broadcasts(n) == n.by \in {"request", "emit"}

\* _delete_wait_backup of a matched run.  A watchdog that has just restored the
\* registration holds a lock on the row in another session of its own, and the
\* timeout of either session ends the stand-off.
NotifyDelete(n) ==
  /\ n.pc = "delete"
  /\ \/ row' = [row EXCEPT ![n.run] = NoRow]
     \/ n.by = "restore" /\ UNCHANGED row
  /\ notes' = IF Broadcasts(n) THEN Replace(notes, n, NoteAt(n, "publish"))
                                ELSE notes \ {n}
  /\ UNCHANGED <<dbVars, redisKey, procVars, waiting, queue, inbox, tasks, bounds>>

\* EventBus.publish: every subscribed peer, or any part of them when the bus is
\* lossy, receives the message.
Publish(n) ==
  LET peers == IF Broadcasts(n) THEN {j \in Instances \ {n.at} : phase[j] # "down"} ELSE {}
  IN
  /\ \E J \in IF Lossy THEN SUBSET peers ELSE {peers} :
       inbox' = [j \in Instances |-> IF j \in J
                   THEN inbox[j] \union {[run |-> n.run, no |-> n.no]} ELSE inbox[j]]
  /\ notes' = notes \ {n}

\* The tail of notify_event for a matched run: only the publication is left.
NotifyPublish(n) ==
  /\ n.pc = "publish"
  /\ Publish(n)
  /\ UNCHANGED <<dbVars, stores, procVars, waiting, queue, tasks, bounds>>

\* The tail for a run that did not match here: _cross_instance_resume, where
\* deleting the Redis key claims the run, and the publication.  The callback
\* built from the ResumeSpec moves only the ExecutionUnit, which is not state
\* of this module.
NotifyCross(n) ==
  LET mine == redisKey[n.run] /\ ~Registered(n.at, n.run) /\ row[n.run].no = n.no IN
  /\ n.pc = "cross"
  /\ redisKey' = [redisKey EXCEPT ![n.run] = @ /\ ~mine]
  /\ Publish(n)
  /\ UNCHANGED <<dbVars, row, procVars, waiting, queue, tasks, bounds>>

\* _handle_message of the subscriber thread, or the replay of what was buffered
\* before rehydration.
HandleMessage(i, m) ==
  /\ phase[i] = "up"
  /\ m \in inbox[i]
  /\ Idle(i, "bus")
  /\ inbox' = [inbox EXCEPT ![i] = @ \ {m}]
  /\ notes' = notes \union
       {[at |-> i, run |-> m.run, no |-> m.no, pc |-> "match", by |-> "bus"]}
  /\ UNCHANGED <<dbVars, stores, procVars, waiting, queue, tasks, bounds>>

\* schedule(), on an instance that runs the APScheduler: a queued callback is
\* handed to the thread pool.
Dispatch(i, q) ==
  /\ i \in Dispatchers
  /\ phase[i] = "rehydrating" \/ (phase[i] = "up" /\ TickIdle(i))
  /\ q \in queue[i]
  /\ queue' = [queue EXCEPT ![i] = @ \ {q}]
  /\ tasks' = tasks \union
       {[at |-> i, run |-> q.run, kind |-> q.kind, no |-> q.no, pc |-> "begin"]}
  /\ UNCHANGED <<dbVars, stores, procVars, waiting, inbox, notes, bounds>>

-----------------------------------------------------------------------------
(* Rehydration, orphan recovery, watchdog, cleanup *)

\* rehydrate_waiting_flow_runs at startup: the waiting runs are read ...
StartupRead(i) ==
  /\ phase[i] = "down"
  /\ phase' = [phase EXCEPT ![i] = "rehydrating"]
  /\ snap' = [snap EXCEPT ![i] =
       {[run |-> r, no |-> waitNo[r]] : r \in {x \in Runs : status[x] = "waiting"}}]
  /\ UNCHANGED <<dbVars, stores, evict, waiting, queue, inbox, notes, tasks, bounds>>

\* recover_orphaned_waits: the same for the rows that _waiting does not hold.
OrphanRead(i) ==
  /\ i \in Dispatchers
  /\ phase[i] = "up"
  /\ TickIdle(i)
  /\ LET orphans == {r \in Runs : row[r] # NoRow /\ ~Registered(i, r) /\ status[r] = "waiting"}
     IN /\ orphans # {}
        /\ snap' = [snap EXCEPT ![i] = {[run |-> r, no |-> waitNo[r]] : r \in orphans}]
  /\ UNCHANGED <<dbVars, stores, phase, evict, waiting, queue, inbox, notes, tasks, bounds>>

\* ... and each one that _waiting does not hold yet is registered.
Rehydrate(i, s) ==
  LET new == ~Registered(i, s.run) IN
  /\ s \in snap[i]
  /\ RehydrationPersisted(i)
  /\ snap' = [snap EXCEPT ![i] = @ \ {s}]
  /\ waiting' = [waiting EXCEPT ![i][s.run] =
       IF new THEN [kind |-> "rehydrated", no |-> s.no] ELSE @]
  /\ redisKey' = [redisKey EXCEPT ![s.run] = @ \/ new]
  /\ tasks' = IF new
              THEN tasks \union {[at |-> i, run |-> s.run, kind |-> "rehydrated",
                                  no |-> s.no, pc |-> "persist"]}
              ELSE tasks
  /\ UNCHANGED <<dbVars, row, phase, evict, queue, inbox, notes, bounds>>

\* mark_rehydration_complete, after the last registration has been persisted.
StartupDone(i) ==
  /\ phase[i] = "rehydrating"
  /\ snap[i] = {}
  /\ RehydrationPersisted(i)
  /\ phase' = [phase EXCEPT ![i] = "up"]
  /\ UNCHANGED <<dbVars, stores, snap, evict, waiting, queue, inbox, notes, tasks, bounds>>

\* The row of the event is committed: it is newer than waited_since of the row
\* that waits for it.
SystemEventPersisted(r, no) ==
  /\ events[r] < MaxEvents
  /\ events' = [events EXCEPT ![r] = @ + 1]
  /\ row' = [row EXCEPT ![r] = [no |-> row[r].no, fired |-> row[r].fired \/ row[r].no = no]]

\* emit_system_event on an instance: the event is persisted and then notified,
\* or buffered until the instance has rehydrated.
EmitSystemEvent(i, r, no) ==
  /\ phase[i] # "down"
  /\ SystemEventPersisted(r, no)
  /\ IF phase[i] = "up"
     THEN /\ notes' = notes \union
               {[at |-> i, run |-> r, no |-> no, pc |-> "match", by |-> "emit"]}
          /\ UNCHANGED inbox
     ELSE /\ inbox' = [inbox EXCEPT ![i] = @ \union {[run |-> r, no |-> no]}]
          /\ UNCHANGED notes
  /\ UNCHANGED <<dbVars, redisKey, procVars, waiting, queue, tasks, published, crashes>>

\* emit_system_event in a worker process, whose engine is never marked as
\* rehydrated: the event is persisted, buffered there and notified nowhere.
WorkerEvent(r, no) ==
  /\ SystemEventPersisted(r, no)
  /\ UNCHANGED <<dbVars, redisKey, procVars, waiting, queue, inbox, notes, tasks,
                 published, crashes>>

\* _try_reregister_callback of the watchdog: every waiting run missing here is
\* registered again and its row rewritten (one step: the registrations of
\* Rehydrate, without what may happen between them).
Reregister(i, missing) ==
  /\ waiting' = [waiting EXCEPT ![i] = [x \in Runs |->
       IF x \in missing THEN [kind |-> "rehydrated", no |-> waitNo[x]] ELSE waiting[i][x]]]
  /\ redisKey' = [x \in Runs |-> redisKey[x] \/ x \in missing]
  /\ row' = [x \in Runs |->
       IF x \in missing THEN [no |-> waitNo[x], fired |-> FALSE] ELSE row[x]]

Missing(i) == {x \in Runs : status[x] = "waiting" /\ ~Registered(i, x)}

\* Mutant: the event is notified only when the run had to be re-registered.
WatchdogAs_missingOnly(i, r) ==
  /\ i \in Dispatchers
  /\ phase[i] = "up"
  /\ row[r] # NoRow
  /\ row[r].fired
  /\ status[r] = "waiting"
  /\ Idle(i, "watchdog") /\ Idle(i, "restore")
  /\ ~Registered(i, r)
  /\ Reregister(i, Missing(i))
  /\ notes' = notes \union
       {[at |-> i, run |-> r, no |-> row[r].no, pc |-> "match", by |-> "restore"]}
  /\ UNCHANGED <<dbVars, procVars, queue, inbox, tasks, bounds>>

\* Mutant: the row is not compared with the SystemEvents.
WatchdogAs_noEvent(i, r) ==
  /\ i \in Dispatchers
  /\ phase[i] = "up"
  /\ row[r] # NoRow
  /\ status[r] = "waiting"
  /\ Idle(i, "watchdog") /\ Idle(i, "restore")
  /\ Reregister(i, IF Registered(i, r) THEN {} ELSE Missing(i))
  /\ notes' = notes \union
       {[at |-> i, run |-> r, no |-> row[r].no, pc |-> "match",
         by |-> IF Registered(i, r) THEN "watchdog" ELSE "restore"]}
  /\ UNCHANGED <<dbVars, procVars, queue, inbox, tasks, bounds>>

\* scan_and_resume_stranded_flows: for a waiting run whose row has a newer event
\* the missing registrations are restored, and its event is notified again.
Watchdog(i, r) ==
  /\ i \in Dispatchers
  /\ phase[i] = "up"
  /\ row[r] # NoRow
  /\ row[r].fired
  /\ status[r] = "waiting"
  /\ Idle(i, "watchdog") /\ Idle(i, "restore")
  /\ Reregister(i, IF Registered(i, r) THEN {} ELSE Missing(i))
  /\ notes' = notes \union
       {[at |-> i, run |-> r, no |-> row[r].no, pc |-> "match",
         by |-> IF Registered(i, r) THEN "watchdog" ELSE "restore"]}
  /\ UNCHANGED <<dbVars, procVars, queue, inbox, tasks, bounds>>

\* Mutant: the status of the run is not consulted.
CleanupReadAs_all(i) ==
  /\ i \in Dispatchers
  /\ phase[i] = "up"
  /\ TickIdle(i)
  /\ LET stale == {r \in Runs : Registered(i, r)}
     IN /\ stale # {}
        /\ evict' = [evict EXCEPT ![i] = stale]
  /\ UNCHANGED <<dbVars, stores, phase, snap, waiting, queue, inbox, notes, tasks, bounds>>

\* cleanup_stale_waits reads which of its entries are no longer waiting ...
CleanupRead(i) ==
  /\ i \in Dispatchers
  /\ phase[i] = "up"
  /\ TickIdle(i)
  /\ LET stale == {r \in Runs : Registered(i, r) /\ status[r] # "waiting"}
     IN /\ stale # {}
        /\ evict' = [evict EXCEPT ![i] = stale]
  /\ UNCHANGED <<dbVars, stores, phase, snap, waiting, queue, inbox, notes, tasks, bounds>>

\* ... and pops each one, with its row.
CleanupEvict(i, r) ==
  /\ r \in evict[i]
  /\ evict' = [evict EXCEPT ![i] = @ \ {r}]
  /\ waiting' = [waiting EXCEPT ![i][r] = NoEntry]
  /\ row' = [row EXCEPT ![r] = NoRow]
  /\ UNCHANGED <<dbVars, redisKey, phase, snap, queue, inbox, notes, tasks, bounds>>

\* An instance stops without warning: everything in its memory is gone.
Crash(i) ==
  /\ phase[i] # "down"
  /\ crashes < MaxCrashes
  /\ crashes' = crashes + 1
  /\ phase' = [phase EXCEPT ![i] = "down"]
  /\ waiting' = [waiting EXCEPT ![i] = [r \in Runs |-> NoEntry]]
  /\ queue' = [queue EXCEPT ![i] = {}]
  /\ inbox' = [inbox EXCEPT ![i] = {}]
  /\ snap' = [snap EXCEPT ![i] = {}]
  /\ evict' = [evict EXCEPT ![i] = {}]
  /\ notes' = {n \in notes : n.at # i}
  /\ tasks' = {t \in tasks : t.at # i}
  /\ UNCHANGED <<dbVars, stores, published, events>>

-----------------------------------------------------------------------------
TaskStep(t) ==
  \/ Wait(t) \/ Finish(t)
  \/ RehydratedClaim(t) \/ ReadStatus(t) \/ RunnerClaim(t)
  \/ RegisterInsert(t) \/ PersistRead(t) \/ PersistWrite(t)

NoteStep(n) == NotifyMatch(n) \/ NotifyDelete(n) \/ NotifyCross(n) \/ NotifyPublish(n)

Next ==
  \/ \E i \in Instances, r \in Runs : Start(i, r) \/ RouteEvent(i, r)
  \/ \E t \in tasks : TaskStep(t)
  \/ \E n \in notes : NoteStep(n)
  \/ \E i \in Instances : \E m \in inbox[i] : HandleMessage(i, m)
  \/ \E i \in Instances : \E q \in queue[i] : Dispatch(i, q)
  \/ \E i \in Instances : StartupRead(i) \/ OrphanRead(i) \/ StartupDone(i)
  \/ \E i \in Instances : \E s \in snap[i] : Rehydrate(i, s)
  \/ \E r \in Runs, no \in 1..MaxWaits :
       WorkerEvent(r, no) \/ \E i \in Instances : EmitSystemEvent(i, r, no)
  \/ \E i \in Instances, r \in Runs : Watchdog(i, r)
  \/ \E i \in Instances : CleanupRead(i)
  \/ \E i \in Instances : \E r \in evict[i] : CleanupEvict(i, r)
  \/ \E i \in Instances : Crash(i)

Spec == Init /\ [][Next]_vars

\* Threads keep running, messages that were not lost arrive, and the jobs of
\* an instance that runs the APScheduler recur.  Requests, SystemEvents and
\* crashes need not happen.
Fairness ==
  /\ \A i \in Instances :
       /\ \A pc \in {"begin", "read", "claim", "exec", "insert", "persist", "write"} :
            WF_vars(\E t \in tasks : t.at = i /\ t.pc = pc /\ TaskStep(t))
       /\ \A by \in {"request", "emit", "bus", "watchdog", "restore"} :
            WF_vars(\E n \in notes : n.at = i /\ n.by = by /\ NoteStep(n))
       /\ WF_vars(\E m \in inbox[i] : HandleMessage(i, m))
       /\ WF_vars(\E q \in queue[i] : Dispatch(i, q))
       /\ WF_vars(StartupRead(i)) /\ WF_vars(StartupDone(i))
       /\ WF_vars(OrphanRead(i)) /\ WF_vars(CleanupRead(i))
       /\ WF_vars(\E s \in snap[i] : Rehydrate(i, s))
       /\ WF_vars(\E r \in evict[i] : CleanupEvict(i, r))
       /\ \A r \in Runs : WF_vars(Watchdog(i, r))

FairSpec == Spec /\ Fairness

-----------------------------------------------------------------------------
ShapeOK ==
  /\ status \in [Runs -> {"absent", "running", "waiting", "executing", "ended"}]
  /\ waitNo \in [Runs -> WaitNos]
  /\ row \in [Runs -> Rows]
  /\ redisKey \in [Runs -> BOOLEAN]
  /\ phase \in [Instances -> {"down", "rehydrating", "up"}]
  /\ waiting \in [Instances -> [Runs -> Entries \union {NoEntry}]]
  /\ queue \in [Instances -> SUBSET Items]
  /\ inbox \in [Instances -> SUBSET Waits]
  /\ snap \in [Instances -> SUBSET Waits]
  /\ evict \in [Instances -> SUBSET Runs]
  /\ notes \subseteq Notes
  /\ tasks \subseteq Tasks

CountsOK ==
  /\ claims \in [Runs -> Nat]
  /\ published \in [Runs -> [1..MaxWaits -> Nat]]
  /\ events \in [Runs -> Nat]
  /\ crashes \in Nat

\* Every variable stays within the values the code stores in it.
TypeOK == ShapeOK /\ CountsOK

\* Each WAIT of a run is claimed at most once, whatever mixture of runner and
\* rehydrated callbacks, duplicated events, crashes and restarts is in play.
EachWaitClaimedOnce ==
  \A r \in Runs : claims[r] + (IF status[r] = "waiting" THEN 1 ELSE 0) <= waitNo[r]

\* The claim protocol implements the ledger of waits: the run's status is the
\* open wait, and only a guarded UPDATE turns it into a claim.
Ledger == INSTANCE ResumeLedger
  WITH open <- [r \in Runs |-> IF status[r] = "waiting" THEN 1 ELSE 0], waits <- waitNo

\* Every step of the deployment opens, consumes or abandons a wait of one run
\* the way the ledger allows, or leaves the ledger alone.
ImplementsLedger == Ledger!Spec

Executing(r) == {t \in tasks : t.run = r /\ t.pc = "exec"}

\* The thread's next step is to execute the run.
AboutToExecute(t) ==
  \/ t.pc = "claim" /\ status[t.run] = "waiting"
  \/ (t.pc = "read" \/ (t.pc = "begin" /\ t.kind = "runner")) /\ status[t.run] # "waiting"

\* At most one thread executes a run, and no other is about to join it: the
\* claim makes exactly one instance proceed when several wake the same run.
AtMostOneRunner ==
  \A r \in Runs :
    /\ Cardinality(Executing(r)) <= 1
    /\ Executing(r) # {} => \A t \in tasks : t.run = r => ~AboutToExecute(t)

\* The run is registered on some instance, or about to be, or its callback is on
\* the way to a claim; an instance that is down reads all waiting runs when it starts.
Remembered(r) ==
  \/ \E i \in Instances : Registered(i, r) \/ phase[i] = "down"
  \/ \E i \in Instances : \E s \in snap[i] : s.run = r
  \/ \E i \in Instances : \E q \in queue[i] : q.run = r
  \/ \E t \in tasks : t.run = r /\ t.pc \in {"begin", "read", "claim", "insert"}

\* A waiting run is never forgotten by the running processes.
WaitNeverForgotten == \A r \in Runs : status[r] = "waiting" => Remembered(r)

\* A wait is claimed only after a resume request for that very wait, or after
\* a SystemEvent of an awaited type.
ClaimIsRequested ==
  [][\A r \in Runs : claims'[r] > claims[r] =>
       published[r][waitNo[r]] > 0 \/ events[r] > 0]_vars

\* Every instance is up and has the run registered for the wait it is in, and no
\* clean-up under way has listed it as not waiting.
RegisteredEverywhere(r) ==
  \A i \in Instances :
    phase[i] = "up" /\ waiting[i][r].no = waitNo[r] /\ r \notin evict[i]

\* A resume request for a run that every instance has registered, made on any of
\* them, leads to the run being resumed: flow_run_resume_node answers "resumed".
RequestedRunResumes ==
  \A r \in Runs :
    (/\ status[r] = "waiting" /\ RegisteredEverywhere(r)
     /\ \E n \in notes : n.by = "request" /\ n.pc = "match" /\ n.run = r /\ n.no = waitNo[r])
      ~> (status[r] # "waiting")

\* A waiting run that every instance has registered and whose row is older than
\* a SystemEvent of the awaited type is resumed, also when the process that
\* emitted the event has told nobody: this is what the resume watchdog is for.
StrandedRunResumes ==
  \A r \in Runs :
    (/\ status[r] = "waiting" /\ RegisteredEverywhere(r)
     /\ row[r].fired /\ row[r].no = waitNo[r])
      ~> (status[r] # "waiting")

=============================================================================
