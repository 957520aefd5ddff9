----------------------------- MODULE FlowRecovery -----------------------------
(***************************************************************************)
(* The jobs that end flow runs nobody will finish: the expiry of waits     *)
(* (platform_layer/recovery_jobs.py), the scan for stuck runs at startup   *)
(* and every two minutes (agents/stuck_run_service.py), and the dead       *)
(* letters (agents/dead_letter_service.py), racing with the runner         *)
(* (runtime/flow_engine/), the wait registry (kernel/scheduler/) and the   *)
(* crashes and restarts of the process.                                    *)
(*                                                                         *)
(* One process is modelled, the one that holds the scheduler lease; what   *)
(* several instances do to a wait is the subject of FlowResume.  Rows are  *)
(* kept by their status and by the time since updated_at.                  *)
(***************************************************************************)
EXTENDS Integers, FiniteSets

CONSTANTS
    Runs,          \* flow runs
    Bad,           \* runs whose row the recovery jobs fail to write, each time
    Timeout,       \* per run, the wait_timeout_minutes of its flow
    WaitTimeout,   \* FLOW_WAIT_TIMEOUT_MINUTES
    StuckAfter,    \* STUCK_RUN_THRESHOLD_MINUTES
    Horizon,       \* bound: ages are cut off here
    MaxCrashes,    \* bound: crashes of the process
    MaxJobs,       \* bound: recovery jobs between their SELECT and their end
    NoRow          \* waiting_flow_runs: no row, or one without max_wait_seconds

\* config.py:239 refuses a threshold that is not above the wait timeout.
ASSUME RecoveryAssumption ==
    /\ Bad \subseteq Runs
    /\ WaitTimeout \in Nat \ {0}
    /\ StuckAfter \in Nat /\ StuckAfter > WaitTimeout
    /\ Horizon \in Nat /\ Horizon >= StuckAfter
    /\ Timeout \in [Runs -> 1..Horizon]
    /\ MaxCrashes \in Nat /\ MaxJobs \in Nat
    /\ NoRow \notin Nat

VARIABLES
    process,    \* "up", "down", or "boot": scanning before rehydration
    crashes,    \* crashes so far
    status,     \* flow_runs.status; "new" before the row exists, "done" for
                \* a success and for a handoff to a job
    age,        \* time since flow_runs.updated_at, up to Horizon, kept while a
                \* job may look at it
    at,         \* where the thread that executes the run is
    tail,       \* where the writing of the backup row is
    callback,   \* the callback registered or queued for the run: "none",
                \* "own" (the runner's) or "rehydrated"
    queued,     \* runs whose callback waits in the scheduler's queue
    backup,     \* waiting_flow_runs row: time left to its max_wait, if any
    expired,    \* rows expire_timed_out_waits has selected
    overdue,    \* rows expire_timed_out_wait_flows has selected
    stuck,      \* rows recover_stuck_runs has selected
    scanStuck,  \* rows scan_and_recover_stuck_runs has still to recover
    scanWaits,  \* rows it has still to dead-letter
    recovered   \* history: runs failed as stuck

rows == <<status, age>>
threads == <<at, tail>>
registry == <<callback, queued>>
scans == <<expired, overdue, stuck, scanStuck, scanWaits>>
vars == <<process, crashes, rows, threads, registry, backup, scans, recovered>>

Ended == {"done", "failed", "dead_letter"}
Statuses == {"new", "running", "waiting", "executing"} \cup Ended

Init ==
    /\ process = "up" /\ crashes = 0
    /\ status = [r \in Runs |-> "new"]
    /\ age = [r \in Runs |-> 0]
    /\ at = [r \in Runs |-> "none"]
    /\ tail = [r \in Runs |-> "none"]
    /\ callback = [r \in Runs |-> "none"] /\ queued = {}
    /\ backup = [r \in Runs |-> NoRow]
    /\ expired = {} /\ overdue = {} /\ stuck = {}
    /\ scanStuck = {} /\ scanWaits = {}
    /\ recovered = {}

(***************************************************************************)
(* The runner.  Its commits write the status it wants, whatever the row    *)
(* holds by then; only a claim is guarded.                                 *)
(***************************************************************************)

\* A commit of the row of r: onupdate refreshes updated_at.
Write(r, s) ==
    /\ status' = [status EXCEPT ![r] = s]
    /\ age' = [age EXCEPT ![r] = 0]

Executes(r) == process = "up" /\ at[r] \in {"node", "claimed"}

Start(r) ==
    /\ process = "up" /\ status[r] = "new"
    /\ Write(r, "running")
    /\ at' = [at EXCEPT ![r] = "node"]
    /\ UNCHANGED <<process, crashes, tail, registry, backup, scans, recovered>>

\* After its claim, resume() sets run.status = "executing" on the reloaded
\* object, so that the next commit writes it once more.
Advance(r) ==
    /\ Executes(r)
    /\ Write(r, IF at[r] = "claimed" THEN "executing" ELSE status[r])
    /\ at' = [at EXCEPT ![r] = "node"]
    /\ UNCHANGED <<process, crashes, tail, registry, backup, scans, recovered>>

Finish(r) ==
    /\ Executes(r)
    /\ \E s \in {"done", "failed"} : Write(r, s)
    /\ at' = [at EXCEPT ![r] = "none"]
    /\ UNCHANGED <<process, crashes, tail, registry, backup, scans, recovered>>

\* An exception the runner does not handle ends the thread, not the row.
Dies(r) ==
    /\ Executes(r)
    /\ at' = [at EXCEPT ![r] = "none"]
    /\ UNCHANGED <<process, crashes, rows, tail, registry, backup, scans, recovered>>

\* A node waits for an event, or the tenant's quota parks the run.
Wait(r) ==
    /\ Executes(r)
    /\ Write(r, "waiting")
    /\ at' = [at EXCEPT ![r] = "register"]
    /\ UNCHANGED <<process, crashes, tail, registry, backup, scans, recovered>>

Register(r) ==
    /\ process = "up" /\ at[r] = "register" /\ tail[r] = "none"
    /\ callback' = [callback EXCEPT ![r] = "own"]
    /\ at' = [at EXCEPT ![r] = "none"]
    /\ tail' = [tail EXCEPT ![r] = "entry"]
    /\ UNCHANGED <<process, crashes, rows, queued, backup, scans, recovered>>

\* _persist_wait_backup gives up if the entry has been taken meanwhile.
PersistEntry(r) ==
    /\ process = "up" /\ tail[r] = "entry"
    /\ tail' = [tail EXCEPT
         ![r] = IF callback[r] # "none" /\ r \notin queued THEN "merge" ELSE "none"]
    /\ UNCHANGED <<process, crashes, rows, at, registry, backup, scans, recovered>>

\* Mutant: a deadline that has passed is not cut off at zero.
LeftAs_negative(r) ==
    IF status[r] = "waiting" THEN Timeout[r] - age[r] ELSE NoRow

\* max_wait_seconds: what is left of the wait_deadline, which a run has only
\* while it waits.
Left(r) ==
    IF status[r] # "waiting" THEN NoRow
    ELSE IF age[r] >= Timeout[r] THEN 0 ELSE Timeout[r] - age[r]

\* The row is written, or the write fails and is logged.
PersistMerge(r) ==
    /\ process = "up" /\ tail[r] = "merge"
    /\ backup' \in {backup, [backup EXCEPT ![r] = Left(r)]}
    /\ tail' = [tail EXCEPT ![r] = "none"]
    /\ UNCHANGED <<process, crashes, rows, at, registry, scans, recovered>>

\* notify_event takes the entry, queues its callback and deletes the backup
\* row, or fails to.
Event(r) ==
    /\ process = "up" /\ callback[r] # "none" /\ r \notin queued
    /\ queued' = queued \cup {r}
    /\ backup' \in {backup, [backup EXCEPT ![r] = NoRow]}
    /\ UNCHANGED <<process, crashes, rows, threads, callback, scans, recovered>>

\* The runner's own callback is resume(): it reads the row, and a status
\* other than "waiting" makes it execute without a claim.  The callback made
\* by rehydration claims whatever the row holds.
Resume(r) ==
    /\ process = "up" /\ r \in queued
    /\ queued' = queued \ {r}
    /\ callback' = [callback EXCEPT ![r] = "none"]
    /\ at' = [at EXCEPT ![r] =
         IF callback[r] = "rehydrated" THEN "claimRehydrated"
         ELSE IF status[r] = "waiting" THEN "claim" ELSE "node"]
    /\ UNCHANGED <<process, crashes, rows, tail, backup, scans, recovered>>

Claim(r) ==
    /\ process = "up" /\ at[r] \in {"claim", "claimRehydrated"}
    /\ IF status[r] = "waiting"
       THEN /\ Write(r, "executing")
            /\ at' = [at EXCEPT
                 ![r] = IF at[r] = "claim" THEN "claimed" ELSE "node"]
       ELSE /\ at' = [at EXCEPT ![r] = "none"]
            /\ UNCHANGED rows
    /\ UNCHANGED <<process, crashes, tail, registry, backup, scans, recovered>>

(***************************************************************************)
(* The expiry of waits and the periodic recovery: a SELECT, then one       *)
(* commit for all selected rows, or one rollback.                          *)
(***************************************************************************)

\* The rows of a batch are failed together; a row that cannot be written
\* makes the whole batch roll back.
FailBatch(batch) ==
    IF batch \cap Bad = {}
    THEN /\ status' = [r \in Runs |-> IF r \in batch THEN "failed" ELSE status[r]]
         /\ age' = [r \in Runs |-> IF r \in batch THEN 0 ELSE age[r]]
    ELSE UNCHANGED rows

\* The jobs between their SELECT and their end.
Busy == Cardinality({j \in {"expire", "overdue", "stuck", "scan"} :
    \/ j = "expire" /\ expired # {}
    \/ j = "overdue" /\ overdue # {}
    \/ j = "stuck" /\ stuck # {}
    \/ j = "scan" /\ scanStuck \cup scanWaits # {}})

ExpiredWaits == {r \in Runs : status[r] = "waiting" /\ age[r] >= Timeout[r]}

ExpireSelect ==
    /\ process = "up" /\ Busy < MaxJobs /\ expired = {} /\ ExpiredWaits # {}
    /\ expired' = ExpiredWaits
    /\ UNCHANGED <<process, crashes, rows, threads, registry, backup,
                   overdue, stuck, scanStuck, scanWaits, recovered>>

ExpireCommit ==
    /\ process = "up" /\ expired # {}
    /\ FailBatch(expired)
    /\ expired' = {}
    /\ UNCHANGED <<process, crashes, threads, registry, backup,
                   overdue, stuck, scanStuck, scanWaits, recovered>>

OverdueRows == {r \in Runs : backup[r] = 0}

OverdueSelect ==
    /\ process = "up" /\ Busy < MaxJobs /\ overdue = {} /\ OverdueRows # {}
    /\ overdue' = OverdueRows
    /\ UNCHANGED <<process, crashes, rows, threads, registry, backup,
                   expired, stuck, scanStuck, scanWaits, recovered>>

OverdueCommit ==
    /\ process = "up" /\ overdue # {}
    /\ FailBatch(overdue)
    /\ backup' = IF overdue \cap Bad = {}
                 THEN [r \in Runs |-> IF r \in overdue THEN NoRow ELSE backup[r]]
                 ELSE backup
    /\ overdue' = {}
    /\ UNCHANGED <<process, crashes, threads, registry,
                   expired, stuck, scanStuck, scanWaits, recovered>>

\* Mutant: the threshold is that of the waits.
StuckRunsAs_early == {r \in Runs : status[r] = "running" /\ age[r] >= WaitTimeout}

StuckRuns == {r \in Runs : status[r] = "running" /\ age[r] >= StuckAfter}

StuckSelect ==
    /\ process = "up" /\ Busy < MaxJobs /\ stuck = {} /\ StuckRuns # {}
    /\ stuck' = StuckRuns
    /\ UNCHANGED <<process, crashes, rows, threads, registry, backup,
                   expired, overdue, scanStuck, scanWaits, recovered>>

StuckCommit ==
    /\ process = "up" /\ stuck # {}
    /\ FailBatch(stuck)
    /\ recovered' = IF stuck \cap Bad = {} THEN recovered \cup stuck ELSE recovered
    /\ stuck' = {}
    /\ UNCHANGED <<process, crashes, threads, registry, backup,
                   expired, overdue, scanStuck, scanWaits>>

(***************************************************************************)
(* scan_and_recover_stuck_runs: both SELECTs, then a commit per row, the   *)
(* stuck runs before the waits.  It runs every two minutes, and once while *)
(* the process starts.                                                     *)
(***************************************************************************)

\* Mutant: only waits with a backup row are found.
LateWaitsAs_backed ==
    {r \in Runs : status[r] = "waiting" /\ age[r] >= WaitTimeout /\ backup[r] # NoRow}

LateWaits == {r \in Runs : status[r] = "waiting" /\ age[r] >= WaitTimeout}

ScanSelect ==
    /\ process = "up" /\ Busy < MaxJobs /\ scanStuck \cup scanWaits = {}
    /\ StuckRuns \cup LateWaits # {}
    /\ scanStuck' = StuckRuns /\ scanWaits' = LateWaits
    /\ UNCHANGED <<process, crashes, rows, threads, registry, backup,
                   expired, overdue, stuck, recovered>>

\* Mutant: one bad row ends the scan.
ScanStuckAs_aborts(r) ==
    /\ process # "down" /\ r \in scanStuck
    /\ IF r \in Bad
       THEN scanStuck' = {} /\ scanWaits' = {} /\ UNCHANGED <<rows, recovered>>
       ELSE /\ Write(r, "failed") /\ recovered' = recovered \cup {r}
            /\ scanStuck' = scanStuck \ {r} /\ UNCHANGED scanWaits
    /\ UNCHANGED <<process, crashes, threads, registry, backup, expired, overdue, stuck>>

ScanStuck(r) ==
    /\ process # "down" /\ r \in scanStuck
    /\ IF r \in Bad
       THEN UNCHANGED <<rows, recovered>>
       ELSE Write(r, "failed") /\ recovered' = recovered \cup {r}
    /\ scanStuck' = scanStuck \ {r}
    /\ UNCHANGED <<process, crashes, threads, registry, backup,
                   expired, overdue, stuck, scanWaits>>

\* move_to_dead_letter: UPDATE ... WHERE status = 'waiting'.
ScanWait(r) ==
    /\ process # "down" /\ scanStuck = {} /\ r \in scanWaits
    /\ IF r \notin Bad /\ status[r] = "waiting"
       THEN Write(r, "dead_letter")
       ELSE UNCHANGED rows
    /\ scanWaits' = scanWaits \ {r}
    /\ UNCHANGED <<process, crashes, threads, registry, backup,
                   expired, overdue, stuck, scanStuck, recovered>>

(***************************************************************************)
(* Crash, restart and the passing of time.                                 *)
(***************************************************************************)

\* Threads, registrations and scans are lost; the rows stay.
Crash ==
    /\ process # "down" /\ crashes < MaxCrashes
    /\ process' = "down" /\ crashes' = crashes + 1
    /\ at' = [r \in Runs |-> "none"] /\ tail' = [r \in Runs |-> "none"]
    /\ callback' = [r \in Runs |-> "none"] /\ queued' = {}
    /\ expired' = {} /\ overdue' = {} /\ stuck' = {}
    /\ scanStuck' = {} /\ scanWaits' = {}
    /\ UNCHANGED <<rows, backup, recovered>>

\* _recover_stuck_runs scans before anything is rehydrated.
Restart ==
    /\ process = "down"
    /\ process' = "boot"
    /\ scanStuck' = StuckRuns /\ scanWaits' = LateWaits
    /\ UNCHANGED <<crashes, rows, threads, registry, backup,
                   expired, overdue, stuck, recovered>>

\* Mutant: every run that ever waited is registered.
RehydrateAs_ended ==
    /\ process = "boot" /\ scanStuck \cup scanWaits = {}
    /\ process' = "up"
    /\ callback' = [r \in Runs |->
         IF status[r] = "waiting" \/ backup[r] # NoRow THEN "rehydrated" ELSE "none"]
    /\ backup' = [r \in Runs |-> IF status[r] = "waiting" THEN Left(r) ELSE backup[r]]
    /\ UNCHANGED <<crashes, rows, threads, queued, scans, recovered>>

\* rehydrate_waiting_flow_runs registers the runs that wait, with a fresh
\* backup row.
Rehydrate ==
    /\ process = "boot" /\ scanStuck \cup scanWaits = {}
    /\ process' = "up"
    /\ callback' = [r \in Runs |->
         IF status[r] = "waiting" THEN "rehydrated" ELSE "none"]
    /\ backup' = [r \in Runs |-> IF status[r] = "waiting" THEN Left(r) ELSE backup[r]]
    /\ UNCHANGED <<crashes, rows, threads, queued, scans, recovered>>

\* A node takes less than the stuck-run threshold, the assumption the
\* threshold makes.
Timely == \A r \in Runs :
    status[r] = "running" /\ at[r] # "none" => age[r] < StuckAfter - 1

Older(r) == IF status[r] \in {"running", "waiting"} /\ age[r] < Horizon
            THEN age[r] + 1 ELSE age[r]

Nearer(left) == IF left \in Nat /\ left > 0 THEN left - 1 ELSE left

Tick ==
    /\ Timely
    /\ age' = [r \in Runs |-> Older(r)]
    /\ backup' = [r \in Runs |-> Nearer(backup[r])]
    /\ UNCHANGED <<process, crashes, status, threads, registry, scans, recovered>>

NodeStep(r) == Advance(r) \/ Finish(r) \/ Dies(r) \/ Wait(r)

ThreadStep(r) ==
    \/ Register(r) \/ PersistEntry(r) \/ PersistMerge(r)
    \/ Resume(r) \/ Claim(r)

ExpiryJobs ==
    \/ ExpireSelect \/ ExpireCommit
    \/ OverdueSelect \/ OverdueCommit
    \/ StuckSelect \/ StuckCommit

Watchdog ==
    \/ ScanSelect
    \/ \E r \in Runs : ScanStuck(r) \/ ScanWait(r)

Next ==
    \/ \E r \in Runs : Start(r) \/ NodeStep(r) \/ ThreadStep(r) \/ Event(r)
    \/ ExpiryJobs \/ Watchdog
    \/ Crash \/ Restart \/ Rehydrate \/ Tick

Spec == Init /\ [][Next]_vars

\* Nodes end, a job that has begun commits, the watchdog fires, a crashed
\* process is restarted and time passes.  Events need not come, and nothing is
\* asked of the expiry jobs' timers.  The watchdog's fires whatever those jobs
\* do: strong fairness makes up for the turns MaxJobs makes it wait for.
FairSpec ==
    /\ Spec
    /\ \A r \in Runs : WF_vars(NodeStep(r))
    /\ WF_vars(ExpireCommit \/ OverdueCommit \/ StuckCommit)
    /\ SF_vars(Watchdog)
    /\ WF_vars(Restart \/ Rehydrate)
    /\ WF_vars(Tick)

-------------------------------------------------------------------------------

\* Types; in particular the max_wait_seconds of a backup row is never negative
\* (persistence.py:45, wait_rehydration.py:71).
TypeOK ==
    /\ process \in {"up", "down", "boot"} /\ crashes \in 0..MaxCrashes
    /\ status \in [Runs -> Statuses] /\ age \in [Runs -> 0..Horizon]
    /\ at \in [Runs -> {"none", "node", "register", "claim",
                        "claimRehydrated", "claimed"}]
    /\ tail \in [Runs -> {"none", "entry", "merge"}]
    /\ callback \in [Runs -> {"none", "own", "rehydrated"}]
    /\ queued \subseteq Runs
    /\ backup \in [Runs -> 0..Horizon \cup {NoRow}]
    /\ expired \subseteq Runs /\ overdue \subseteq Runs /\ stuck \subseteq Runs
    /\ scanStuck \subseteq Runs /\ scanWaits \subseteq Runs
    /\ recovered \subseteq Runs

\* A run that a scan has failed as stuck (recovery_jobs.py:200,
\* stuck_run_service.py:339) stays failed: no thread was executing it, none
\* ever will, and no callback is left that could, although the scans write
\* the rows they selected earlier without looking at them again.
RecoveredStays == \A r \in recovered :
    status[r] = "failed" /\ at[r] = "none" /\ callback[r] = "none"

Over(r) == status[r] \in Ended /\ at[r] = "none" /\ callback[r] = "none"

\* A run that has ended, in whatever way, and has neither thread nor callback
\* left is over: no recovery job, restart or late write makes it live again
\* (the dead letters of RUNBOOK_WAIT_FLOW_DEADLETTER.md:148 among them, once
\* their callback is gone).
OverStaysOver == [][\A r \in Runs : Over(r) => Over(r)']_vars

\* A run that was running when its thread died does not stay "running": a
\* scan fails it, after a restart or not, and although another row of the
\* same scans cannot be written (stuck_run_service.py:15, "one bad row cannot
\* abort the rest of the scan").
RunningSettles == \A r \in Runs \ Bad :
    (status[r] = "running" /\ at[r] = "none") ~> (status[r] # "running")

\* Every wait ends, by its event or by one of the jobs, even if the event
\* never comes, the registration is lost in a crash or the backup row was never
\* written, and although the batch of expire_timed_out_waits is rolled back
\* for ever because of another row.
WaitingSettles == \A r \in Runs \ Bad :
    (status[r] = "waiting") ~> (status[r] # "waiting")

===============================================================================
