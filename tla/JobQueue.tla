------------------------------ MODULE JobQueue ------------------------------
(***************************************************************************)
(* Asynchronous jobs with EXECUTION_MODE=distributed: a JobLog row in the  *)
(* database, a message in Redis (RedisQueueBackend), and worker processes  *)
(* that run process_one_job and a stale-recovery thread.                   *)
(*                                                                         *)
(* Redis operations are atomic one by one; what the code does in several   *)
(* of them is several actions here.  The list is a number of copies per    *)
(* job: its order matters to fairness only.                                *)
(***************************************************************************)
EXTENDS Naturals, FiniteSets, FiniteSetsExt

CONSTANTS
  Jobs, Workers, NoJob,
  MaxAttempts,  \* JobLog.max_attempts
  Capacity,     \* MAX_QUEUE_SIZE
  CleansUp,     \* _cleanup_stale_logs finds jobs older than an hour
  SendersCrash, \* submitting processes may crash too
  MaxCrashes,   \* bound: processes that stop without warning
  MaxFaults     \* bound: Redis or database operations that raise

ASSUME NoJobAssumption == NoJob \notin Jobs
ASSUME KindsAssumption == CleansUp \in BOOLEAN /\ SendersCrash \in BOOLEAN
ASSUME BoundsAssumption == MaxAttempts \in Nat \ {0} /\ Capacity \in Nat
                           /\ MaxCrashes \in Nat /\ MaxFaults \in Nat

VARIABLES
  status,    \* JobLog.status
  attempts,  \* JobLog.attempt_count
  claims,    \* history: how often the job was claimed (up to ClaimsCap)
  sender,    \* thread that has committed the JobLog and still has to enqueue
  list,      \* copies of the job in the main list
  delayed,   \* copies in the delayed sorted set
  inflight,  \* entry of the in-flight hash: none, fresh or past the timeout
  dead,      \* dead letters: TRUE with the payload, FALSE without it
  wk,        \* what the worker's main thread is doing
  snap,      \* stale entries the recovery thread has read
  push,      \* entry the recovery thread has deleted and not yet pushed
  old,       \* pending jobs _cleanup_stale_logs has read and will fail
  drain,     \* the operator's drain_dead_letters: its step and the jobs to send
  crashes, faults

queues == <<list, delayed>>
scan == <<snap, push>>
limits == <<crashes, faults>>
vars == <<status, attempts, claims, sender, list, delayed, inflight, dead, wk, snap, push,
          old, drain, crashes, faults>>

Idle == [pc |-> "idle", job |-> NoJob, full |-> FALSE]
WorkerStates ==
  [pc : {"idle", "track", "claim", "begin", "run", "retry", "ack", "fail", "drop", "bury"},
   job : Jobs \union {NoJob}, full : BOOLEAN]
At(w, pc) == wk[w].pc = pc
Goto(w, pc) == wk' = [wk EXCEPT ![w] = [pc |-> pc, job |-> wk[w].job, full |-> wk[w].full]]
Release(w) == wk' = [wk EXCEPT ![w] = Idle]
More(f, j) == [f EXCEPT ![j] = @ + 1]
Less(f, j) == [f EXCEPT ![j] = @ - 1]
Executing(w, j) == wk[w].pc \in {"begin", "run"} /\ wk[w].job = j

Depth == MapThenSumSet(LAMBDA j : list[j] + delayed[j], Jobs)
Full == Depth >= Capacity

Init ==
  /\ status = [j \in Jobs |-> "absent"]
  /\ attempts = [j \in Jobs |-> 0]
  /\ claims = [j \in Jobs |-> 0]
  /\ sender = [j \in Jobs |-> "none"]
  /\ list = [j \in Jobs |-> 0]
  /\ delayed = [j \in Jobs |-> 0]
  /\ inflight = [j \in Jobs |-> "none"]
  /\ dead = [j \in Jobs |-> {}]
  /\ wk = [w \in Workers |-> Idle]
  /\ snap = [w \in Workers |-> {}]
  /\ push = [w \in Workers |-> NoJob]
  /\ old = {}
  /\ drain = [pc |-> "idle", jobs |-> {}]
  /\ crashes = 0
  /\ faults = 0

Fault == faults < MaxFaults /\ faults' = faults + 1 /\ UNCHANGED crashes

-----------------------------------------------------------------------------
(* Submission *)

\* submit_async_job: refused when the queue is saturated, otherwise the JobLog
\* is committed; the message is sent later.
Submit(j) ==
  /\ status[j] = "absent"
  /\ ~Full
  /\ status' = [status EXCEPT ![j] = "pending"]
  /\ sender' = [sender EXCEPT ![j] = "submit"]
  /\ UNCHANGED <<attempts, claims, queues, inflight, dead, wk, scan, limits, drain, old>>

\* defer_async_job.
Defer(j) ==
  /\ status[j] = "absent"
  /\ status' = [status EXCEPT ![j] = "deferred"]
  /\ UNCHANGED <<attempts, claims, sender, queues, inflight, dead, wk, scan, limits, drain, old>>

\* process_deferred_jobs, on the scheduler leader: the job is dropped, or made
\* pending and sent (deferring it again changes nothing here).
ProcessDeferred(j) ==
  /\ status[j] = "deferred"
  /\ \/ /\ status' = [status EXCEPT ![j] = "ignored"]
        /\ UNCHANGED sender
     \/ /\ status' = [status EXCEPT ![j] = "pending"]
        /\ sender' = [sender EXCEPT ![j] = "deferred"]
  /\ UNCHANGED <<attempts, claims, queues, inflight, dead, wk, scan, limits, drain, old>>

\* RedisQueueBackend.enqueue from _enqueue_distributed.  A full queue raises:
\* submit_async_job goes on in its except clause, process_deferred_jobs does not
\* mark the job failed.
Enqueue(j) ==
  /\ sender[j] \in {"submit", "deferred"}
  /\ sender' = [sender EXCEPT ![j] = IF Full /\ @ = "submit" THEN "raised" ELSE "none"]
  /\ list' = IF Full THEN list ELSE More(list, j)
  /\ UNCHANGED <<status, attempts, claims, delayed, inflight, dead, wk, scan, limits, drain, old>>

\* The Redis call raises, with or without the push having taken effect; or its
\* reply is lost and _redis_retry pushes a second time.
EnqueueError(j) ==
  /\ sender[j] \in {"submit", "deferred"}
  /\ Fault
  /\ \/ /\ list' \in {list, More(list, j)}
        /\ sender' = [sender EXCEPT ![j] = IF @ = "submit" THEN "raised" ELSE "none"]
     \/ /\ list' = More(More(list, j), j)
        /\ sender' = [sender EXCEPT ![j] = "none"]
  /\ UNCHANGED <<status, attempts, claims, delayed, inflight, dead, wk, scan, drain, old>>

\* The except clause of submit_async_job marks the job failed, whatever a worker
\* has made of it by then.
SubmitFails(j) ==
  /\ sender[j] = "raised"
  /\ status' = [status EXCEPT ![j] = "failed"]
  /\ sender' = [sender EXCEPT ![j] = "none"]
  /\ UNCHANGED <<attempts, claims, queues, inflight, dead, wk, scan, limits, drain, old>>

-----------------------------------------------------------------------------
(* process_one_job *)

\* BRPOP.
Dequeue(w, j) ==
  /\ At(w, "idle")
  /\ list[j] > 0
  /\ list' = Less(list, j)
  /\ wk' = [wk EXCEPT ![w] = [pc |-> "track", job |-> j, full |-> FALSE]]
  /\ UNCHANGED <<status, attempts, claims, sender, delayed, inflight, dead, scan, limits, drain, old>>

\* HSET of the in-flight entry, under the job id.
Track(w) ==
  /\ At(w, "track")
  /\ inflight' = [inflight EXCEPT ![wk[w].job] = "fresh"]
  /\ Goto(w, "claim")
  /\ UNCHANGED <<status, attempts, claims, sender, queues, dead, scan, limits, drain, old>>

\* The HSET raises: the loop logs the error and goes on with the next job.
TrackError(w) ==
  /\ At(w, "track")
  /\ Fault
  /\ Release(w)
  /\ UNCHANGED <<status, attempts, claims, sender, queues, inflight, dead, scan, drain, old>>

ClaimsCap == MaxAttempts + MaxFaults + 1
Counted(j) == [claims EXCEPT ![j] = IF @ = ClaimsCap THEN @ ELSE @ + 1]

\* Mutant: the UPDATE loses its WHERE status = 'pending'.
ClaimAs_unguarded(w) ==
  /\ At(w, "claim")
  /\ status' = [status EXCEPT ![wk[w].job] = "running"]
  /\ claims' = Counted(wk[w].job)
  /\ Goto(w, "begin")
  /\ UNCHANGED <<attempts, sender, queues, inflight, dead, scan, limits, drain, old>>

\* _try_claim_job: UPDATE ... WHERE status = 'pending'; the loser acks.
Claim(w) ==
  LET j == wk[w].job
      won == status[j] = "pending"
  IN
  /\ At(w, "claim")
  /\ status' = [status EXCEPT ![j] = IF won THEN "running" ELSE @]
  /\ claims' = IF won THEN Counted(j) ELSE claims
  /\ Goto(w, IF won THEN "begin" ELSE "ack")
  /\ UNCHANGED <<attempts, sender, queues, inflight, dead, scan, limits, drain, old>>

\* The UPDATE raises: _try_claim_job returns False, and the job is acked.
ClaimError(w) ==
  /\ At(w, "claim")
  /\ Fault
  /\ Goto(w, "ack")
  /\ UNCHANGED <<status, attempts, claims, sender, queues, inflight, dead, scan, drain, old>>

\* A worker that is told to stop while it waits for a concurrency slot puts the
\* job back, and leaves the in-flight entry.
ShutdownRequeue(w) ==
  /\ At(w, "claim")
  /\ crashes < MaxCrashes
  /\ crashes' = crashes + 1
  /\ list' = IF Full THEN list ELSE More(list, wk[w].job)
  /\ Release(w)
  /\ UNCHANGED <<status, attempts, claims, sender, delayed, inflight, dead, scan, faults, drain, old>>

\* _execute_job_inline up to the handler: the attempt is counted and committed.
Begin(w) ==
  LET j == wk[w].job IN
  /\ At(w, "begin")
  /\ status' = [status EXCEPT ![j] = "running"]
  /\ attempts' = More(attempts, j)
  /\ Goto(w, "run")
  /\ UNCHANGED <<claims, sender, queues, inflight, dead, scan, limits, drain, old>>

\* _fetch_job_data raises: the claimed job is dead-lettered and stays "running".
FetchError(w) ==
  /\ At(w, "begin")
  /\ Fault
  /\ Goto(w, "fail")
  /\ UNCHANGED <<status, attempts, claims, sender, queues, inflight, dead, scan, drain, old>>

\* The "started" event cannot be persisted: emit_system_event rolls the session
\* back, and the count with it; the error is logged and the handler runs.
BeginError(w) ==
  /\ At(w, "begin")
  /\ Fault
  /\ Goto(w, "run")
  /\ UNCHANGED <<status, attempts, claims, sender, queues, inflight, dead, scan, drain, old>>

\* The except clause: the job is pending again while attempts are left.
AfterFailure(w, again) ==
  /\ status' = [status EXCEPT ![wk[w].job] = IF again THEN "pending" ELSE "failed"]
  /\ Goto(w, IF again THEN "retry" ELSE "ack")

\* A task name that is not in _JOB_REGISTRY raises before the attempt is counted
\* (a fault: the worker did not load the module that registers the handler).
NoHandler(w) ==
  /\ At(w, "begin")
  /\ Fault
  /\ AfterFailure(w, attempts[wk[w].job] < MaxAttempts)
  /\ UNCHANGED <<attempts, claims, sender, queues, inflight, dead, scan, drain, old>>

\* The handler returns.
Succeed(w) ==
  /\ At(w, "run")
  /\ status' = [status EXCEPT ![wk[w].job] = "success"]
  /\ Goto(w, "ack")
  /\ UNCHANGED <<attempts, claims, sender, queues, inflight, dead, scan, limits, drain, old>>

\* The event after the handler cannot be persisted: the rollback undoes the
\* final status, and the job is acked as "running".
ResultLost(w) ==
  /\ At(w, "run")
  /\ Fault
  /\ Goto(w, "ack")
  /\ UNCHANGED <<status, attempts, claims, sender, queues, inflight, dead, scan, drain, old>>

\* Mutant: one attempt more than max_attempts.
HandlerFailsAs_offByOne(w) ==
  /\ At(w, "run")
  /\ AfterFailure(w, attempts[wk[w].job] <= MaxAttempts)
  /\ UNCHANGED <<attempts, claims, sender, queues, inflight, dead, scan, limits, drain, old>>

\* Mutant: a failed job is left pending although nothing is sent again.
HandlerFailsAs_pending(w) ==
  /\ At(w, "run")
  /\ status' = [status EXCEPT ![wk[w].job] = "pending"]
  /\ Goto(w, IF attempts[wk[w].job] < MaxAttempts THEN "retry" ELSE "ack")
  /\ UNCHANGED <<attempts, claims, sender, queues, inflight, dead, scan, limits, drain, old>>

\* The handler raises.
HandlerFails(w) ==
  /\ At(w, "run")
  /\ AfterFailure(w, attempts[wk[w].job] < MaxAttempts)
  /\ UNCHANGED <<attempts, claims, sender, queues, inflight, dead, scan, limits, drain, old>>

\* The retry is sent with enqueue_delayed; a full queue raises, and the
\* exception reaches process_one_job.
Retry(w) ==
  /\ At(w, "retry")
  /\ delayed' = IF Full THEN delayed ELSE More(delayed, wk[w].job)
  /\ Goto(w, IF Full THEN "fail" ELSE "ack")
  /\ UNCHANGED <<status, attempts, claims, sender, list, inflight, dead, scan, limits, drain, old>>

\* enqueue_delayed raises, with or without effect.
RetryError(w) ==
  /\ At(w, "retry")
  /\ Fault
  /\ delayed' \in {delayed, More(delayed, wk[w].job)}
  /\ Goto(w, "fail")
  /\ UNCHANGED <<status, attempts, claims, sender, list, inflight, dead, scan, drain, old>>

\* ack: HDEL by job id.
Ack(w) ==
  /\ At(w, "ack")
  /\ inflight' = [inflight EXCEPT ![wk[w].job] = "none"]
  /\ Release(w)
  /\ UNCHANGED <<status, attempts, claims, sender, queues, dead, scan, limits, drain, old>>

\* The HDEL, or the metrics read after it, raises: the exception handler
\* dead-letters the job.
AckError(w) ==
  /\ At(w, "ack")
  /\ Fault
  /\ inflight' \in {inflight, [inflight EXCEPT ![wk[w].job] = "none"]}
  /\ Goto(w, "fail")
  /\ UNCHANGED <<status, attempts, claims, sender, queues, dead, scan, drain, old>>

\* fail: HGET of the payload ...
FailRead(w) ==
  /\ At(w, "fail")
  /\ wk' = [wk EXCEPT ![w] = [pc |-> "drop", job |-> wk[w].job,
                              full |-> inflight[wk[w].job] # "none"]]
  /\ UNCHANGED <<status, attempts, claims, sender, queues, inflight, dead, scan, limits, drain, old>>

\* ... HDEL ...
FailDrop(w) ==
  /\ At(w, "drop")
  /\ inflight' = [inflight EXCEPT ![wk[w].job] = "none"]
  /\ Goto(w, "bury")
  /\ UNCHANGED <<status, attempts, claims, sender, queues, dead, scan, limits, drain, old>>

\* ... and LPUSH of the dead letter.
FailBury(w) ==
  /\ At(w, "bury")
  /\ dead' = [dead EXCEPT ![wk[w].job] = @ \union {wk[w].full}]
  /\ Release(w)
  /\ UNCHANGED <<status, attempts, claims, sender, queues, inflight, scan, limits, drain, old>>

\* A call of fail raises: the worker loop logs it and goes on.
FailError(w) ==
  /\ At(w, "fail") \/ At(w, "bury")
  /\ Fault
  /\ Release(w)
  /\ UNCHANGED <<status, attempts, claims, sender, queues, inflight, dead, scan, drain, old>>

-----------------------------------------------------------------------------
(* Delayed jobs, stale jobs, dead letters *)

\* process_delayed_jobs, on the scheduler leader: one Lua script.
Promote(j) ==
  /\ delayed[j] > 0
  /\ delayed' = Less(delayed, j)
  /\ list' = More(list, j)
  /\ UNCHANGED <<status, attempts, claims, sender, inflight, dead, wk, scan, limits, drain, old>>

\* The visibility timeout of an in-flight entry elapses.
Age(j) ==
  /\ inflight[j] = "fresh"
  /\ inflight' = [inflight EXCEPT ![j] = "stale"]
  /\ UNCHANGED <<status, attempts, claims, sender, queues, dead, wk, scan, limits, drain, old>>

\* requeue_stale_jobs: HGETALL ...
ScanRead(w) ==
  LET stale == {j \in Jobs : inflight[j] = "stale"} IN
  /\ snap[w] = {}
  /\ push[w] = NoJob
  /\ stale # {}
  /\ snap' = [snap EXCEPT ![w] = stale]
  /\ UNCHANGED <<status, attempts, claims, sender, queues, inflight, dead, wk, push, limits, drain, old>>

\* ... for each stale entry HDEL, which skips the job when it removed nothing ...
ScanDelete(w, j) ==
  /\ j \in snap[w]
  /\ push[w] = NoJob
  /\ snap' = [snap EXCEPT ![w] = @ \ {j}]
  /\ push' = [push EXCEPT ![w] = IF inflight[j] # "none" THEN j ELSE NoJob]
  /\ inflight' = [inflight EXCEPT ![j] = "none"]
  /\ UNCHANGED <<status, attempts, claims, sender, queues, dead, wk, limits, drain, old>>

\* ... and LPUSH, which ignores the capacity.
ScanPush(w) ==
  /\ push[w] # NoJob
  /\ list' = More(list, push[w])
  /\ push' = [push EXCEPT ![w] = NoJob]
  /\ UNCHANGED <<status, attempts, claims, sender, delayed, inflight, dead, wk, snap, limits, drain, old>>

\* The LPUSH raises, or the HDEL was retried after a lost reply and reports that
\* it removed nothing.
ScanError(w) ==
  /\ push[w] # NoJob
  /\ Fault
  /\ push' = [push EXCEPT ![w] = NoJob]
  /\ UNCHANGED <<status, attempts, claims, sender, queues, inflight, dead, wk, snap, drain, old>>

\* drain_dead_letters(requeue=True) by an operator: LRANGE of the letters ...
DrainPeek ==
  /\ drain.pc = "idle"
  /\ \E j \in Jobs : dead[j] # {}
  /\ drain' = [pc |-> "trim", jobs |-> {j \in Jobs : TRUE \in dead[j]}]
  /\ UNCHANGED <<status, attempts, claims, sender, queues, inflight, dead, wk, scan, limits, old>>

\* ... LTRIM of max_items letters, which is more than there are ...
DrainTrim ==
  /\ drain.pc = "trim"
  /\ dead' = [j \in Jobs |-> {}]
  /\ drain' = [pc |-> IF drain.jobs = {} THEN "idle" ELSE "send", jobs |-> drain.jobs]
  /\ UNCHANGED <<status, attempts, claims, sender, queues, inflight, wk, scan, limits, old>>

\* ... and enqueue, which may raise, of those that have a payload.
DrainSend(j) ==
  LET left == drain.jobs \ {j} IN
  /\ drain.pc = "send"
  /\ j \in drain.jobs
  /\ list' = IF Full THEN list ELSE More(list, j)
  /\ drain' = [pc |-> IF left = {} THEN "idle" ELSE "send", jobs |-> left]
  /\ UNCHANGED <<status, attempts, claims, sender, delayed, inflight, dead, wk, scan, limits, old>>

\* _cleanup_stale_logs, on the scheduler leader: SELECT of the pending rows ...
CleanupRead ==
  /\ CleansUp
  /\ old = {}
  /\ old' = {j \in Jobs : status[j] = "pending"}
  /\ old' # {}
  /\ UNCHANGED <<status, attempts, claims, sender, queues, inflight, dead, wk, scan, limits, drain>>

\* ... and commit of UPDATEs by primary key.
CleanupWrite ==
  /\ old # {}
  /\ status' = [j \in Jobs |-> IF j \in old THEN "failed" ELSE status[j]]
  /\ old' = {}
  /\ UNCHANGED <<attempts, claims, sender, queues, inflight, dead, wk, scan, limits, drain>>

\* A worker process stops without warning, in both of its threads.
Crash(w) ==
  /\ crashes < MaxCrashes
  /\ wk[w] # Idle \/ push[w] # NoJob \/ snap[w] # {}
  /\ crashes' = crashes + 1
  /\ Release(w)
  /\ snap' = [snap EXCEPT ![w] = {}]
  /\ push' = [push EXCEPT ![w] = NoJob]
  /\ UNCHANGED <<status, attempts, claims, sender, queues, inflight, dead, faults, drain, old>>

\* The process that submits a job stops without warning.
SenderCrash(j) ==
  /\ SendersCrash
  /\ crashes < MaxCrashes
  /\ sender[j] # "none"
  /\ crashes' = crashes + 1
  /\ sender' = [sender EXCEPT ![j] = "none"]
  /\ UNCHANGED <<status, attempts, claims, queues, inflight, dead, wk, scan, faults, drain, old>>

-----------------------------------------------------------------------------
\* What process_one_job does after the dequeue.
WorkerStep(w) ==
  \/ Track(w) \/ Claim(w) \/ Begin(w) \/ NoHandler(w) \/ Succeed(w) \/ HandlerFails(w) \/ Retry(w)
  \/ Ack(w) \/ FailRead(w) \/ FailDrop(w) \/ FailBury(w)

\* A call that a worker process makes to Redis or to the database raises.
WorkerFault(w) ==
  \/ TrackError(w) \/ ClaimError(w) \/ FetchError(w) \/ BeginError(w) \/ ResultLost(w)
  \/ RetryError(w) \/ AckError(w) \/ FailError(w) \/ ScanError(w)

Next ==
  \/ \E j \in Jobs : \/ Submit(j) \/ Defer(j) \/ ProcessDeferred(j) \/ Enqueue(j)
                     \/ EnqueueError(j) \/ SubmitFails(j) \/ Promote(j) \/ Age(j)
                     \/ DrainSend(j) \/ SenderCrash(j)
  \/ \E w \in Workers : \/ WorkerStep(w) \/ WorkerFault(w) \/ ShutdownRequeue(w)
                        \/ ScanRead(w) \/ ScanPush(w) \/ Crash(w)
  \/ \E w \in Workers, j \in Jobs : Dequeue(w, j) \/ ScanDelete(w, j)
  \/ DrainPeek \/ DrainTrim \/ CleanupRead \/ CleanupWrite

Spec == Init /\ [][Next]_vars

\* Senders, workers and recovery threads keep running, handlers return, the
\* leader promotes delayed jobs, and the list is first in, first out, so that
\* a job at its tail is popped in the end.
Fairness ==
  /\ \A j \in Jobs : /\ WF_vars(Enqueue(j)) /\ WF_vars(SubmitFails(j))
                     /\ WF_vars(Promote(j)) /\ WF_vars(Age(j))
                     /\ SF_vars(\E w \in Workers : Dequeue(w, j))
  /\ \A w \in Workers : /\ WF_vars(WorkerStep(w)) /\ WF_vars(ScanRead(w)) /\ WF_vars(ScanPush(w))
                        /\ WF_vars(\E j \in Jobs : ScanDelete(w, j))

FairSpec == Spec /\ Fairness

-----------------------------------------------------------------------------
\* Type invariant of the rows, of the Redis structures and of the threads.
TypeOK ==
  /\ status \in [Jobs -> {"absent", "deferred", "ignored", "pending", "running",
                          "success", "failed"}]
  /\ attempts \in [Jobs -> 0..MaxAttempts]
  /\ claims \in [Jobs -> 0..ClaimsCap]
  /\ sender \in [Jobs -> {"none", "submit", "deferred", "raised"}]
  /\ list \in [Jobs -> Nat]
  /\ delayed \in [Jobs -> Nat]
  /\ inflight \in [Jobs -> {"none", "fresh", "stale"}]
  /\ dead \in [Jobs -> SUBSET BOOLEAN]
  /\ wk \in [Workers -> WorkerStates]
  /\ \A w \in Workers : wk[w].pc # "idle" => wk[w].job \in Jobs
  /\ snap \in [Workers -> SUBSET Jobs]
  /\ push \in [Workers -> Jobs \union {NoJob}]
  /\ old \subseteq Jobs
  /\ drain \in [pc : {"idle", "trim", "send"}, jobs : SUBSET Jobs]
  /\ crashes \in 0..MaxCrashes
  /\ faults \in 0..MaxFaults

\* No two workers execute one job, whatever the stale-recovery threads, the
\* retries and the operator put back into the list: _try_claim_job calls itself
\* the primary guard against duplicate execution.
AtMostOneExecution ==
  \A j \in Jobs : \A v, w \in Workers : Executing(v, j) /\ Executing(w, j) => v = w

\* No job is claimed, and so its handler started, more often than max_attempts,
\* however many copies of it are delivered; a call that raises can hide one
\* attempt from the count, and no more than one.
ClaimsBounded == \A j \in Jobs : claims[j] <= MaxAttempts + faults

\* A job that is done stays done: a duplicate delivery never brings a succeeded
\* job back, and a failed one is never executed again.
DoneStaysDone ==
  [][\A j \in Jobs : status[j] \in {"success", "failed"} => status'[j] = status[j]]_vars

\* The row and the threads as the abstract ledger of jobs sees them.
LedgerPhase(s) ==
  IF s \in {"absent", "deferred"} THEN "new"
  ELSE IF s = "pending" THEN "open" ELSE IF s = "running" THEN "held" ELSE "over"
LedgerPhases == [j \in Jobs |-> LedgerPhase(status[j])]
LedgerHolders == [j \in Jobs |-> {w \in Workers : Executing(w, j)}]
Ledger == INSTANCE JobLedger
  WITH phase <- LedgerPhases, holders <- LedgerHolders, taken <- claims,
       Limit <- MaxAttempts + MaxFaults

\* The queue implements the ledger of jobs: a job is taken from pending only, by
\* one worker, at most max_attempts times, and is over when its row says so.
ImplementsJobLedger == Ledger!Spec

\* Somewhere there is still a copy of the job that a worker, a recovery thread
\* or an operator will act on.
HasCopy(j) ==
  \/ sender[j] # "none"
  \/ list[j] > 0 \/ delayed[j] > 0 \/ inflight[j] # "none" \/ dead[j] # {}
  \/ \E w \in Workers : wk[w].job = j /\ ~At(w, "ack")
  \/ \E w \in Workers : push[w] = j
  \/ j \in drain.jobs

\* A pending job is always on its way: in the list, delayed, in flight, dead
\* lettered, or in the hands of a thread that will put it there.
PendingHasCopy == \A j \in Jobs : status[j] = "pending" => HasCopy(j)

\* The job is marked running and no worker executes it.
Abandoned(j) == status[j] = "running" /\ \A w \in Workers : ~Executing(w, j)

\* requeue_stale_jobs recovers the job of a worker that crashed before ack or
\* fail: such a job does not stay marked running for ever.
CrashedJobRecovered == \A j \in Jobs : Abandoned(j) ~> ~Abandoned(j)

\* A job that was accepted is executed to its last attempt or dead lettered, when
\* nothing crashes or raises outside its handler.
JobSettles ==
  \A j \in Jobs :
    status[j] = "pending" ~> (status[j] \in {"success", "failed"} \/ dead[j] # {})

=============================================================================
