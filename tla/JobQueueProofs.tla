--------------------------- MODULE JobQueueProofs ---------------------------
(***************************************************************************)
(* Proofs about JobQueue, for every number of jobs, workers, crashes and   *)
(* faults.  They rest on one distinction.  Most steps are quiet: they make *)
(* no worker an executor, bring no closed job back and count nothing.      *)
(* Only Claim, Begin and the two failures of an execution (Execution) are  *)
(* not.                                                                    *)
(***************************************************************************)
EXTENDS JobQueue, TLAPS

Statuses == {"absent", "deferred", "ignored", "pending", "running", "success", "failed"}
Pcs == {"idle", "track", "claim", "begin", "run", "retry", "ack", "fail", "drop", "bury"}
Open == {"absent", "deferred", "pending"}
Fetching(w, j) == wk[w].pc = "begin" /\ wk[w].job = j

ThreadsOK ==
  /\ wk \in [Workers -> WorkerStates]
  /\ \A w \in Workers : wk[w].pc # "idle" => wk[w].job \in Jobs

RowsOK ==
  /\ status \in [Jobs -> Statuses]
  /\ attempts \in [Jobs -> Nat]
  /\ claims \in [Jobs -> 0..ClaimsCap]

RedisOK ==
  /\ sender \in [Jobs -> {"none", "submit", "deferred", "raised"}]
  /\ list \in [Jobs -> Nat]
  /\ delayed \in [Jobs -> Nat]
  /\ inflight \in [Jobs -> {"none", "fresh", "stale"}]
  /\ dead \in [Jobs -> SUBSET BOOLEAN]
  /\ snap \in [Workers -> SUBSET Jobs]
  /\ push \in [Workers -> Jobs \union {NoJob}]
  /\ old \subseteq Jobs
  /\ drain \in [pc : {"idle", "trim", "send"}, jobs : SUBSET Jobs]

LimitsOK == crashes \in 0..MaxCrashes /\ faults \in 0..MaxFaults

\* The executor of a job is alone, and the job is not open to another claim.
OneHolder ==
  \A j \in Jobs : \A w \in Workers :
     Executing(w, j) => status[j] \notin Open /\ \A v \in Workers : Executing(v, j) => v = w

\* A job that is open, or claimed and not yet begun, has an attempt left.
HasAttempt(j) ==
  /\ attempts[j] <= MaxAttempts
  /\ status[j] \in Open => attempts[j] < MaxAttempts
  /\ \A w \in Workers : Fetching(w, j) => attempts[j] < MaxAttempts
AttemptsLeft == \A j \in Jobs : HasAttempt(j)

\* The claims of a job are its attempts, one more between Claim and Begin, and
\* at most one more for each call that raised.
ClaimsMatch(j) ==
  /\ claims[j] <= MaxAttempts + faults
  /\ status[j] \in Open => claims[j] <= attempts[j] + faults
  /\ \A w \in Workers : Executing(w, j) =>
        claims[j] <= (IF Fetching(w, j) THEN attempts[j] + 1 ELSE attempts[j]) + faults
ClaimsCounted == \A j \in Jobs : ClaimsMatch(j)

Execution(w) == Claim(w) \/ Begin(w) \/ BeginError(w) \/ NoHandler(w) \/ HandlerFails(w)

Quiet ==
  /\ attempts' = attempts
  /\ claims' = claims
  /\ \A j \in Jobs : status'[j] \in Open => status[j] \in Open
  /\ \A w \in Workers : wk'[w].pc \in {"begin", "run"} => wk'[w] = wk[w]

-----------------------------------------------------------------------------
\* Goto, Release and the other assignments to wk keep the threads well formed.
LEMMA GotoOK ==
  ASSUME ThreadsOK, NEW w \in Workers, wk[w].pc # "idle", NEW pc \in Pcs \ {"idle"}, Goto(w, pc)
  PROVE  /\ ThreadsOK'
         /\ wk'[w] = [pc |-> pc, job |-> wk[w].job, full |-> wk[w].full]
         /\ \A v \in Workers \ {w} : wk'[v] = wk[v]
  BY DEF ThreadsOK, WorkerStates, Goto, Pcs

\* A worker that is released is idle and the others are as they were.
LEMMA ReleaseOK ==
  ASSUME ThreadsOK, NEW w \in Workers, Release(w)
  PROVE  /\ ThreadsOK'
         /\ wk'[w] = Idle
         /\ \A v \in Workers \ {w} : wk'[v] = wk[v]
  BY DEF ThreadsOK, WorkerStates, Release, Idle

\* The same for the fields of the worker.
LEMMA GotoFields ==
  ASSUME ThreadsOK, NEW w \in Workers, wk[w].pc # "idle", NEW pc \in Pcs \ {"idle"}, Goto(w, pc)
  PROVE  /\ wk'[w].pc = pc /\ wk'[w].job = wk[w].job
         /\ \A v \in Workers \ {w} : wk'[v] = wk[v]
  BY DEF ThreadsOK, WorkerStates, Goto, Pcs

LEMMA ReleaseFields ==
  ASSUME ThreadsOK, NEW w \in Workers, Release(w)
  PROVE  wk'[w].pc = "idle" /\ \A v \in Workers \ {w} : wk'[v] = wk[v]
  BY DEF ThreadsOK, WorkerStates, Release, Idle

\* A copy that is added is there, and the copies of the other jobs are as they were.
LEMMA MoreOK ==
  ASSUME NEW f \in [Jobs -> Nat], NEW j \in Jobs
  PROVE  More(f, j)[j] > 0 /\ \A i \in Jobs \ {j} : More(f, j)[i] = f[i]
  BY DEF More

LEMMA ZeroOrMore == ~(0 > 0) /\ \A n \in Nat : n + 1 # n
  OBVIOUS

\* The names of the program counters of a worker.
LEMMA PcNames ==
  /\ {"track", "claim", "begin", "run", "retry", "ack", "fail", "drop", "bury"} = Pcs \ {"idle"}
  /\ "idle" \in Pcs
  BY DEF Pcs

\* Every action other than the four of an execution is quiet.
LEMMA QuietSteps ==
  ASSUME ThreadsOK, RowsOK, [Next]_vars
  PROVE  /\ ThreadsOK'
         /\ \/ Quiet
            \/ \E w \in Workers : Execution(w)
<1> USE DEF RowsOK, Quiet, Open, Statuses
<1> DEFINE Threads == ThreadsOK' /\ \A w \in Workers : wk'[w].pc \in {"begin", "run"} => wk'[w] = wk[w]
<1>0. ASSUME wk' = wk PROVE Threads
  BY <1>0 DEF ThreadsOK
<1>1. ASSUME NEW w \in Workers, wk[w].pc # "idle",
             NEW pc \in Pcs \ {"idle", "begin", "run"}, Goto(w, pc)
      PROVE  Threads
  <2>1. /\ ThreadsOK'
        /\ wk'[w] = [pc |-> pc, job |-> wk[w].job, full |-> wk[w].full]
        /\ \A v \in Workers \ {w} : wk'[v] = wk[v]
    BY <1>1, GotoOK
  <2>2. wk'[w].pc = pc /\ pc \notin {"begin", "run"}
    BY <2>1
  <2> QED BY <2>1, <2>2
<1>2. ASSUME NEW w \in Workers, Release(w) PROVE Threads
  BY <1>2, ReleaseOK DEF Idle
<1>3. ASSUME NEW w \in Workers, NEW j \in Jobs, NEW pc \in Pcs \ {"idle", "begin", "run"}, NEW b \in BOOLEAN,
             wk' = [wk EXCEPT ![w] = [pc |-> pc, job |-> j, full |-> b]]
      PROVE  Threads
  BY <1>3 DEF ThreadsOK, WorkerStates, Pcs
<1> HIDE DEF Threads
<1>4. Threads => ThreadsOK' /\ \A w \in Workers : wk'[w].pc \in {"begin", "run"} => wk'[w] = wk[w]
  BY DEF Threads
<1>5. CASE UNCHANGED vars
  BY <1>0, <1>4, <1>5 DEF vars
<1>6. ASSUME NEW j \in Jobs,
             \/ Submit(j) \/ Defer(j) \/ ProcessDeferred(j) \/ Enqueue(j) \/ EnqueueError(j)
             \/ SubmitFails(j)
             \/ Promote(j) \/ Age(j) \/ DrainSend(j) \/ SenderCrash(j)
      PROVE  Threads /\ Quiet
  <2>1. wk' = wk /\ attempts' = attempts /\ claims' = claims
    BY <1>6 DEF Submit, Defer, ProcessDeferred, Enqueue, EnqueueError, SubmitFails, Promote, Age, DrainSend, SenderCrash
  <2>2. \A i \in Jobs : status'[i] \in Open => status[i] \in Open
    BY <1>6 DEF Submit, Defer, ProcessDeferred, Enqueue, EnqueueError, SubmitFails, Promote, Age, DrainSend, SenderCrash
  <2> QED BY <2>1, <2>2, <1>0
<1>7. ASSUME DrainPeek \/ DrainTrim \/ CleanupRead \/ CleanupWrite
      PROVE  Threads /\ Quiet
  <2>1. wk' = wk /\ attempts' = attempts /\ claims' = claims
    BY Zenon, <1>7 DEF DrainPeek, DrainTrim, CleanupRead, CleanupWrite
  <2>2. \A i \in Jobs : status'[i] \in Open => status[i] \in Open
    BY Zenon, <1>7 DEF DrainPeek, DrainTrim, CleanupRead, CleanupWrite
  <2> QED BY <2>1, <2>2, <1>0
<1>8. ASSUME NEW w \in Workers, NEW j \in Jobs, Dequeue(w, j) \/ ScanDelete(w, j)
      PROVE  Threads /\ Quiet
  <2>1. CASE Dequeue(w, j)
    <3>1. Threads
      BY Zenon, <2>1, <1>3 DEF Dequeue, Pcs
    <3> QED BY <2>1, <3>1, <1>4 DEF Dequeue
  <2>2. CASE ScanDelete(w, j)
    BY <2>2, <1>0, <1>4 DEF ScanDelete
  <2> QED BY <1>8, <2>1, <2>2
<1>9. ASSUME NEW w \in Workers,
             \/ Track(w) \/ Succeed(w) \/ Retry(w) \/ Ack(w) \/ FailRead(w) \/ FailDrop(w) \/ FailBury(w)
             \/ TrackError(w) \/ ClaimError(w) \/ FetchError(w) \/ ResultLost(w) \/ RetryError(w)
             \/ AckError(w) \/ FailError(w) \/ ScanError(w) \/ ShutdownRequeue(w)
             \/ ScanRead(w) \/ ScanPush(w) \/ Crash(w)
      PROVE  Threads /\ Quiet
  <2>1. Threads
    <3>1. CASE Track(w) \/ Succeed(w) \/ Retry(w) \/ FailDrop(w) \/ ClaimError(w) \/ AckError(w)
               \/ FetchError(w) \/ ResultLost(w) \/ RetryError(w)
      BY <3>1, <1>1 DEF Track, Succeed, Retry, FailDrop, ClaimError, AckError, FetchError,
                        ResultLost, RetryError, At, Pcs
    <3>2. CASE Ack(w) \/ FailBury(w) \/ TrackError(w) \/ FailError(w) \/ ShutdownRequeue(w) \/ Crash(w)
      BY <3>2, <1>2 DEF Ack, FailBury, TrackError, FailError, ShutdownRequeue, Crash
    <3>3. CASE FailRead(w)
      <4>1. wk[w].job \in Jobs /\ (inflight[wk[w].job] # "none") \in BOOLEAN
        BY <3>3 DEF FailRead, At, ThreadsOK
      <4> QED BY Zenon, <3>3, <4>1, <1>3 DEF FailRead, Pcs
    <3>4. CASE ScanRead(w) \/ ScanPush(w) \/ ScanError(w)
      BY Zenon, <3>4, <1>0 DEF ScanRead, ScanPush, ScanError
    <3> QED BY Zenon, <1>9, <3>1, <3>2, <3>3, <3>4
  <2>2. attempts' = attempts /\ claims' = claims
    BY Zenon, <1>9 DEF Track, Succeed, Retry, Ack, FailRead, FailDrop, FailBury, TrackError, ClaimError,
                AckError, ShutdownRequeue, ScanRead, ScanPush, Crash, FetchError, ResultLost,
                RetryError, FailError, ScanError
  <2>3. \A i \in Jobs : status'[i] \in Open => status[i] \in Open
    BY <1>9 DEF Track, Succeed, Retry, Ack, FailRead, FailDrop, FailBury, TrackError, ClaimError,
                AckError, ShutdownRequeue, ScanRead, ScanPush, Crash, FetchError, ResultLost,
                RetryError, FailError, ScanError
  <2> QED BY <2>1, <2>2, <2>3, <1>4
<1>10. ASSUME NEW w \in Workers, Execution(w)
       PROVE  ThreadsOK'
  BY Zenon, <1>10, GotoOK DEF Execution, Claim, Begin, BeginError, NoHandler, HandlerFails, AfterFailure, At, Pcs
<1> QED
  BY <1>4, <1>5, <1>6, <1>7, <1>8, <1>9, <1>10 DEF Next, WorkerStep, WorkerFault, Execution

-----------------------------------------------------------------------------
(* One executor at a time *)

\* A quiet step leaves the executor of a job alone with it.
LEMMA QuietHolder ==
  ASSUME OneHolder, Quiet
  PROVE  OneHolder'
  BY DEF OneHolder, Quiet, Executing

\* The claim, the beginning and the failures of an execution do so too: Claim
\* finds the row pending, so nobody executes the job.
LEMMA HolderSteps ==
  ASSUME ThreadsOK, RowsOK, OneHolder, NEW w \in Workers,
         Execution(w)
  PROVE  OneHolder'
<1>0. wk[w].job \in Jobs /\ wk[w].pc # "idle"
  BY DEF Execution, ThreadsOK, Claim, Begin, BeginError, NoHandler, HandlerFails, At
<1> DEFINE i == wk[w].job
<1>1. CASE Claim(w) /\ status[i] = "pending"
  <2>1. /\ wk'[w] = [pc |-> "begin", job |-> i, full |-> wk[w].full]
        /\ \A v \in Workers \ {w} : wk'[v] = wk[v]
    BY <1>0, <1>1, GotoOK DEF Claim, Pcs
  <2>2. status' = [status EXCEPT ![i] = "running"]
    BY <1>1 DEF Claim
  <2>3. \A v \in Workers : ~Executing(v, i)
    BY Zenon, <1>0, <1>1 DEF OneHolder, Open
  <2> QED BY <1>0, <2>1, <2>2, <2>3 DEF OneHolder, Executing, Open, RowsOK
<1>2. CASE Claim(w) /\ status[i] # "pending"
  <2>1. /\ wk'[w] = [pc |-> "ack", job |-> i, full |-> wk[w].full]
        /\ \A v \in Workers \ {w} : wk'[v] = wk[v]
    BY <1>0, <1>2, GotoOK DEF Claim, Pcs
  <2>2. status' = status
    BY <1>0, <1>2 DEF Claim, RowsOK
  <2> QED BY SMTT(40), <2>1, <2>2 DEF OneHolder, Executing
<1>3. CASE Begin(w) \/ BeginError(w)
  <2>1. /\ wk'[w] = [pc |-> "run", job |-> i, full |-> wk[w].full]
        /\ \A v \in Workers \ {w} : wk'[v] = wk[v]
    BY <1>0, <1>3, GotoOK DEF Begin, BeginError, Pcs
  <2>2. status' = [status EXCEPT ![i] = "running"] \/ status' = status
    BY <1>3 DEF Begin, BeginError
  <2>3. Executing(w, i)
    BY <1>3 DEF Begin, BeginError, At, Executing
  <2>4. \A j \in Jobs : \A v \in Workers : Executing(v, j)' => Executing(v, j)
    BY <2>1, <2>3 DEF Executing
  <2> QED BY <1>0, <2>2, <2>4 DEF OneHolder, Open, RowsOK
<1>4. CASE NoHandler(w) \/ HandlerFails(w)
  <2>1. PICK pc \in {"retry", "ack"} : Goto(w, pc)
    BY <1>4 DEF NoHandler, HandlerFails, AfterFailure
  <2>2. /\ wk'[w] = [pc |-> pc, job |-> i, full |-> wk[w].full]
        /\ \A v \in Workers \ {w} : wk'[v] = wk[v]
    BY <1>0, <2>1, GotoOK DEF Pcs
  <2>3. wk'[w].pc \notin {"begin", "run"}
    BY <2>2
  <2>4. Executing(w, i)
    BY <1>4 DEF NoHandler, HandlerFails, At, Executing
  <2>5. \A j \in Jobs : \A v \in Workers : Executing(v, j)' => v # w /\ Executing(v, j) /\ j # i
    BY Zenon, <1>0, <2>2, <2>3, <2>4 DEF Executing, OneHolder
  <2>6. \A j \in Jobs : j # i => status'[j] = status[j]
    BY <1>0, <1>4 DEF NoHandler, HandlerFails, AfterFailure, RowsOK
  <2> QED BY <2>5, <2>6 DEF OneHolder
<1> QED BY <1>1, <1>2, <1>3, <1>4 DEF Execution

-----------------------------------------------------------------------------
(* Types *)

\* Every action assigns to the rows a value of their type.
LEMMA RowsStep ==
  ASSUME ThreadsOK, RowsOK, [Next]_vars
  PROVE  RowsOK'
<1> USE BoundsAssumption DEF RowsOK, Statuses
<1>1. CASE UNCHANGED vars
  BY Zenon, <1>1 DEF vars
<1>2. ASSUME NEW j \in Jobs,
             \/ Submit(j) \/ Defer(j) \/ ProcessDeferred(j) \/ Enqueue(j) \/ EnqueueError(j)
             \/ SubmitFails(j)
             \/ Promote(j) \/ Age(j) \/ DrainSend(j) \/ SenderCrash(j)
      PROVE  RowsOK'
  BY <1>2 DEF Submit, Defer, ProcessDeferred, Enqueue, EnqueueError, SubmitFails, Promote, Age, DrainSend,
              SenderCrash
<1>3. CASE DrainPeek \/ DrainTrim \/ CleanupRead \/ CleanupWrite
  BY Zenon, <1>3 DEF DrainPeek, DrainTrim, CleanupRead, CleanupWrite
<1>4. ASSUME NEW w \in Workers, NEW j \in Jobs, Dequeue(w, j) \/ ScanDelete(w, j)
      PROVE  RowsOK'
  BY Zenon, <1>4 DEF Dequeue, ScanDelete
<1>5. ASSUME NEW w \in Workers,
             \/ Track(w) \/ Succeed(w) \/ Retry(w) \/ Ack(w) \/ FailRead(w) \/ FailDrop(w) \/ FailBury(w)
             \/ TrackError(w) \/ ClaimError(w) \/ FetchError(w) \/ ResultLost(w) \/ RetryError(w)
             \/ AckError(w) \/ FailError(w) \/ ScanError(w) \/ ShutdownRequeue(w)
             \/ ScanRead(w) \/ ScanPush(w) \/ Crash(w)
      PROVE  RowsOK'
  BY <1>5 DEF Track, Succeed, Retry, Ack, FailRead, FailDrop, FailBury, TrackError, ClaimError,
              AckError, ShutdownRequeue, ScanRead, ScanPush, Crash, FetchError, ResultLost,
                RetryError, FailError, ScanError
<1>6. ASSUME NEW w \in Workers, Execution(w)
      PROVE  RowsOK'
  <2>1. wk[w].job \in Jobs
    BY <1>6 DEF Execution, ThreadsOK, Claim, Begin, BeginError, NoHandler, HandlerFails, At
  <2>2. status' \in [Jobs -> Statuses]
    BY <1>6 DEF Execution, Claim, Begin, BeginError, NoHandler, HandlerFails, AfterFailure
  <2>3. attempts' \in [Jobs -> Nat]
    BY <1>6, <2>1 DEF Execution, Claim, Begin, BeginError, NoHandler, HandlerFails, More
  <2>4. Counted(wk[w].job) \in [Jobs -> 0..ClaimsCap]
    BY <2>1 DEF Counted, ClaimsCap
  <2>5. claims' \in [Jobs -> 0..ClaimsCap]
    BY Zenon, <1>6, <2>4 DEF Execution, Claim, Begin, BeginError, NoHandler, HandlerFails
  <2> QED BY <2>2, <2>3, <2>5
<1> QED BY <1>1, <1>2, <1>3, <1>4, <1>5, <1>6 DEF Next, WorkerStep, WorkerFault, Execution

\* Every action assigns to the Redis structures and to the other threads a
\* value of their type; a copy is taken only from where there is one.
LEMMA RedisStep ==
  ASSUME ThreadsOK, RedisOK, [Next]_vars
  PROVE  RedisOK'
<1> USE DEF RedisOK, More, Less, queues, scan
<1>1. CASE UNCHANGED vars
  BY Zenon, <1>1 DEF vars
<1>2. ASSUME NEW j \in Jobs,
             \/ Submit(j) \/ Defer(j) \/ ProcessDeferred(j) \/ Enqueue(j) \/ EnqueueError(j)
             \/ SubmitFails(j)
             \/ Promote(j) \/ Age(j) \/ SenderCrash(j)
      PROVE  RedisOK'
  BY <1>2 DEF Submit, Defer, ProcessDeferred, Enqueue, EnqueueError, SubmitFails, Promote, Age, SenderCrash
<1>3. ASSUME NEW j \in Jobs, DrainSend(j)
      PROVE  RedisOK'
  BY <1>3 DEF DrainSend
<1>4. CASE DrainPeek \/ DrainTrim \/ CleanupRead \/ CleanupWrite
  <2>1. CASE DrainPeek
    <3>1. drain' \in [pc : {"idle", "trim", "send"}, jobs : SUBSET Jobs]
      BY Zenon, <2>1 DEF DrainPeek
    <3> QED BY Zenon, <2>1, <3>1 DEF DrainPeek
  <2>2. CASE DrainTrim
    <3>1. drain' \in [pc : {"idle", "trim", "send"}, jobs : SUBSET Jobs]
      BY <2>2 DEF DrainTrim
    <3>2. dead' \in [Jobs -> SUBSET BOOLEAN]
      BY <2>2 DEF DrainTrim
    <3> QED BY <2>2, <3>1, <3>2 DEF DrainTrim
  <2>3. CASE CleanupRead \/ CleanupWrite
    BY <2>3 DEF CleanupRead, CleanupWrite
  <2> QED BY <1>4, <2>1, <2>2, <2>3
<1>5. ASSUME NEW w \in Workers, NEW j \in Jobs, Dequeue(w, j) \/ ScanDelete(w, j)
      PROVE  RedisOK'
  BY <1>5 DEF Dequeue, ScanDelete
<1>6. ASSUME NEW w \in Workers, ScanRead(w) \/ ScanPush(w) \/ ScanError(w) \/ Crash(w)
      PROVE  RedisOK'
  BY SMTT(40), <1>6, NoJobAssumption DEF ScanRead, ScanPush, ScanError, Crash
<1>7. ASSUME NEW w \in Workers,
             \/ Track(w) \/ Claim(w) \/ Begin(w) \/ NoHandler(w) \/ Succeed(w) \/ HandlerFails(w)
             \/ Retry(w) \/ Ack(w) \/ FailRead(w) \/ FailDrop(w) \/ TrackError(w) \/ ClaimError(w)
             \/ AckError(w) \/ ShutdownRequeue(w) \/ FetchError(w) \/ BeginError(w) \/ ResultLost(w)
             \/ RetryError(w) \/ FailError(w)
      PROVE  RedisOK'
  <2>1. wk[w].job \in Jobs
    BY Zenon, <1>7 DEF ThreadsOK, At, Track, Claim, Begin, NoHandler, Succeed, HandlerFails, Retry, Ack,
                FailRead, FailDrop, TrackError, ClaimError, AckError, ShutdownRequeue,
                FetchError, BeginError, ResultLost, RetryError, FailError
  <2>2. CASE \/ Claim(w) \/ Begin(w) \/ NoHandler(w) \/ Succeed(w) \/ HandlerFails(w)
             \/ FailRead(w) \/ TrackError(w) \/ ClaimError(w) \/ FetchError(w) \/ BeginError(w)
             \/ ResultLost(w) \/ FailError(w)
    <3>1. UNCHANGED <<sender, list, delayed, inflight, dead, snap, push, drain, old>>
      BY ZenonT(40), <2>2 DEF Claim, Begin, NoHandler, Succeed, HandlerFails, FailRead, TrackError,
             ClaimError, FetchError, BeginError, ResultLost, FailError
    <3> QED BY Zenon, <3>1
  <2>3. CASE Track(w) \/ Ack(w) \/ FailDrop(w) \/ AckError(w)
    <3>1. UNCHANGED <<sender, list, delayed, dead, snap, push, drain, old>>
      BY Zenon, <2>3 DEF Track, Ack, FailDrop, AckError
    <3>2. \/ inflight' = inflight
          \/ \E e \in {"none", "fresh"} : inflight' = [inflight EXCEPT ![wk[w].job] = e]
      BY Zenon, <2>3 DEF Track, Ack, FailDrop, AckError
    <3>3. inflight' \in [Jobs -> {"none", "fresh", "stale"}]
      BY <2>1, <3>2
    <3> QED BY Zenon, <3>1, <3>3
  <2>4. CASE Retry(w) \/ RetryError(w) \/ ShutdownRequeue(w)
    <3>1. UNCHANGED <<sender, inflight, dead, snap, push, drain, old>>
      BY Zenon, <2>4 DEF Retry, RetryError, ShutdownRequeue
    <3>2. list' \in {list, More(list, wk[w].job)} /\ delayed' \in {delayed, More(delayed, wk[w].job)}
      BY <2>4 DEF Retry, RetryError, ShutdownRequeue
    <3>3. list' \in [Jobs -> Nat] /\ delayed' \in [Jobs -> Nat]
      BY <2>1, <3>2
    <3> QED BY Zenon, <3>1, <3>3
  <2> QED BY Zenon, <1>7, <2>2, <2>3, <2>4
<1>8. ASSUME NEW w \in Workers, FailBury(w)
      PROVE  RedisOK'
  <2>1. wk[w].job \in Jobs /\ {wk[w].full} \in SUBSET BOOLEAN
    BY <1>8 DEF FailBury, At, ThreadsOK, WorkerStates
  <2>2. dead' \in [Jobs -> SUBSET BOOLEAN]
    BY SMTT(40), <1>8, <2>1 DEF FailBury
  <2> QED BY <1>8, <2>2 DEF FailBury
<1> QED BY <1>1, <1>2, <1>3, <1>4, <1>5, <1>6, <1>7, <1>8 DEF Next, WorkerStep, WorkerFault, Execution

\* Each call that raises is counted once, within the bound.
LEMMA FaultsStep ==
  ASSUME [Next]_vars
  PROVE  faults' = faults \/ (faults < MaxFaults /\ faults' = faults + 1)
  BY ZenonT(40) DEF Next, WorkerStep, vars, limits, Fault, Submit, Defer, ProcessDeferred, Enqueue,
         EnqueueError, SubmitFails, Promote, Age, DrainSend, SenderCrash, DrainPeek, DrainTrim, CleanupRead,
         CleanupWrite, Dequeue, ScanDelete, Track, Succeed, Retry, Ack, FailRead, FailDrop,
         FailBury, TrackError, ClaimError, AckError, ShutdownRequeue, ScanRead, ScanPush, Crash,
         Claim, Begin, NoHandler, HandlerFails, WorkerFault, FetchError, BeginError, ResultLost,
         RetryError, FailError, ScanError

\* Each crash is counted once, within the bound.
LEMMA CrashesStep ==
  ASSUME [Next]_vars
  PROVE  crashes' = crashes \/ (crashes < MaxCrashes /\ crashes' = crashes + 1)
  BY ZenonT(40) DEF Next, WorkerStep, vars, limits, Fault, Submit, Defer, ProcessDeferred, Enqueue,
         EnqueueError, SubmitFails, Promote, Age, DrainSend, SenderCrash, DrainPeek, DrainTrim, CleanupRead,
         CleanupWrite, Dequeue, ScanDelete, Track, Succeed, Retry, Ack, FailRead, FailDrop,
         FailBury, TrackError, ClaimError, AckError, ShutdownRequeue, ScanRead, ScanPush, Crash,
         Claim, Begin, NoHandler, HandlerFails, WorkerFault, FetchError, BeginError, ResultLost,
         RetryError, FailError, ScanError

\* Crashes and faults stay within their bounds.
LEMMA LimitsStep ==
  ASSUME LimitsOK, [Next]_vars
  PROVE  LimitsOK'
  BY CrashesStep, FaultsStep, BoundsAssumption DEF LimitsOK

-----------------------------------------------------------------------------
(* Attempts and claims *)

\* The number of faults never decreases.
LEMMA FaultsGrow ==
  ASSUME LimitsOK, [Next]_vars
  PROVE  faults \in Nat /\ faults' \in Nat /\ faults <= faults' /\ faults <= MaxFaults
  BY FaultsStep, BoundsAssumption DEF LimitsOK

\* A quiet step counts nothing and opens nothing.
LEMMA QuietCounts ==
  ASSUME Quiet, RowsOK, faults \in Nat, faults' \in Nat, faults <= faults'
  PROVE  (AttemptsLeft => AttemptsLeft') /\ (ClaimsCounted => ClaimsCounted')
<1>1. ASSUME NEW w \in Workers, NEW j \in Jobs
      PROVE  (Executing(w, j)' => Executing(w, j)) /\ (Fetching(w, j)' => Fetching(w, j))
             /\ (Executing(w, j)' => (Fetching(w, j)' <=> Fetching(w, j)))
  BY Zenon DEF Quiet, Executing, Fetching
<1>2. \A j \in Jobs : attempts[j] \in Nat /\ claims[j] \in Nat /\ MaxAttempts \in Nat
  BY BoundsAssumption DEF RowsOK, ClaimsCap
<1>3. AttemptsLeft => AttemptsLeft'
  BY Zenon, <1>1 DEF Quiet, AttemptsLeft, HasAttempt
<1>4. ASSUME ClaimsCounted, NEW j \in Jobs PROVE ClaimsMatch(j)'
  <2>1. claims'[j] <= MaxAttempts + faults'
    BY <1>2, <1>4 DEF Quiet, ClaimsCounted, ClaimsMatch
  <2>2. status'[j] \in Open => claims'[j] <= attempts'[j] + faults'
    BY <1>2, <1>4 DEF Quiet, ClaimsCounted, ClaimsMatch
  <2>3. ASSUME NEW w \in Workers, Executing(w, j)'
        PROVE  claims'[j] <= (IF Fetching(w, j)' THEN attempts'[j] + 1 ELSE attempts'[j]) + faults'
    BY <1>1, <1>2, <1>4, <2>3 DEF Quiet, ClaimsCounted, ClaimsMatch
  <2> QED BY Zenon, <2>1, <2>2, <2>3 DEF ClaimsMatch
<1> QED BY Zenon, <1>3, <1>4 DEF ClaimsCounted

\* What a step of an execution does to the rows and to its worker.
LEMMA ExecutionSteps ==
  ASSUME ThreadsOK, RowsOK, NEW w \in Workers,
         Execution(w)
  PROVE  /\ wk[w].job \in Jobs
         /\ \A v \in Workers \ {w} : wk'[v] = wk[v]
         /\ wk'[w].job = wk[w].job
         /\ \A j \in Jobs \ {wk[w].job} : /\ status'[j] = status[j]
                                          /\ attempts'[j] = attempts[j]
                                          /\ claims'[j] = claims[j]
<1>1. wk[w].job \in Jobs /\ wk[w].pc # "idle"
  BY Zenon DEF Execution, ThreadsOK, Claim, Begin, BeginError, NoHandler, HandlerFails, At
<1>2. PICK pc \in Pcs \ {"idle"} : Goto(w, pc)
  BY SMTT(40) DEF Execution, Claim, Begin, BeginError, NoHandler, HandlerFails, AfterFailure, Pcs
<1>3. /\ \A v \in Workers \ {w} : wk'[v] = wk[v]
      /\ wk'[w].job = wk[w].job
  <2>1. /\ \A v \in Workers \ {w} : wk'[v] = wk[v]
        /\ wk'[w] = [pc |-> pc, job |-> wk[w].job, full |-> wk[w].full]
    BY Zenon, <1>1, <1>2, GotoOK
  <2> QED BY <2>1
<1>4. \A j \in Jobs \ {wk[w].job} : status'[j] = status[j]
  BY Zenon, <1>1 DEF Execution, Claim, Begin, BeginError, NoHandler, HandlerFails, AfterFailure, RowsOK
<1>5. \A j \in Jobs \ {wk[w].job} : attempts'[j] = attempts[j] /\ claims'[j] = claims[j]
  BY Zenon, <1>1 DEF Execution, Claim, Begin, BeginError, NoHandler, HandlerFails, More, Counted, RowsOK
<1> QED BY Zenon, <1>1, <1>3, <1>4, <1>5

\* What it does to the job it is about.
LEMMA ExecutionEffect ==
  ASSUME ThreadsOK, RowsOK, NEW w \in Workers, NEW i \in Jobs, i = wk[w].job,
         Execution(w)
  PROVE  \/ /\ status[i] = "pending" /\ status'[i] = "running"
            /\ attempts'[i] = attempts[i] /\ claims'[i] = Counted(i)[i]
            /\ wk'[w].pc = "begin"
         \/ /\ status'[i] = status[i] /\ attempts'[i] = attempts[i] /\ claims'[i] = claims[i]
            /\ wk'[w].pc = "ack"
         \/ /\ wk[w].pc = "begin" /\ wk'[w].pc = "run" /\ status'[i] = "running"
            /\ attempts'[i] = attempts[i] + 1 /\ claims'[i] = claims[i]
         \/ /\ wk[w].pc = "begin" /\ wk'[w].pc = "run" /\ status'[i] = status[i]
            /\ attempts'[i] = attempts[i] /\ claims'[i] = claims[i] /\ faults' = faults + 1
         \/ /\ wk'[w].pc \in {"retry", "ack"}
            /\ wk[w].pc = "run" \/ (wk[w].pc = "begin" /\ faults' = faults + 1)
            /\ status'[i] = IF attempts[i] < MaxAttempts THEN "pending" ELSE "failed"
            /\ attempts'[i] = attempts[i] /\ claims'[i] = claims[i]
<1>1. wk[w].pc # "idle"
  BY Zenon DEF Execution, Claim, Begin, BeginError, NoHandler, HandlerFails, At
<1>2. ASSUME NEW pc \in Pcs \ {"idle"}, Goto(w, pc) PROVE wk'[w].pc = pc
  <2>1. wk'[w] = [pc |-> pc, job |-> wk[w].job, full |-> wk[w].full]
    BY Zenon, <1>1, <1>2, GotoOK
  <2> QED BY <2>1
<1>3. CASE Claim(w) /\ status[i] = "pending"
  <2>1. wk'[w].pc = "begin"
    BY SMTT(40), <1>2, <1>3 DEF Claim, Pcs
  <2>2. status'[i] = "running" /\ attempts' = attempts /\ claims' = Counted(i)
    BY Zenon, <1>3 DEF Claim, RowsOK
  <2> QED BY Zenon, <1>3, <2>1, <2>2
<1>4. CASE Claim(w) /\ status[i] # "pending"
  <2>1. wk'[w].pc = "ack"
    BY SMTT(40), <1>2, <1>4 DEF Claim, Pcs
  <2>2. status'[i] = status[i] /\ attempts' = attempts /\ claims' = claims
    BY Zenon, <1>4 DEF Claim, RowsOK
  <2> QED BY Zenon, <2>1, <2>2
<1>5. CASE Begin(w)
  <2>1. wk'[w].pc = "run"
    BY Zenon, <1>2, <1>5 DEF Begin, Pcs
  <2>2. status'[i] = "running" /\ attempts'[i] = attempts[i] + 1 /\ claims' = claims
    BY Zenon, <1>5 DEF Begin, RowsOK, More
  <2>3. wk[w].pc = "begin"
    BY Zenon, <1>5 DEF Begin, At
  <2> QED BY Zenon, <2>1, <2>2, <2>3
<1>6. CASE NoHandler(w) \/ HandlerFails(w)
  <2>1. wk'[w].pc \in {"retry", "ack"}
    BY Zenon, <1>2, <1>6 DEF NoHandler, HandlerFails, AfterFailure, Pcs
  <2>2. status'[i] = IF attempts[i] < MaxAttempts THEN "pending" ELSE "failed"
    BY Zenon, <1>6 DEF NoHandler, HandlerFails, AfterFailure, RowsOK
  <2>3. attempts' = attempts /\ claims' = claims
    BY Zenon, <1>6 DEF NoHandler, HandlerFails
  <2>4. wk[w].pc = "run" \/ (wk[w].pc = "begin" /\ faults' = faults + 1)
    BY Zenon, <1>6 DEF NoHandler, HandlerFails, At, Fault
  <2> QED BY Zenon, <2>1, <2>2, <2>3, <2>4
<1>7. CASE BeginError(w)
  <2>1. wk'[w].pc = "run"
    BY Zenon, <1>2, <1>7 DEF BeginError, Pcs
  <2>2. UNCHANGED <<status, attempts, claims>> /\ faults' = faults + 1
    BY Zenon, <1>7 DEF BeginError, Fault
  <2>3. wk[w].pc = "begin"
    BY Zenon, <1>7 DEF BeginError, At
  <2> QED BY Zenon, <2>1, <2>2, <2>3
<1> QED BY ZenonT(40), <1>3, <1>4, <1>5, <1>6, <1>7 DEF Execution

\* No step uses an attempt that is not left.
LEMMA AttemptsStep ==
  ASSUME ThreadsOK, RowsOK, LimitsOK, OneHolder, AttemptsLeft, [Next]_vars
  PROVE  AttemptsLeft'
<1>1. ASSUME NEW w \in Workers, Execution(w)
      PROVE  AttemptsLeft'
  <2>0. PICK i \in Jobs : i = wk[w].job
    BY Zenon, <1>1, ExecutionSteps
  <2>1. /\ i \in Jobs
        /\ \A v \in Workers \ {w} : wk'[v] = wk[v]
        /\ wk'[w].job = i
        /\ \A j \in Jobs \ {i} : status'[j] = status[j] /\ attempts'[j] = attempts[j]
    BY Zenon, <1>1, <2>0, ExecutionSteps
  <2>2. \A j \in Jobs : attempts[j] \in Nat
    BY Zenon DEF RowsOK
  <2>3. \A j \in Jobs \ {i} : HasAttempt(j)'
    BY SMTT(40), <2>1 DEF AttemptsLeft, HasAttempt, Fetching
  <2>4. HasAttempt(i)'
    <3>1. \A v \in Workers \ {w} : Executing(w, i) => ~Fetching(v, i)'
      BY Zenon, <2>0, <2>1 DEF OneHolder, Executing, Fetching
    <3>2. \A v \in Workers \ {w} : Fetching(v, i)' => Fetching(v, i)
      BY Zenon, <2>0, <2>1 DEF Fetching
    <3>3. /\ attempts[i] <= MaxAttempts
          /\ status[i] \in Open => attempts[i] < MaxAttempts
          /\ \A v \in Workers : Fetching(v, i) => attempts[i] < MaxAttempts
      BY Zenon, <2>0, <2>1 DEF AttemptsLeft, HasAttempt
    <3>4. wk[w].pc = "begin" => Executing(w, i) /\ Fetching(w, i)
      BY Zenon, <2>0 DEF Executing, Fetching
    <3>5. Fetching(w, i)' <=> wk'[w].pc = "begin"
      BY Zenon, <2>0, <2>1 DEF Fetching
    <3>6. \/ /\ status[i] = "pending" /\ status'[i] = "running"
             /\ attempts'[i] = attempts[i] /\ wk'[w].pc = "begin"
          \/ status'[i] = status[i] /\ attempts'[i] = attempts[i] /\ wk'[w].pc # "begin"
          \/ /\ wk[w].pc = "begin" /\ wk'[w].pc = "run"
             /\ status'[i] = "running" /\ attempts'[i] = attempts[i] + 1
          \/ /\ status'[i] = IF attempts[i] < MaxAttempts THEN "pending" ELSE "failed"
             /\ attempts'[i] = attempts[i] /\ wk'[w].pc # "begin"
      BY Zenon, <1>1, <2>0, ExecutionEffect
    <3>7. attempts'[i] <= MaxAttempts /\ (status'[i] \in Open => attempts'[i] < MaxAttempts)
      BY <2>2, <3>3, <3>4, <3>6, BoundsAssumption DEF Open
    <3>8. ASSUME NEW v \in Workers, Fetching(v, i)' PROVE attempts'[i] < MaxAttempts
      BY Zenon, <2>2, <3>1, <3>2, <3>3, <3>4, <3>5, <3>6, <3>8, BoundsAssumption DEF Open
    <3> QED BY Zenon, <3>7, <3>8 DEF HasAttempt
  <2> QED BY Zenon, <2>3, <2>4 DEF AttemptsLeft
<1>2. CASE Quiet
  BY Zenon, <1>2, QuietCounts, FaultsGrow
<1> QED BY Zenon, <1>1, <1>2, QuietSteps

\* Claims and attempts keep step, up to the calls that raised.
LEMMA ClaimsStep ==
  ASSUME ThreadsOK, RowsOK, LimitsOK, OneHolder, AttemptsLeft, ClaimsCounted,
         [Next]_vars
  PROVE  ClaimsCounted'
<1>1. ASSUME NEW w \in Workers, Execution(w)
      PROVE  ClaimsCounted'
  <2>0. PICK i \in Jobs : i = wk[w].job
    BY Zenon, <1>1, ExecutionSteps
  <2>1. /\ i \in Jobs
        /\ \A v \in Workers \ {w} : wk'[v] = wk[v]
        /\ wk'[w].job = i
        /\ \A j \in Jobs \ {i} : /\ status'[j] = status[j]
                                 /\ attempts'[j] = attempts[j]
                                 /\ claims'[j] = claims[j]
    BY Zenon, <1>1, <2>0, ExecutionSteps
  <2>2. \A j \in Jobs \ {i} : ClaimsMatch(j)'
    <3>1. ASSUME NEW j \in Jobs \ {i} PROVE ClaimsMatch(j)'
      <4>1. attempts[j] \in Nat /\ claims[j] \in Nat /\ MaxAttempts \in Nat
        BY BoundsAssumption DEF RowsOK, ClaimsCap
      <4>2. \A v \in Workers : (Executing(v, j)' <=> Executing(v, j))
                              /\ (Fetching(v, j)' <=> Fetching(v, j))
        BY Zenon, <2>0, <2>1 DEF Fetching, Executing
      <4>3. /\ status'[j] = status[j] /\ attempts'[j] = attempts[j] /\ claims'[j] = claims[j]
            /\ ClaimsMatch(j)
        BY Zenon, <2>1 DEF ClaimsCounted
      <4>4. faults \in Nat /\ faults' \in Nat /\ faults <= faults'
        BY SMTT(40), FaultsGrow
      <4>5. claims'[j] <= MaxAttempts + faults'
        BY <4>1, <4>3, <4>4 DEF ClaimsMatch
      <4>6. status'[j] \in Open => claims'[j] <= attempts'[j] + faults'
        BY <4>1, <4>3, <4>4 DEF ClaimsMatch
      <4>7. ASSUME NEW v \in Workers, Executing(v, j)'
            PROVE  claims'[j] <= (IF Fetching(v, j)' THEN attempts'[j] + 1 ELSE attempts'[j]) + faults'
        BY <4>1, <4>2, <4>3, <4>4, <4>7 DEF ClaimsMatch
      <4> QED BY Zenon, <4>5, <4>6, <4>7 DEF ClaimsMatch
    <3> QED BY Zenon, <3>1
  <2>3. ClaimsMatch(i)'
    <3>1. \A v \in Workers \ {w} : Executing(v, i)' =>
             Executing(v, i) /\ ~Executing(w, i) /\ status[i] \notin Open
      BY SMTT(40), <2>0, <2>1 DEF OneHolder, Executing
    <3>2. \A v \in Workers \ {w} : Fetching(v, i)' <=> Fetching(v, i)
      BY Zenon, <2>0, <2>1 DEF Fetching
    <3>3. attempts[i] \in Nat /\ claims[i] \in Nat /\ MaxAttempts \in Nat /\ MaxFaults \in Nat
      BY <2>1, BoundsAssumption DEF RowsOK, ClaimsCap
    <3>4. HasAttempt(i) /\ ClaimsMatch(i)
      BY Zenon, <2>0, <2>1 DEF AttemptsLeft, ClaimsCounted
    <3>5. /\ Fetching(w, i) <=> wk[w].pc = "begin"
          /\ Executing(w, i) <=> wk[w].pc \in {"begin", "run"}
          /\ Fetching(w, i)' <=> wk'[w].pc = "begin"
          /\ Executing(w, i)' <=> wk'[w].pc \in {"begin", "run"}
      BY Zenon, <2>0, <2>1 DEF Fetching, Executing
    <3>6. Counted(i)[i] <= claims[i] + 1 /\ Counted(i)[i] \in Nat
      BY <2>1, <3>3 DEF Counted, RowsOK
    <3> QED
      <4>1. faults \in Nat /\ faults' \in Nat /\ faults <= faults'
        BY Zenon, FaultsGrow
      <4>2. claims'[i] <= MaxAttempts + faults'
        <5>1. \/ status[i] = "pending" /\ claims'[i] = Counted(i)[i]
              \/ claims'[i] = claims[i]
          BY Zenon, <1>1, <2>0, ExecutionEffect
        <5>2. status[i] = "pending" => claims[i] <= attempts[i] + faults /\ attempts[i] < MaxAttempts
          BY Zenon, <3>4 DEF HasAttempt, ClaimsMatch, Open
        <5>3. claims[i] <= MaxAttempts + faults
          BY Zenon, <3>4 DEF ClaimsMatch
        <5> QED BY <3>3, <3>6, <4>1, <5>1, <5>2, <5>3
      <4>3. status'[i] \in Open => claims'[i] <= attempts'[i] + faults'
        <5>1. \/ status'[i] = "running" \/ status'[i] = "failed"
              \/ /\ attempts'[i] = attempts[i] /\ claims'[i] = claims[i]
                 /\ \/ status'[i] = status[i]
                    \/ wk[w].pc = "run"
                    \/ wk[w].pc = "begin" /\ faults' = faults + 1
          BY Zenon, <1>1, <2>0, ExecutionEffect
        <5>2. status[i] \in Open => claims[i] <= attempts[i] + faults
          BY Zenon, <3>4 DEF ClaimsMatch
        <5>3. wk[w].pc = "run" => claims[i] <= attempts[i] + faults
          BY Zenon, <3>4, <3>5 DEF ClaimsMatch
        <5>4. "running" \notin Open /\ "failed" \notin Open
          BY Zenon DEF Open
        <5>5. wk[w].pc = "begin" => claims[i] <= attempts[i] + 1 + faults
          BY SMTT(40), <3>4, <3>5 DEF ClaimsMatch
        <5> QED BY SMTT(40), <3>3, <4>1, <5>1, <5>2, <5>3, <5>4, <5>5
      <4>4. ASSUME NEW v \in Workers \ {w}, Executing(v, i)'
            PROVE  claims'[i] <= (IF Fetching(v, i)' THEN attempts'[i] + 1 ELSE attempts'[i]) + faults'
        <5>1. Executing(v, i) /\ ~Executing(w, i) /\ status[i] # "pending"
          BY Zenon, <3>1, <4>4 DEF Open
        <5>2. attempts'[i] = attempts[i] /\ claims'[i] = claims[i]
          BY Zenon, <1>1, <2>0, <3>5, <5>1, ExecutionEffect
        <5>3. claims[i] <= (IF Fetching(v, i) THEN attempts[i] + 1 ELSE attempts[i]) + faults
          BY Zenon, <3>4, <5>1 DEF ClaimsMatch
        <5>4. Fetching(v, i)' <=> Fetching(v, i)
          BY Zenon, <3>2
        <5> QED BY <3>3, <4>1, <5>2, <5>3, <5>4
      <4>5. ASSUME Executing(w, i)'
            PROVE  claims'[i] <= (IF Fetching(w, i)' THEN attempts'[i] + 1 ELSE attempts'[i]) + faults'
        <5>1. wk'[w].pc = "begin" \/ wk'[w].pc = "run"
          BY Zenon, <3>5, <4>5
        <5>2. \/ /\ status[i] = "pending" /\ attempts'[i] = attempts[i]
                 /\ claims'[i] = Counted(i)[i] /\ wk'[w].pc = "begin"
              \/ /\ wk[w].pc = "begin" /\ wk'[w].pc = "run"
                 /\ attempts'[i] = attempts[i] + 1 /\ claims'[i] = claims[i]
              \/ /\ wk[w].pc = "begin" /\ wk'[w].pc = "run" /\ attempts'[i] = attempts[i]
                 /\ claims'[i] = claims[i] /\ faults' = faults + 1
          BY Zenon, <1>1, <2>0, <5>1, ExecutionEffect
        <5>3. status[i] = "pending" => claims[i] <= attempts[i] + faults
          BY Zenon, <3>4 DEF ClaimsMatch, Open
        <5>4. wk[w].pc = "begin" => claims[i] <= attempts[i] + 1 + faults
          BY Zenon, <3>4, <3>5 DEF ClaimsMatch
        <5>5. Fetching(w, i)' <=> wk'[w].pc = "begin"
          BY Zenon, <3>5
        <5> QED BY SMTT(40), <3>3, <3>6, <4>1, <5>2, <5>3, <5>4, <5>5
      <4> QED BY Zenon, <4>2, <4>3, <4>4, <4>5 DEF ClaimsMatch
  <2> QED BY Zenon, <2>2, <2>3 DEF ClaimsCounted
<1>2. CASE Quiet
  BY Zenon, <1>2, QuietCounts, FaultsGrow
<1> QED BY Zenon, <1>1, <1>2, QuietSteps

-----------------------------------------------------------------------------
\* The initial state satisfies every invariant.
LEMMA Initially ==
  ASSUME Init
  PROVE  ThreadsOK /\ RowsOK /\ RedisOK /\ LimitsOK /\ OneHolder /\ AttemptsLeft /\ ClaimsCounted
<1>1. ThreadsOK /\ \A w \in Workers : wk[w].pc = "idle"
  BY Zenon DEF Init, ThreadsOK, Idle, WorkerStates
<1>2. RowsOK /\ LimitsOK
  BY BoundsAssumption DEF Init, RowsOK, LimitsOK, Statuses, ClaimsCap
<1>3. RedisOK
  BY Zenon DEF Init, RedisOK
<1>4. OneHolder
  BY Zenon, <1>1 DEF OneHolder, Executing
<1>5. AttemptsLeft /\ ClaimsCounted
  BY <1>1, BoundsAssumption
  DEF Init, AttemptsLeft, HasAttempt, ClaimsCounted, ClaimsMatch, Executing, Fetching
<1> QED BY Zenon, <1>1, <1>2, <1>3, <1>4, <1>5

Holding == ThreadsOK /\ RowsOK /\ RedisOK /\ LimitsOK /\ OneHolder /\ AttemptsLeft

\* The conjunction of the invariants is inductive.
LEMMA HoldingInvariant == Spec => []Holding
<1>1. Init => Holding
  BY Zenon, Initially DEF Holding
<1>2. Holding /\ [Next]_vars => Holding'
  <2> SUFFICES ASSUME Holding, [Next]_vars PROVE Holding'
    OBVIOUS
  <2> USE DEF Holding
  <2>1. ThreadsOK' /\ RowsOK' /\ RedisOK' /\ LimitsOK' /\ AttemptsLeft'
    BY Zenon, QuietSteps, RowsStep, RedisStep, LimitsStep, AttemptsStep
  <2>2. OneHolder'
    BY Zenon, QuietSteps, QuietHolder, HolderSteps
  <2> QED BY Zenon, <2>1, <2>2
<1> QED BY <1>1, <1>2, PTL DEF Spec

\* The rows, the Redis structures and the threads keep their types; attempt_count
\* never exceeds max_attempts.
THEOREM JobTypes == Spec => []TypeOK
<1>1. Holding => TypeOK
  BY BoundsAssumption
  DEF Holding, TypeOK, ThreadsOK, RowsOK, RedisOK, LimitsOK, AttemptsLeft, HasAttempt, Statuses
<1> QED BY <1>1, HoldingInvariant, PTL

\* No two workers ever execute one job: _try_claim_job is enough, whatever is
\* delivered twice, crashes, raises or is cleaned up.
THEOREM JobExecutedByOne == Spec => []AtMostOneExecution
<1>1. Holding => AtMostOneExecution
  BY Zenon DEF Holding, OneHolder, AtMostOneExecution
<1> QED BY <1>1, HoldingInvariant, PTL

\* No job is claimed more often than max_attempts allows, and one time more for
\* each call of the worker that raised.
THEOREM JobClaimsBounded == Spec => []ClaimsBounded
<1>1. Init => ClaimsCounted
  BY Zenon, Initially
<1>2. Holding /\ ClaimsCounted /\ [Next]_vars => ClaimsCounted'
  BY SMTT(40), ClaimsStep DEF Holding
<1>3. ClaimsCounted => ClaimsBounded
  BY Zenon DEF ClaimsCounted, ClaimsMatch, ClaimsBounded
<1> QED BY <1>1, <1>2, <1>3, HoldingInvariant, PTL DEF Spec

-----------------------------------------------------------------------------
(* A job that is done stays done *)

\* submit_async_job's except clause meets the row as it was committed.
FailsInTime == \A j \in Jobs : sender[j] = "raised" => status[j] = "pending"

\* A job that a worker executes is marked running.
ExecutorRuns == \A j \in Jobs : \A w \in Workers : Executing(w, j) => status[j] = "running"

\* Where no job is old enough, _cleanup_stale_logs reads nothing.
LEMMA NothingOld ==
  ASSUME CleansUp = FALSE, old = {}, [Next]_vars
  PROVE  old' = {}
  BY ZenonT(40) DEF Next, WorkerStep, vars, Submit, Defer, ProcessDeferred, Enqueue,
         EnqueueError, SubmitFails, Promote, Age, DrainSend, SenderCrash, DrainPeek, DrainTrim, CleanupRead,
         CleanupWrite, Dequeue, ScanDelete, Track, Succeed, Retry, Ack, FailRead, FailDrop,
         FailBury, TrackError, ClaimError, AckError, ShutdownRequeue, ScanRead, ScanPush, Crash,
         Claim, Begin, NoHandler, HandlerFails, WorkerFault, FetchError, BeginError, ResultLost,
         RetryError, FailError, ScanError

\* Apart from executions and their success only rows that are still open move.
LEMMA RowMoves ==
  ASSUME ThreadsOK, RowsOK, old = {}, FailsInTime, [Next]_vars
  PROVE  \/ \A j \in Jobs : status'[j] = status[j] \/ status[j] \in Open
         \/ \E w \in Workers : Succeed(w) \/ Execution(w)
<1>1. CASE status' = status
  BY Zenon, <1>1
<1>2. ASSUME NEW i \in Jobs, Submit(i) \/ Defer(i) \/ ProcessDeferred(i) \/ SubmitFails(i)
      PROVE  \A j \in Jobs : status'[j] = status[j] \/ status[j] \in Open
  <2>1. status[i] \in Open
    BY Zenon, <1>2 DEF Submit, Defer, ProcessDeferred, SubmitFails, FailsInTime, Open
  <2>2. \A j \in Jobs \ {i} : status'[j] = status[j]
    BY Zenon, <1>2 DEF Submit, Defer, ProcessDeferred, SubmitFails, RowsOK
  <2> QED BY Zenon, <2>1, <2>2
<1> QED
  BY ZenonT(40), <1>1, <1>2 DEF Next, WorkerStep, Execution, vars, Enqueue,
         EnqueueError, Promote, Age, DrainSend, SenderCrash, DrainPeek, DrainTrim, CleanupRead,
         CleanupWrite, Dequeue, ScanDelete, Track, Retry, Ack, FailRead, FailDrop,
         FailBury, TrackError, ClaimError, AckError, ShutdownRequeue, ScanRead, ScanPush, Crash,
         WorkerFault, FetchError, ResultLost, RetryError, FailError, ScanError

\* What a step of an execution does to its row when executed jobs are running.
LEMMA ExecutionRow ==
  ASSUME ThreadsOK, RowsOK, ExecutorRuns, NEW w \in Workers, NEW i \in Jobs, i = wk[w].job, Execution(w)
  PROVE  /\ status'[i] = status[i] \/ status[i] \in {"pending", "running"}
         /\ wk'[w].pc \in {"begin", "run"} => status'[i] = "running"
         /\ status'[i] # "running" => status'[i] = status[i] \/ Executing(w, i)
<1>1. wk[w].pc \in {"begin", "run"} => Executing(w, i) /\ status[i] = "running"
  BY Zenon DEF Executing, ExecutorRuns
<1>2. \/ status[i] = "pending" /\ status'[i] = "running"
      \/ status'[i] = status[i] /\ wk'[w].pc = "ack"
      \/ wk[w].pc = "begin" /\ (status'[i] = "running" \/ status'[i] = status[i])
      \/ wk'[w].pc \in {"retry", "ack"} /\ (wk[w].pc = "run" \/ wk[w].pc = "begin")
  BY Zenon, ExecutionEffect
<1> QED BY Zenon, <1>1, <1>2

\* A worker executes a job only while the row says so.
LEMMA ExecutorStep ==
  ASSUME ThreadsOK, RowsOK, OneHolder, old = {}, FailsInTime, ExecutorRuns, [Next]_vars
  PROVE  ExecutorRuns'
<1> SUFFICES ASSUME NEW j \in Jobs, NEW v \in Workers, Executing(v, j)'
             PROVE  status'[j] = "running"
  BY Zenon DEF ExecutorRuns
<1>1. ASSUME NEW w \in Workers, Execution(w) PROVE status'[j] = "running"
  <2>1. PICK i \in Jobs : i = wk[w].job
    BY Zenon, <1>1, ExecutionSteps
  <2>2. /\ \A u \in Workers \ {w} : wk'[u] = wk[u]
        /\ wk'[w].job = i
        /\ j # i => status'[j] = status[j]
    BY Zenon, <1>1, <2>1, ExecutionSteps
  <2>3. CASE v = w
    BY Zenon, <1>1, <2>1, <2>2, <2>3, ExecutionRow DEF Executing
  <2>4. CASE v # w
    <3>1. Executing(v, j) /\ status[j] = "running"
      BY Zenon, <2>2, <2>4 DEF Executing, ExecutorRuns
    <3>2. j = i => ~Executing(w, i)
      BY Zenon, <2>4, <3>1 DEF OneHolder
    <3> QED BY Zenon, <1>1, <2>1, <2>2, <3>1, <3>2, ExecutionRow
  <2> QED BY Zenon, <2>3, <2>4
<1>2. CASE Quiet /\ ~\E w \in Workers : Execution(w)
  <2>1. Executing(v, j) /\ status[j] = "running"
    BY Zenon, <1>2 DEF Quiet, Executing, ExecutorRuns
  <2>2. ASSUME NEW w \in Workers, Succeed(w) PROVE status'[j] = "running"
    <3>1. wk[w].pc = "run" /\ wk[w].pc # "idle"
      BY Zenon, <2>2 DEF Succeed, At
    <3>2. wk'[w] = [pc |-> "ack", job |-> wk[w].job, full |-> wk[w].full]
      BY Zenon, <2>2, <3>1, GotoOK DEF Succeed, Pcs
    <3>3. wk'[w].pc = "ack"
      BY <3>2
    <3>4. v # w
      BY Zenon, <3>3 DEF Executing
    <3>5. wk[w].job # j
      BY Zenon, <2>1, <3>1, <3>4 DEF OneHolder, Executing
    <3> QED BY Zenon, <2>1, <2>2, <3>5 DEF Succeed, RowsOK
  <2>3. "running" \notin Open
    BY Zenon DEF Open
  <2> QED BY Zenon, <1>2, <2>1, <2>2, <2>3, RowMoves
<1> QED BY Zenon, <1>1, <1>2, QuietSteps

\* No step takes the final status of a job away.
LEMMA DoneStep ==
  ASSUME ThreadsOK, RowsOK, old = {}, FailsInTime, ExecutorRuns, [Next]_vars,
         NEW j \in Jobs, status[j] \in {"success", "failed"}
  PROVE  status'[j] = status[j]
<1>1. ASSUME NEW w \in Workers, Execution(w) PROVE status'[j] = status[j]
  <2>1. PICK i \in Jobs : i = wk[w].job
    BY Zenon, <1>1, ExecutionSteps
  <2>2. CASE j = i
    <3>1. status'[i] = status[i] \/ status[i] \in {"pending", "running"}
      BY Zenon, <1>1, <2>1, ExecutionRow
    <3> QED BY Zenon, <2>2, <3>1
  <2>3. CASE j # i
    BY Zenon, <1>1, <2>1, <2>3, ExecutionSteps
  <2> QED BY Zenon, <2>2, <2>3
<1>2. ASSUME NEW w \in Workers, Succeed(w) PROVE status'[j] = status[j]
  <2>1. wk[w].job \in Jobs => status[wk[w].job] = "running"
    BY Zenon, <1>2 DEF Succeed, At, Executing, ExecutorRuns
  <2>2. wk[w].job # j
    BY Zenon, <2>1
  <2> QED BY Zenon, <1>2, <2>2 DEF Succeed, RowsOK
<1>3. status[j] \notin Open
  BY Zenon DEF Open
<1> QED BY Zenon, <1>1, <1>2, <1>3, RowMoves

\* A job that is done stays done where no clean-up runs, as long as the except clause
\* of submit_async_job is not overtaken by a worker: whatever crashes and whatever
\* else raises.
THEOREM JobDoneOnce ==
  ASSUME CleansUp = FALSE
  PROVE  Spec /\ []FailsInTime => DoneStaysDone
<1> DEFINE Inv == old = {} /\ ExecutorRuns
<1>1. Init => Inv
  BY DEF Init, ExecutorRuns, Executing, Idle
<1>2. Inv /\ Holding /\ FailsInTime /\ [Next]_vars => Inv'
  BY Zenon, NothingOld, ExecutorStep DEF Holding
<1>3. Inv /\ Holding /\ FailsInTime /\ [Next]_vars =>
        [\A j \in Jobs : status[j] \in {"success", "failed"} => status'[j] = status[j]]_vars
  BY Zenon, DoneStep DEF Holding
<1> HIDE DEF Inv
<1> QED BY <1>1, <1>2, <1>3, HoldingInvariant, PTL DEF Spec, DoneStaysDone

-----------------------------------------------------------------------------
(* Copies of a job *)

\* No copy of the job exists, and no thread has one in hand.
NoCopy(j) ==
  /\ list[j] = 0 /\ delayed[j] = 0 /\ inflight[j] = "none" /\ dead[j] = {} /\ j \notin drain.jobs
  /\ \A w \in Workers : wk[w].job # j /\ push[w] # j /\ j \notin snap[w]

\* A step of a worker's main thread copies no other job than the one in its hands.
LEMMA CopyOfWorker ==
  ASSUME ThreadsOK, RedisOK, NEW j \in Jobs, NoCopy(j), NEW w \in Workers,
         WorkerStep(w) \/ WorkerFault(w) \/ ShutdownRequeue(w) \/ Crash(w)
  PROVE  NoCopy(j)'
<1>0. wk[w].job # j /\ NoJob # j
  BY Zenon, NoJobAssumption DEF NoCopy
<1>1. ASSUME NEW v \in Workers PROVE wk'[v].job # j
  <2>1. CASE UNCHANGED wk
    BY Zenon, <2>1 DEF NoCopy
  <2>2. CASE wk' = [wk EXCEPT ![w] = Idle]
    BY Zenon, <1>0, <2>2 DEF NoCopy, Idle, ThreadsOK
  <2>3. ASSUME NEW pc, NEW f, wk' = [wk EXCEPT ![w] = [pc |-> pc, job |-> wk[w].job, full |-> f]]
        PROVE  wk'[v].job # j
    BY Zenon, <1>0, <2>3 DEF NoCopy, ThreadsOK
  <2> QED
    BY ZenonT(40), <2>1, <2>2, <2>3 DEF WorkerStep, WorkerFault, Goto, Release, Track, Claim, Begin, NoHandler,
       AfterFailure, Succeed, HandlerFails, Retry, Ack, FailRead, FailDrop, FailBury, TrackError, ClaimError,
       FetchError, BeginError, ResultLost, RetryError, AckError, FailError, ScanError, ShutdownRequeue, Crash
<1>2. UNCHANGED drain
  BY ZenonT(40) DEF WorkerStep, WorkerFault, Track, Claim, Begin, NoHandler, Succeed, HandlerFails, Retry, Ack,
     FailRead, FailDrop, FailBury, TrackError, ClaimError, FetchError, BeginError, ResultLost, RetryError,
     AckError, FailError, ScanError, ShutdownRequeue, Crash
<1>3. /\ list' \in {list, More(list, wk[w].job)} /\ delayed' \in {delayed, More(delayed, wk[w].job)}
      /\ inflight' = inflight \/ \E e : inflight' = [inflight EXCEPT ![wk[w].job] = e]
      /\ dead' = dead \/ \E e : dead' = [dead EXCEPT ![wk[w].job] = e]
  <2>1. CASE UNCHANGED <<list, delayed, inflight, dead>>
    BY Zenon, <2>1
  <2>2. CASE Retry(w) \/ RetryError(w) \/ ShutdownRequeue(w)
    BY Zenon, <2>2 DEF Retry, RetryError, ShutdownRequeue
  <2>3. CASE Track(w) \/ Ack(w) \/ FailDrop(w) \/ AckError(w)
    BY Zenon, <2>3 DEF Track, Ack, FailDrop, AckError, queues
  <2>4. CASE FailBury(w)
    BY Zenon, <2>4 DEF FailBury, queues
  <2> QED
    BY ZenonT(40), <2>1, <2>2, <2>3, <2>4 DEF WorkerStep, WorkerFault, queues, Claim, Begin, NoHandler, Succeed,
       HandlerFails, FailRead, TrackError, ClaimError, FetchError, BeginError, ResultLost, FailError, ScanError,
       Crash
<1>4. list'[j] = 0 /\ delayed'[j] = 0
  BY Zenon, <1>0, <1>3 DEF NoCopy, RedisOK, More
<1>5. inflight'[j] = "none" /\ dead'[j] = {}
  BY Zenon, <1>0, <1>3 DEF NoCopy, RedisOK
<1>6. \/ UNCHANGED scan
      \/ /\ snap' = snap \/ snap' = [snap EXCEPT ![w] = {}]
         /\ push' = [push EXCEPT ![w] = NoJob]
  BY ZenonT(40) DEF scan, WorkerStep, WorkerFault, Track, Claim, Begin, NoHandler, Succeed, HandlerFails, Retry,
     Ack, FailRead, FailDrop, FailBury, TrackError, ClaimError, FetchError, BeginError, ResultLost, RetryError,
     AckError, FailError, ScanError, ShutdownRequeue, Crash
<1>7. ASSUME NEW v \in Workers PROVE push'[v] # j /\ j \notin snap'[v]
  <2>1. CASE UNCHANGED scan
    BY Zenon, <2>1 DEF NoCopy, scan
  <2>2. CASE ~UNCHANGED scan
    BY Zenon, <1>0, <1>6, <2>2 DEF NoCopy, RedisOK
  <2> QED BY Zenon, <2>1, <2>2
<1> QED BY Zenon, <1>1, <1>2, <1>4, <1>5, <1>7 DEF NoCopy

\* Copies come from copies: the first one is made by the sender.
LEMMA CopyFromCopy ==
  ASSUME ThreadsOK, RedisOK, NEW j \in Jobs, NoCopy(j), [Next]_vars
  PROVE  NoCopy(j)' \/ (Enqueue(j) /\ ~Full) \/ EnqueueError(j)
<1>0. NoJob # j
  BY Zenon, NoJobAssumption
<1>1. ASSUME UNCHANGED <<list, delayed, inflight, dead, wk, snap, push, drain>> PROVE NoCopy(j)'
  BY Zenon, <1>1 DEF NoCopy
<1>2. ASSUME NEW i \in Jobs, Submit(i) \/ Defer(i) \/ ProcessDeferred(i) \/ SubmitFails(i) \/ SenderCrash(i)
      PROVE  NoCopy(j)'
  BY Zenon, <1>1, <1>2 DEF Submit, Defer, ProcessDeferred, SubmitFails, SenderCrash, queues, scan
<1>3. CASE UNCHANGED vars \/ CleanupRead \/ CleanupWrite
  BY Zenon, <1>1, <1>3 DEF vars, CleanupRead, CleanupWrite, queues, scan
<1>4. ASSUME NEW i \in Jobs \ {j}, Enqueue(i) \/ EnqueueError(i) PROVE NoCopy(j)'
  <2>1. list'[j] = list[j]
    BY Zenon, <1>4 DEF Enqueue, EnqueueError, More, RedisOK
  <2>2. UNCHANGED <<delayed, inflight, dead, wk, snap, push, drain>>
    BY Zenon, <1>4 DEF Enqueue, EnqueueError, scan
  <2> QED BY Zenon, <2>1, <2>2 DEF NoCopy
<1>5. CASE Enqueue(j) /\ Full
  BY Zenon, <1>1, <1>5 DEF Enqueue, scan
<1>6. ASSUME NEW i \in Jobs, Promote(i) \/ DrainSend(i) PROVE NoCopy(j)'
  <2>1. i # j
    BY Zenon, <1>6, ZeroOrMore DEF Promote, DrainSend, NoCopy
  <2>2. list'[j] = list[j] /\ delayed'[j] = delayed[j]
    BY Zenon, <1>6, <2>1 DEF Promote, DrainSend, More, Less, RedisOK
  <2>3. UNCHANGED <<inflight, dead, wk, snap, push>> /\ j \notin drain'.jobs
    BY <1>6 DEF Promote, DrainSend, scan, NoCopy
  <2> QED BY Zenon, <2>2, <2>3 DEF NoCopy
<1>7. ASSUME NEW i \in Jobs, Age(i) PROVE NoCopy(j)'
  <2>1. inflight'[j] = inflight[j]
    BY Zenon, <1>7 DEF Age, NoCopy, RedisOK
  <2>2. UNCHANGED <<list, delayed, dead, wk, snap, push, drain>>
    BY Zenon, <1>7 DEF Age, queues, scan
  <2> QED BY Zenon, <2>1, <2>2 DEF NoCopy
<1>8. ASSUME NEW w \in Workers, NEW i \in Jobs, Dequeue(w, i) PROVE NoCopy(j)'
  <2>1. i # j
    BY Zenon, <1>8, ZeroOrMore DEF Dequeue, NoCopy
  <2>2. list'[j] = list[j] /\ \A v \in Workers : wk'[v].job # j
    BY Zenon, <1>8, <2>1 DEF Dequeue, Less, RedisOK, ThreadsOK, NoCopy
  <2>3. UNCHANGED <<delayed, inflight, dead, snap, push, drain>>
    BY Zenon, <1>8 DEF Dequeue, scan
  <2> QED BY Zenon, <2>2, <2>3 DEF NoCopy
<1>9. ASSUME NEW w \in Workers, NEW i \in Jobs, ScanDelete(w, i) PROVE NoCopy(j)'
  <2>1. i # j
    BY Zenon, <1>9 DEF ScanDelete, NoCopy
  <2>2. inflight'[j] = inflight[j]
    BY Zenon, <1>9, <2>1 DEF ScanDelete, RedisOK
  <2>3. \A v \in Workers : push'[v] # j /\ j \notin snap'[v]
    BY Zenon, <1>0, <1>9, <2>1 DEF ScanDelete, RedisOK, NoCopy
  <2>4. UNCHANGED <<list, delayed, dead, wk, drain>>
    BY Zenon, <1>9 DEF ScanDelete, queues
  <2> QED BY Zenon, <2>2, <2>3, <2>4 DEF NoCopy
<1>10. ASSUME NEW w \in Workers, ScanRead(w) PROVE NoCopy(j)'
  <2>1. \A v \in Workers : j \notin snap'[v]
    BY Zenon, <1>10 DEF ScanRead, RedisOK, NoCopy
  <2>2. UNCHANGED <<list, delayed, inflight, dead, wk, push, drain>>
    BY Zenon, <1>10 DEF ScanRead, queues
  <2> QED BY Zenon, <2>1, <2>2 DEF NoCopy
<1>11. ASSUME NEW w \in Workers, ScanPush(w) PROVE NoCopy(j)'
  <2>1. push[w] # j
    BY Zenon DEF NoCopy
  <2>2. list'[j] = list[j] /\ \A v \in Workers : push'[v] # j
    BY Zenon, <1>0, <1>11, <2>1 DEF ScanPush, More, RedisOK, NoCopy
  <2>3. UNCHANGED <<delayed, inflight, dead, wk, snap, drain>>
    BY Zenon, <1>11 DEF ScanPush
  <2> QED BY Zenon, <2>2, <2>3 DEF NoCopy
<1>12. CASE DrainPeek \/ DrainTrim
  <2>1. dead'[j] = {}
    BY Zenon, <1>12 DEF DrainPeek, DrainTrim, NoCopy
  <2>2. drain'.jobs = drain.jobs \/ drain'.jobs = {i \in Jobs : TRUE \in dead[i]}
    <3>1. ASSUME NEW S, NEW pc, drain' = [pc |-> pc, jobs |-> S] PROVE drain'.jobs = S
      BY Zenon, <3>1
    <3> QED BY Zenon, <1>12, <3>1 DEF DrainPeek, DrainTrim
  <2>3. j \notin drain'.jobs
    BY Zenon, <2>2 DEF NoCopy
  <2>4. UNCHANGED <<list, delayed, inflight, wk, snap, push>>
    BY Zenon, <1>12 DEF DrainPeek, DrainTrim, queues, scan
  <2> QED BY Zenon, <2>1, <2>3, <2>4 DEF NoCopy
<1>13. ASSUME NEW w \in Workers, WorkerStep(w) \/ WorkerFault(w) \/ ShutdownRequeue(w) \/ Crash(w)
       PROVE  NoCopy(j)'
  BY Zenon, <1>13, CopyOfWorker
<1> QED
  BY Zenon, <1>2, <1>3, <1>4, <1>5, <1>6, <1>7, <1>8, <1>9, <1>10, <1>11, <1>12, <1>13 DEF Next

\* A job whose message has not been sent has no copy, and its row has not moved.
Unsent(j) ==
  /\ sender[j] # "none" => status[j] = "pending"
  /\ status[j] \in {"absent", "deferred"} \/ sender[j] # "none" => NoCopy(j)
NoneBeforeSent == \A j \in Jobs : Unsent(j)

\* The rows and the sender of one job in a step.
LEMMA SenderMoves ==
  ASSUME ThreadsOK, RowsOK, RedisOK, MaxFaults = 0, LimitsOK, old = {}, NEW j \in Jobs, [Next]_vars
  PROVE  /\ ~EnqueueError(j)
         /\ status'[j] \in {"absent", "deferred"} => status[j] \in {"absent", "deferred"}
         /\ sender'[j] # "none" =>
              \/ sender[j] # "none" /\ (NoCopy(j) => status'[j] = status[j] \/ status[j] # "pending")
              \/ status'[j] = "pending" /\ status[j] \in {"absent", "deferred"}
<1>1. faults \in Nat /\ ~Fault
  BY DEF LimitsOK, Fault
<1>2. ASSUME NEW i \in Jobs PROVE ~EnqueueError(i)
  BY Zenon, <1>1 DEF EnqueueError
<1> DEFINE Goal == /\ status'[j] \in {"absent", "deferred"} => status[j] \in {"absent", "deferred"}
                   /\ sender'[j] # "none" =>
                        \/ sender[j] # "none" /\ (NoCopy(j) => status'[j] = status[j] \/ status[j] # "pending")
                        \/ status'[j] = "pending" /\ status[j] \in {"absent", "deferred"}
<1>3. ASSUME status' = status, sender'[j] # "none" => sender[j] # "none" PROVE Goal
  BY Zenon, <1>3
<1>4. ASSUME NEW i \in Jobs, Submit(i) \/ Defer(i) \/ ProcessDeferred(i) \/ SubmitFails(i) PROVE Goal
  BY Zenon, <1>4 DEF Submit, Defer, ProcessDeferred, SubmitFails, RowsOK, RedisOK
<1>5. ASSUME NEW i \in Jobs, Enqueue(i) \/ SenderCrash(i) PROVE Goal
  <2>1. sender'[j] # "none" => sender[j] # "none"
    BY Zenon, <1>5 DEF Enqueue, SenderCrash, RedisOK
  <2> QED BY Zenon, <1>3, <1>5, <2>1 DEF Enqueue, SenderCrash
<1>6. ASSUME NEW w \in Workers, Claim(w) \/ Begin(w) \/ NoHandler(w) \/ Succeed(w) \/ HandlerFails(w) PROVE Goal
  <2>1. UNCHANGED sender
    BY Zenon, <1>6 DEF Claim, Begin, NoHandler, Succeed, HandlerFails
  <2>2. status'[j] \in {"absent", "deferred"} => status[j] \in {"absent", "deferred"}
    BY Zenon, <1>6 DEF Claim, Begin, NoHandler, Succeed, HandlerFails, AfterFailure, RowsOK
  <2>3. wk[w].job # j => status'[j] = status[j]
    BY Zenon, <1>6 DEF Claim, Begin, NoHandler, Succeed, HandlerFails, AfterFailure, RowsOK
  <2>4. NoCopy(j) => wk[w].job # j
    BY Zenon DEF NoCopy
  <2> QED BY Zenon, <2>1, <2>2, <2>3, <2>4
<1>7. ASSUME UNCHANGED <<status, sender>> PROVE Goal
  BY Zenon, <1>3, <1>7
<1> HIDE DEF Goal
<1>8. Goal
  BY ZenonT(40), <1>2, <1>4, <1>5, <1>6, <1>7 DEF Next, WorkerStep, vars, Promote, Age, DrainSend, DrainPeek,
     DrainTrim, CleanupRead, CleanupWrite, Dequeue, ScanDelete, Track, Retry, Ack, FailRead, FailDrop, FailBury,
     TrackError, ClaimError, AckError, ShutdownRequeue, ScanRead, ScanPush, Crash, WorkerFault, FetchError,
     BeginError, ResultLost, RetryError, FailError, ScanError
<1> QED BY Zenon, <1>2, <1>8 DEF Goal

LEMMA UnsentStep ==
  ASSUME ThreadsOK, RowsOK, RedisOK, MaxFaults = 0, LimitsOK, old = {}, NoneBeforeSent, [Next]_vars
  PROVE  NoneBeforeSent'
<1> SUFFICES ASSUME NEW j \in Jobs PROVE Unsent(j)'
  BY Zenon DEF NoneBeforeSent
<1>1. Unsent(j)
  BY Zenon DEF NoneBeforeSent
<1>2. /\ ~EnqueueError(j)
      /\ status'[j] \in {"absent", "deferred"} => status[j] \in {"absent", "deferred"}
      /\ sender'[j] # "none" =>
           \/ sender[j] # "none" /\ (NoCopy(j) => status'[j] = status[j] \/ status[j] # "pending")
           \/ status'[j] = "pending" /\ status[j] \in {"absent", "deferred"}
  BY Zenon, SenderMoves
<1>3. sender'[j] # "none" => status'[j] = "pending"
  BY Zenon, <1>1, <1>2 DEF Unsent
<1>4. ASSUME status'[j] \in {"absent", "deferred"} \/ sender'[j] # "none" PROVE NoCopy(j)'
  <2>1. NoCopy(j)
    BY Zenon, <1>1, <1>2, <1>4 DEF Unsent
  <2>2. ~(Enqueue(j) /\ ~Full)
    <3> SUFFICES ASSUME Enqueue(j), ~Full PROVE FALSE
      OBVIOUS
    <3>1. sender'[j] = "none" /\ status' = status
      BY Zenon DEF Enqueue, RedisOK
    <3>2. status[j] = "pending"
      BY Zenon, <1>1 DEF Enqueue, Unsent
    <3> QED BY Zenon, <1>4, <3>1, <3>2
  <2> QED BY Zenon, <1>2, <2>1, <2>2, CopyFromCopy
<1> QED BY Zenon, <1>3, <1>4 DEF Unsent

\* Where nothing raises, a send that fails has left nothing in the list.
LEMMA FailsInTimeWithoutFaults ==
  ASSUME CleansUp = FALSE, MaxFaults = 0
  PROVE  Spec => []FailsInTime
<1> DEFINE Inv == old = {} /\ NoneBeforeSent
<1>1. Init => Inv
  <2> SUFFICES ASSUME Init PROVE Inv
    OBVIOUS
  <2>1. ASSUME NEW j \in Jobs PROVE NoCopy(j) /\ sender[j] = "none"
    BY Zenon, NoJobAssumption DEF Init, NoCopy, Idle
  <2> QED BY Zenon, <2>1 DEF Init, NoneBeforeSent, Unsent
<1>2. Inv /\ Holding /\ [Next]_vars => Inv'
  BY Zenon, NothingOld, UnsentStep DEF Holding
<1>3. Inv => FailsInTime
  BY Zenon DEF NoneBeforeSent, Unsent, FailsInTime
<1> HIDE DEF Inv
<1> QED BY <1>1, <1>2, <1>3, HoldingInvariant, PTL DEF Spec

\* A job that is done stays done where no clean-up runs and no Redis or database call
\* raises, whatever processes crash.
THEOREM JobDoneOnceWithoutFaults ==
  ASSUME CleansUp = FALSE, MaxFaults = 0
  PROVE  Spec => DoneStaysDone
BY FailsInTimeWithoutFaults, JobDoneOnce, PTL

-----------------------------------------------------------------------------
(* A pending job is on its way *)

\* The places where the code itself drops a message: process_deferred_jobs sends
\* into a full queue; drain_dead_letters trims a letter that it has not read, or
\* that has no payload; it sends a letter into a full queue.
KeepsMessages ==
  /\ Full => \A j \in Jobs : sender[j] # "deferred"
  /\ drain.pc = "trim" => \A j \in Jobs : status[j] = "pending" /\ dead[j] # {} => j \in drain.jobs
  /\ drain.pc = "send" => ~Full

\* HasCopy without the in-flight entry, which any worker's ack deletes.
OnItsWay(j) ==
  \/ sender[j] # "none" \/ list[j] > 0 \/ delayed[j] > 0 \/ dead[j] # {} \/ j \in drain.jobs
  \/ \E w \in Workers : wk[w].job = j /\ wk[w].pc \notin {"idle", "ack"}
  \/ \E w \in Workers : push[w] = j
EachOnItsWay == \A j \in Jobs : status[j] = "pending" => OnItsWay(j)
DrainedOnce == drain.pc = "idle" => drain.jobs = {}

\* The drain is idle only when it has nothing left to send.
LEMMA DrainStep ==
  ASSUME DrainedOnce, [Next]_vars
  PROVE  DrainedOnce'
<1>1. CASE UNCHANGED drain
  BY Zenon, <1>1 DEF DrainedOnce
<1>2. CASE DrainPeek
  BY Zenon, <1>2 DEF DrainPeek, DrainedOnce
<1>3. CASE DrainTrim
  BY Zenon, <1>3 DEF DrainTrim, DrainedOnce
<1>4. ASSUME NEW j \in Jobs, DrainSend(j) PROVE DrainedOnce'
  BY Zenon, <1>4 DEF DrainSend, DrainedOnce
<1> QED
  BY ZenonT(40), <1>1, <1>2, <1>3, <1>4 DEF Next, WorkerStep, vars, Submit, Defer, ProcessDeferred, Enqueue,
     EnqueueError, SubmitFails, Promote, Age, SenderCrash, CleanupRead, CleanupWrite, Dequeue, ScanDelete, Track,
     Succeed, Retry, Ack, FailRead, FailDrop, FailBury, TrackError, ClaimError, AckError, ShutdownRequeue,
     ScanRead, ScanPush, Crash, Claim, Begin, NoHandler, HandlerFails, WorkerFault, FetchError, BeginError,
     ResultLost, RetryError, FailError, ScanError

\* A job that a worker does not hold keeps its row and its messages in that worker's step.
LEMMA OthersOnTheirWay ==
  ASSUME ThreadsOK, RowsOK, RedisOK, NEW w \in Workers, ~Fault, WorkerStep(w),
         NEW j \in Jobs, wk[w].job # j, status[j] = "pending" => OnItsWay(j), status'[j] = "pending"
  PROVE  OnItsWay(j)'
<1>1. UNCHANGED <<sender, list, push, drain>>
  BY ZenonT(40) DEF WorkerStep, queues, scan, Track, Claim, Begin, NoHandler, Succeed, HandlerFails, Retry, Ack,
     FailRead, FailDrop, FailBury
<1>2. status'[j] = status[j]
  BY Zenon DEF WorkerStep, Track, Claim, Begin, NoHandler, AfterFailure, Succeed, HandlerFails, Retry, Ack, FailRead,
         FailDrop, FailBury, RowsOK
<1>3. delayed'[j] = delayed[j]
  <2>1. CASE Retry(w)
    BY Zenon, <2>1 DEF Retry, More, RedisOK
  <2> QED BY Zenon, <2>1 DEF WorkerStep, queues, Track, Claim, Begin, NoHandler, Succeed, HandlerFails, Ack,
                             FailRead, FailDrop, FailBury
<1>4. dead'[j] = dead[j]
  <2>1. CASE FailBury(w)
    BY Zenon, <2>1 DEF FailBury, RedisOK
  <2> QED BY Zenon, <2>1 DEF WorkerStep, Track, Claim, Begin, NoHandler, Succeed, HandlerFails, Retry, Ack,
                             FailRead, FailDrop
<1>5. \A v \in Workers : wk[v].job = j => wk'[v] = wk[v]
  BY Zenon DEF WorkerStep, Goto, Release, AfterFailure, ThreadsOK, Track, Claim, Begin, NoHandler, Succeed,
         HandlerFails, Retry, Ack, FailRead, FailDrop, FailBury
<1> QED BY Zenon, <1>1, <1>2, <1>3, <1>4, <1>5 DEF OnItsWay

\* The worker that holds the job passes it on.
LEMMA OwnOnItsWay ==
  ASSUME ThreadsOK, RowsOK, RedisOK, NEW w \in Workers, ~Fault, WorkerStep(w),
         NEW j \in Jobs, wk[w].job = j, status[j] = "pending" => OnItsWay(j), status'[j] = "pending"
  PROVE  OnItsWay(j)'
<1>1. ASSUME NEW pc \in Pcs \ {"idle", "ack"}, wk[w].pc # "idle", Goto(w, pc) PROVE OnItsWay(j)'
  <2>2. wk'[w].job = j /\ wk'[w].pc \notin {"idle", "ack"}
    BY Zenon, <1>1, GotoFields
  <2> QED BY Zenon, <2>2 DEF OnItsWay
<1>2. CASE Track(w) \/ FailDrop(w)
  BY Zenon, <1>1, <1>2 DEF Track, FailDrop, At, Pcs
<1>3. CASE FailRead(w)
  <2>1. wk'[w].job = j /\ wk'[w].pc = "drop"
    BY Zenon, <1>3 DEF FailRead, ThreadsOK
  <2> QED BY Zenon, <2>1 DEF OnItsWay
<1>4. CASE Claim(w) \/ Begin(w) \/ Succeed(w)
  BY Zenon, <1>4 DEF Claim, Begin, Succeed, RowsOK
<1>5. CASE NoHandler(w)
  BY Zenon, <1>5 DEF NoHandler
<1>6. CASE HandlerFails(w)
  <2>1. attempts[j] < MaxAttempts
    BY Zenon, <1>6 DEF HandlerFails, AfterFailure, RowsOK
  <2>2. Goto(w, "retry") /\ wk[w].pc # "idle"
    BY Zenon, <1>6, <2>1 DEF HandlerFails, AfterFailure, At
  <2> QED BY Zenon, <1>1, <2>2 DEF Pcs
<1>7. CASE Retry(w)
  <2>1. CASE Full
    BY Zenon, <1>1, <1>7, <2>1 DEF Retry, At, Pcs
  <2>2. CASE ~Full
    <3>1. delayed'[j] > 0
      BY Zenon, <1>7, <2>2, MoreOK DEF Retry, RedisOK
    <3> QED BY Zenon, <3>1 DEF OnItsWay
  <2> QED BY Zenon, <2>1, <2>2
<1>8. CASE Ack(w)
  <2>1. UNCHANGED <<status, sender, list, delayed, dead, push, drain>>
    BY Zenon, <1>8 DEF Ack, queues, scan
  <2>2. \A v \in Workers : wk[v].pc # "ack" => wk'[v] = wk[v]
    BY Zenon, <1>8 DEF Ack, At, Release, ThreadsOK
  <2> QED BY Zenon, <2>1, <2>2 DEF OnItsWay
<1>9. CASE FailBury(w)
  <2>1. dead'[j] # {}
    BY Zenon, <1>9 DEF FailBury, RedisOK
  <2> QED BY Zenon, <2>1 DEF OnItsWay
<1> QED BY Zenon, <1>2, <1>3, <1>4, <1>5, <1>6, <1>7, <1>8, <1>9 DEF WorkerStep

\* The steps of the senders, of the recovery threads, of the leader and of the operator.
LEMMA QueuesOnTheirWay ==
  ASSUME ThreadsOK, RowsOK, RedisOK, KeepsMessages, DrainedOnce,
         NEW j \in Jobs, status[j] = "pending" => OnItsWay(j), status'[j] = "pending",
         \/ \E i \in Jobs : \/ Submit(i) \/ Defer(i) \/ ProcessDeferred(i) \/ Enqueue(i) \/ SubmitFails(i)
                            \/ Promote(i) \/ Age(i) \/ DrainSend(i)
         \/ \E w \in Workers : ScanRead(w) \/ ScanPush(w)
         \/ \E w \in Workers, i \in Jobs : Dequeue(w, i) \/ ScanDelete(w, i)
         \/ DrainPeek \/ DrainTrim \/ CleanupRead \/ CleanupWrite
  PROVE  OnItsWay(j)'
<1>1. ASSUME NEW i \in Jobs, Submit(i) \/ Defer(i) \/ ProcessDeferred(i) \/ SubmitFails(i) PROVE OnItsWay(j)'
  <2>1. sender'[j] # "none" \/ (status[j] = "pending" /\ sender'[j] = sender[j])
    BY Zenon, <1>1 DEF Submit, Defer, ProcessDeferred, SubmitFails, RowsOK, RedisOK
  <2>2. UNCHANGED <<list, delayed, dead, wk, push, drain>>
    BY Zenon, <1>1 DEF Submit, Defer, ProcessDeferred, SubmitFails, queues, scan
  <2> QED BY Zenon, <2>1, <2>2 DEF OnItsWay
<1>2. ASSUME NEW i \in Jobs, Enqueue(i) PROVE OnItsWay(j)'
  <2>1. UNCHANGED <<status, delayed, dead, wk, push, drain>>
    BY Zenon, <1>2 DEF Enqueue, scan
  <2>2. CASE i = j
    <3>1. sender'[j] # "none" \/ list'[j] > 0
      BY Zenon, <1>2, <2>2, MoreOK DEF Enqueue, KeepsMessages, RedisOK
    <3> QED BY Zenon, <3>1 DEF OnItsWay
  <2>3. CASE i # j
    <3>1. sender'[j] = sender[j] /\ list'[j] = list[j]
      BY Zenon, <1>2, <2>3 DEF Enqueue, More, RedisOK
    <3> QED BY Zenon, <2>1, <3>1 DEF OnItsWay
  <2> QED BY Zenon, <2>2, <2>3
<1>3. ASSUME NEW i \in Jobs, Promote(i) PROVE OnItsWay(j)'
  <2>1. UNCHANGED <<status, sender, dead, wk, push, drain>>
    BY Zenon, <1>3 DEF Promote, scan
  <2>2. list'[j] > 0 \/ (list'[j] = list[j] /\ delayed'[j] = delayed[j])
    <3>1. CASE i = j
      BY Zenon, <1>3, <3>1, MoreOK DEF Promote, RedisOK
    <3>2. CASE i # j
      BY Zenon, <1>3, <3>2 DEF Promote, More, Less, RedisOK
    <3> QED BY Zenon, <3>1, <3>2
  <2> QED BY Zenon, <2>1, <2>2 DEF OnItsWay
<1>4. ASSUME \/ \E i \in Jobs : Age(i)
             \/ \E w \in Workers : ScanRead(w)
             \/ CleanupRead
      PROVE  OnItsWay(j)'
  <2>1. UNCHANGED <<status, sender, list, delayed, dead, wk, push, drain>>
    BY Zenon, <1>4 DEF Age, ScanRead, CleanupRead, queues, scan
  <2> QED BY Zenon, <2>1 DEF OnItsWay
<1>5. CASE CleanupWrite
  <2>1. UNCHANGED <<sender, list, delayed, dead, wk, push, drain>>
    BY Zenon, <1>5 DEF CleanupWrite, queues, scan
  <2>2. status[j] = "pending"
    BY Zenon, <1>5 DEF CleanupWrite
  <2> QED BY Zenon, <2>1, <2>2 DEF OnItsWay
<1>6. ASSUME NEW i \in Jobs, DrainSend(i) PROVE OnItsWay(j)'
  <2>1. UNCHANGED <<status, sender, delayed, dead, wk, push>>
    BY Zenon, <1>6 DEF DrainSend, scan
  <2>2. list' = More(list, i)
    BY Zenon, <1>6 DEF DrainSend, KeepsMessages
  <2>3. CASE i = j
    <3>1. list'[j] > 0
      BY Zenon, <2>2, <2>3, MoreOK DEF RedisOK
    <3> QED BY Zenon, <3>1 DEF OnItsWay
  <2>4. CASE i # j
    <3>1. list'[j] = list[j]
      BY Zenon, <2>2, <2>4 DEF More, RedisOK
    <3>2. j \in drain.jobs => j \in drain'.jobs
      BY Zenon, <1>6, <2>4 DEF DrainSend
    <3> QED BY Zenon, <2>1, <3>1, <3>2 DEF OnItsWay
  <2> QED BY Zenon, <2>3, <2>4
<1>7. CASE DrainPeek
  <2>1. UNCHANGED <<status, sender, list, delayed, dead, wk, push>>
    BY Zenon, <1>7 DEF DrainPeek, queues, scan
  <2>2. j \notin drain.jobs
    BY Zenon, <1>7 DEF DrainPeek, DrainedOnce
  <2> QED BY Zenon, <2>1, <2>2 DEF OnItsWay
<1>8. CASE DrainTrim
  <2>1. UNCHANGED <<status, sender, list, delayed, wk, push>>
    BY Zenon, <1>8 DEF DrainTrim, queues, scan
  <2>2. drain'.jobs = drain.jobs
    BY Zenon, <1>8 DEF DrainTrim
  <2>3. dead[j] # {} => j \in drain.jobs
    BY Zenon, <1>8, <2>1 DEF DrainTrim, KeepsMessages
  <2> QED BY Zenon, <2>1, <2>2, <2>3 DEF OnItsWay
<1>9. ASSUME NEW w \in Workers, NEW i \in Jobs, Dequeue(w, i) PROVE OnItsWay(j)'
  <2>1. UNCHANGED <<status, sender, delayed, dead, push, drain>>
    BY Zenon, <1>9 DEF Dequeue, scan
  <2>2. CASE i = j
    <3>1. wk'[w].job = j /\ wk'[w].pc = "track"
      BY Zenon, <1>9, <2>2 DEF Dequeue, ThreadsOK
    <3> QED BY Zenon, <3>1 DEF OnItsWay
  <2>3. CASE i # j
    <3>1. list'[j] = list[j]
      BY Zenon, <1>9, <2>3 DEF Dequeue, Less, RedisOK
    <3>2. \A v \in Workers : wk[v].pc # "idle" => wk'[v] = wk[v]
      BY Zenon, <1>9 DEF Dequeue, At, ThreadsOK
    <3> QED BY Zenon, <2>1, <3>1, <3>2 DEF OnItsWay
  <2> QED BY Zenon, <2>2, <2>3
<1>10. ASSUME NEW w \in Workers, NEW i \in Jobs, ScanDelete(w, i) PROVE OnItsWay(j)'
  <2>1. UNCHANGED <<status, sender, list, delayed, dead, wk, drain>>
    BY Zenon, <1>10 DEF ScanDelete, queues
  <2>2. \A v \in Workers : push[v] = j => push'[v] = j
    BY Zenon, <1>10, NoJobAssumption DEF ScanDelete, RedisOK
  <2> QED BY Zenon, <2>1, <2>2 DEF OnItsWay
<1>11. ASSUME NEW w \in Workers, ScanPush(w) PROVE OnItsWay(j)'
  <2>1. UNCHANGED <<status, sender, delayed, dead, wk, drain>>
    BY Zenon, <1>11 DEF ScanPush
  <2>2. CASE push[w] = j
    <3>1. list'[j] > 0
      BY Zenon, <1>11, <2>2, MoreOK DEF ScanPush, RedisOK
    <3> QED BY Zenon, <3>1 DEF OnItsWay
  <2>3. CASE push[w] # j
    <3>1. list'[j] = list[j]
      BY Zenon, <1>11, <2>3 DEF ScanPush, More, RedisOK
    <3>2. \A v \in Workers : push[v] = j => push'[v] = j
      BY Zenon, <1>11, <2>3 DEF ScanPush, RedisOK
    <3> QED BY Zenon, <2>1, <3>1, <3>2 DEF OnItsWay
  <2> QED BY Zenon, <2>2, <2>3
<1> QED BY Zenon, <1>1, <1>2, <1>3, <1>4, <1>5, <1>6, <1>7, <1>8, <1>9, <1>10, <1>11

\* As long as nothing has crashed or raised, a step loses no pending job.
LEMMA OnItsWayStep ==
  ASSUME ThreadsOK, RowsOK, RedisOK, LimitsOK, KeepsMessages, DrainedOnce, EachOnItsWay, [Next]_vars,
         crashes' = 0, faults' = 0
  PROVE  EachOnItsWay'
<1> SUFFICES ASSUME NEW j \in Jobs, status'[j] = "pending" PROVE OnItsWay(j)'
  BY Zenon DEF EachOnItsWay
<1>1. crashes \in Nat /\ faults \in Nat
  BY BoundsAssumption DEF LimitsOK
<1>2. ~Fault
  BY <1>1 DEF Fault
<1>3. crashes' # crashes + 1
  BY <1>1
<1>4. status[j] = "pending" => OnItsWay(j)
  BY Zenon DEF EachOnItsWay
<1>5. CASE UNCHANGED vars
  BY Zenon, <1>4, <1>5 DEF vars, OnItsWay
<1>6. ASSUME NEW w \in Workers, WorkerStep(w) PROVE OnItsWay(j)'
  BY Zenon, <1>2, <1>4, <1>6, OthersOnTheirWay, OwnOnItsWay
<1>7. ASSUME NEW w \in Workers PROVE ~WorkerFault(w)
  BY Zenon, <1>2 DEF WorkerFault, TrackError, ClaimError, FetchError, BeginError, ResultLost, RetryError,
                     AckError, FailError, ScanError
<1>8. ASSUME NEW w \in Workers PROVE ~ShutdownRequeue(w) /\ ~Crash(w)
  BY Zenon, <1>3 DEF ShutdownRequeue, Crash
<1>9. ASSUME NEW i \in Jobs PROVE ~EnqueueError(i) /\ ~SenderCrash(i)
  BY Zenon, <1>2, <1>3 DEF EnqueueError, SenderCrash
<1>10. CASE \/ \E i \in Jobs : \/ Submit(i) \/ Defer(i) \/ ProcessDeferred(i) \/ Enqueue(i) \/ SubmitFails(i)
                               \/ Promote(i) \/ Age(i) \/ DrainSend(i)
            \/ \E w \in Workers : ScanRead(w) \/ ScanPush(w)
            \/ \E w \in Workers, i \in Jobs : Dequeue(w, i) \/ ScanDelete(w, i)
            \/ DrainPeek \/ DrainTrim \/ CleanupRead \/ CleanupWrite
  BY Zenon, <1>4, <1>10, QueuesOnTheirWay
<1> QED BY Zenon, <1>5, <1>6, <1>7, <1>8, <1>9, <1>10 DEF Next

\* Until the first crash or the first call that raises, a pending job is on its way,
\* unless the code drops its message at one of the places of KeepsMessages.
THEOREM PendingOnItsWay ==
  Spec /\ []KeepsMessages => [](crashes = 0 /\ faults = 0 => PendingHasCopy)
<1> DEFINE Clean == crashes = 0 /\ faults = 0
           Inv == DrainedOnce /\ (Clean => EachOnItsWay)
<1>1. Init => Inv
  BY DEF Init, DrainedOnce, EachOnItsWay
<1>2. Inv /\ Holding /\ KeepsMessages /\ [Next]_vars => Inv'
  <2> SUFFICES ASSUME Inv, Holding, KeepsMessages, [Next]_vars PROVE Inv'
    OBVIOUS
  <2>1. DrainedOnce'
    BY Zenon, DrainStep
  <2>2. ASSUME Clean' PROVE Clean
    BY <2>2, FaultsStep, CrashesStep, BoundsAssumption DEF Holding, LimitsOK
  <2>3. Clean' => EachOnItsWay'
    BY Zenon, <2>2, OnItsWayStep DEF Holding
  <2> QED BY Zenon, <2>1, <2>3
<1>3. Inv => (crashes = 0 /\ faults = 0 => PendingHasCopy)
  <2>1. ASSUME NEW j \in Jobs, OnItsWay(j) PROVE HasCopy(j)
    BY Zenon, <2>1 DEF OnItsWay, HasCopy, At
  <2> QED BY Zenon, <2>1 DEF EachOnItsWay, PendingHasCopy
<1> HIDE DEF Inv
<1> QED BY <1>1, <1>2, <1>3, HoldingInvariant, PTL DEF Spec

-----------------------------------------------------------------------------
(* Refinement of the ledger of jobs *)

Active == {"begin", "run"}
Holders(j) == {w \in Workers : Executing(w, j)}

\* Nobody starts or stops executing: the holders stay.
LEMMA HoldersStay ==
  ASSUME \A v \in Workers : \/ wk'[v] = wk[v]
                            \/ wk[v].pc \notin Active /\ wk'[v].pc \notin Active
                            \/ wk[v].pc \in Active /\ wk'[v].pc \in Active /\ wk'[v].job = wk[v].job
  PROVE  \A j \in Jobs : Holders(j)' = Holders(j)
  BY Zenon DEF Holders, Executing, Active

\* A worker stops executing its job, which nobody holds then.
LEMMA HoldersLeave ==
  ASSUME OneHolder, NEW w \in Workers, NEW i \in Jobs, Executing(w, i), wk'[w].pc \notin Active,
         \A v \in Workers \ {w} : wk'[v] = wk[v]
  PROVE  /\ Holders(i) = {w} /\ Holders(i)' = {}
         /\ \A j \in Jobs \ {i} : Holders(j)' = Holders(j)
<1>1. \A v \in Workers : Executing(v, i) => v = w
  BY Zenon DEF OneHolder
<1>2. \A v \in Workers : ~Executing(v, i)'
  BY Zenon, <1>1 DEF Executing, Active
<1>3. \A j \in Jobs \ {i} : \A v \in Workers : Executing(v, j)' <=> Executing(v, j)
  BY Zenon DEF Executing, Active
<1> QED BY Zenon, <1>1, <1>2, <1>3 DEF Holders

\* What the ledger sees of a step that concerns one job.
LEMMA LedgerFrame ==
  ASSUME NEW i \in Jobs, NEW s, status' = [status EXCEPT ![i] = s], RowsOK,
         \A j \in Jobs \ {i} : Holders(j)' = Holders(j)
  PROVE  /\ LedgerPhases[i] = LedgerPhase(status[i]) /\ LedgerHolders[i] = Holders(i)
         /\ LedgerPhases' = [LedgerPhases EXCEPT ![i] = LedgerPhase(s)]
         /\ LedgerHolders' = [LedgerHolders EXCEPT ![i] = Holders(i)']
<1>1. \A j \in Jobs : status'[j] = IF j = i THEN s ELSE status[j]
  BY Zenon DEF RowsOK
<1>2. LedgerPhases' = [LedgerPhases EXCEPT ![i] = LedgerPhase(s)]
  <2>1. status'[i] = s /\ \A j \in Jobs \ {i} : status'[j] = status[j]
    BY Zenon, <1>1
  <2>2. \A j \in Jobs \ {i} : LedgerPhase(status'[j]) = LedgerPhase(status[j])
    BY Zenon, <2>1
  <2>3. LedgerPhase(status'[i]) = LedgerPhase(s)
    BY Zenon, <2>1
  <2>4. LedgerPhases' = [j \in Jobs |-> LedgerPhase(status'[j])]
    BY Zenon DEF LedgerPhases, LedgerPhase
  <2> QED BY Zenon, <2>2, <2>3, <2>4 DEF LedgerPhases
<1>3. LedgerHolders' = [LedgerHolders EXCEPT ![i] = Holders(i)']
  BY Zenon DEF LedgerHolders, Holders
<1> QED BY Zenon, <1>2, <1>3 DEF LedgerPhases, LedgerHolders, Holders

\* What the ledger sees of a step that changes neither rows nor holders.
LEMMA LedgerStutter ==
  ASSUME \A j \in Jobs : status'[j] = status[j], \A j \in Jobs : Holders(j)' = Holders(j),
         claims' = claims
  PROVE  UNCHANGED Ledger!ledger
<1>1. LedgerPhases' = LedgerPhases
  BY Zenon DEF LedgerPhases
<1>2. LedgerHolders' = LedgerHolders
  BY Zenon DEF LedgerHolders, Holders
<1> QED BY Zenon, <1>1, <1>2 DEF Ledger!ledger

\* Submission and its failure accept a job or withdraw it.
LEMMA LedgerSubmission ==
  ASSUME RowsOK, OneHolder, FailsInTime, NEW i \in Jobs,
         Submit(i) \/ Defer(i) \/ ProcessDeferred(i) \/ SubmitFails(i)
  PROVE  Ledger!Accept(i) \/ Ledger!Withdraw(i) \/ UNCHANGED Ledger!ledger
<1>0. wk' = wk /\ claims' = claims
  BY Zenon DEF Submit, Defer, ProcessDeferred, SubmitFails
<1>1. \A j \in Jobs : Holders(j)' = Holders(j)
  BY Zenon, <1>0, HoldersStay
<1>2. PICK s \in {"pending", "deferred", "ignored", "failed"} :
        /\ status' = [status EXCEPT ![i] = s]
        /\ \/ s = "pending" /\ status[i] \in {"absent", "deferred"}
           \/ s = "deferred" /\ status[i] = "absent"
           \/ s \in {"ignored", "failed"} /\ status[i] \in {"deferred", "pending"}
  BY Zenon DEF Submit, Defer, ProcessDeferred, SubmitFails, FailsInTime
<1>3. /\ LedgerPhases[i] = LedgerPhase(status[i]) /\ LedgerHolders[i] = Holders(i)
      /\ LedgerPhases' = [LedgerPhases EXCEPT ![i] = LedgerPhase(s)]
      /\ LedgerHolders' = [LedgerHolders EXCEPT ![i] = Holders(i)']
  BY Zenon, <1>1, <1>2, LedgerFrame
<1>4. LedgerHolders' = LedgerHolders
  BY Zenon, <1>1 DEF LedgerHolders, Holders
<1>5. CASE s = "pending"
  <2>1. LedgerPhase(s) = "open" /\ LedgerPhase(status[i]) = "new"
    BY Zenon, <1>2, <1>5 DEF LedgerPhase
  <2> QED BY Zenon, <1>0, <1>3, <1>4, <2>1 DEF Ledger!Accept
<1>6. CASE s = "deferred"
  <2>1. LedgerPhase(s) = LedgerPhase(status[i])
    BY Zenon, <1>2, <1>6 DEF LedgerPhase
  <2>2. LedgerPhases' = LedgerPhases
    BY Zenon, <1>3, <2>1 DEF LedgerPhases
  <2> QED BY Zenon, <1>0, <1>4, <2>2 DEF Ledger!ledger
<1>7. CASE s \in {"ignored", "failed"}
  <2>1. LedgerPhase(s) = "over" /\ LedgerPhase(status[i]) \in {"new", "open"}
    BY Zenon, <1>2, <1>7 DEF LedgerPhase
  <2>2. status[i] \in Open
    BY Zenon, <1>2, <1>7 DEF Open
  <2>3. Holders(i) = {}
    BY Zenon, <2>2 DEF OneHolder, Holders
  <2> QED BY Zenon, <1>0, <1>3, <1>4, <2>1, <2>3 DEF Ledger!Withdraw
<1> QED BY Zenon, <1>2, <1>5, <1>6, <1>7

\* The UPDATE of _try_claim_job takes the job or changes nothing.
LEMMA LedgerClaim ==
  ASSUME Holding, ClaimsCounted, NEW w \in Workers, Claim(w)
  PROVE  (\E i \in Jobs : Ledger!Take(w, i)) \/ UNCHANGED Ledger!ledger
<1>0. ThreadsOK /\ RowsOK /\ OneHolder /\ AttemptsLeft /\ wk[w].pc = "claim" /\ wk[w].pc # "idle"
  BY Zenon DEF Holding, Claim, At
<1>1. PICK i \in Jobs : i = wk[w].job
  BY Zenon, <1>0 DEF ThreadsOK
<1>2. CASE status[i] = "pending"
  <2>1. /\ wk'[w] = [pc |-> "begin", job |-> i, full |-> wk[w].full]
        /\ \A v \in Workers \ {w} : wk'[v] = wk[v]
    BY Zenon, <1>0, <1>1, <1>2, GotoOK DEF Claim, Pcs
  <2>2. status' = [status EXCEPT ![i] = "running"] /\ claims' = Counted(i)
    BY Zenon, <1>1, <1>2 DEF Claim
  <2>3. \A v \in Workers : ~Executing(v, i)
    BY Zenon, <1>0, <1>2 DEF OneHolder, Open
  <2>4. Executing(w, i)' /\ wk'[w].job = i
    <3>1. wk'[w].pc = "begin" /\ wk'[w].job = i
      BY Zenon, <1>0, <1>1, <1>2, GotoFields, PcNames DEF Claim
    <3> QED BY Zenon, <3>1 DEF Executing
  <2>5. Holders(i) = {} /\ Holders(i)' = {w}
    BY Zenon, <2>1, <2>3, <2>4 DEF Holders, Executing
  <2>6. \A j \in Jobs \ {i} : Holders(j)' = Holders(j)
    <3>1. \A j \in Jobs \ {i} : ~Executing(w, j) /\ ~Executing(w, j)'
      BY Zenon, <1>1, <2>4 DEF Executing
    <3> QED BY Zenon, <2>1, <3>1 DEF Holders, Executing
  <2>7. claims[i] < MaxAttempts + MaxFaults /\ claims[i] # ClaimsCap
    <3>1. claims[i] <= attempts[i] + faults /\ attempts[i] < MaxAttempts
      BY Zenon, <1>0, <1>2 DEF ClaimsCounted, ClaimsMatch, AttemptsLeft, HasAttempt, Open
    <3>2. claims[i] \in Nat /\ attempts[i] \in Nat /\ faults \in Nat /\ faults <= MaxFaults
      BY <1>0, BoundsAssumption DEF Holding, RowsOK, LimitsOK, ClaimsCap
    <3> QED BY <3>1, <3>2, BoundsAssumption DEF ClaimsCap
  <2>8. claims' = [claims EXCEPT ![i] = @ + 1]
    BY Zenon, <2>2, <2>7 DEF Counted
  <2>9. /\ LedgerPhases[i] = LedgerPhase(status[i]) /\ LedgerHolders[i] = Holders(i)
        /\ LedgerPhases' = [LedgerPhases EXCEPT ![i] = LedgerPhase("running")]
        /\ LedgerHolders' = [LedgerHolders EXCEPT ![i] = Holders(i)']
    BY Zenon, <1>0, <2>2, <2>6, LedgerFrame
  <2>10. LedgerPhase(status[i]) = "open" /\ LedgerPhase("running") = "held"
    BY Zenon, <1>2 DEF LedgerPhase
  <2>11. Ledger!Take(w, i)
    BY Zenon, <2>5, <2>7, <2>8, <2>9, <2>10 DEF Ledger!Take
  <2> QED BY Zenon, <2>11
<1>3. CASE status[i] # "pending"
  <2>1. wk'[w].pc = "ack" /\ \A v \in Workers \ {w} : wk'[v] = wk[v]
    BY Zenon, <1>0, <1>1, <1>3, GotoFields, PcNames DEF Claim
  <2>2. \A j \in Jobs : status'[j] = status[j]
    BY Zenon, <1>0, <1>1, <1>3 DEF Claim, RowsOK
  <2>3. claims' = claims
    BY Zenon, <1>1, <1>3 DEF Claim
  <2>4. wk[w].pc \notin Active /\ wk'[w].pc \notin Active
    BY Zenon, <1>0, <2>1 DEF Active
  <2>5. \A j \in Jobs : Holders(j)' = Holders(j)
    BY Zenon, <2>1, <2>4, HoldersStay
  <2> QED BY Zenon, <2>2, <2>3, <2>5, LedgerStutter
<1> QED BY Zenon, <1>2, <1>3

\* The end of an execution, whether it succeeds, fails, raises or is cut off.
LEMMA LedgerLeave ==
  ASSUME RowsOK, OneHolder, ExecutorRuns, NEW w \in Workers, NEW i \in Jobs, Executing(w, i),
         wk'[w].pc \notin Active, \A v \in Workers \ {w} : wk'[v] = wk[v], claims' = claims,
         NEW s \in {"success", "failed", "pending", "running"}, status' = [status EXCEPT ![i] = s]
  PROVE  \E next \in {"open", "over", "held"} : Ledger!Leave(w, i, next)
<1>1. /\ Holders(i) = {w} /\ Holders(i)' = {}
      /\ \A j \in Jobs \ {i} : Holders(j)' = Holders(j)
  BY Zenon, HoldersLeave
<1>2. /\ LedgerPhases[i] = LedgerPhase(status[i]) /\ LedgerHolders[i] = Holders(i)
      /\ LedgerPhases' = [LedgerPhases EXCEPT ![i] = LedgerPhase(s)]
      /\ LedgerHolders' = [LedgerHolders EXCEPT ![i] = Holders(i)']
  BY Zenon, <1>1, LedgerFrame
<1>3. status[i] = "running"
  BY Zenon DEF ExecutorRuns
<1>4. LedgerPhase(status[i]) = "held" /\ LedgerPhase(s) \in {"open", "over", "held"}
  BY Zenon, <1>3 DEF LedgerPhase
<1>5. Ledger!Leave(w, i, LedgerPhase(s))
  BY Zenon, <1>1, <1>2, <1>4 DEF Ledger!Leave
<1> QED BY Zenon, <1>4, <1>5

\* The steps of a worker that executes a job.
LEMMA LedgerExecutor ==
  ASSUME ThreadsOK, RowsOK, OneHolder, ExecutorRuns, NEW w \in Workers, wk[w].pc \in Active,
         WorkerStep(w) \/ WorkerFault(w) \/ Crash(w) \/ ShutdownRequeue(w)
  PROVE  \/ \E i \in Jobs, next \in {"open", "over", "held"} : Ledger!Leave(w, i, next)
         \/ UNCHANGED Ledger!ledger
<1>0. /\ wk[w].pc \notin {"idle", "track", "claim", "retry", "ack", "fail", "drop", "bury"}
      /\ wk[w].pc # "idle"
  BY Zenon DEF Active
<1>1. PICK i \in Jobs : i = wk[w].job /\ Executing(w, i) /\ status[i] = "running"
  BY Zenon, <1>0 DEF ThreadsOK, Executing, ExecutorRuns, Active
<1>2. ASSUME NEW pc \in Pcs \ {"idle"}, Goto(w, pc)
      PROVE  wk'[w].pc = pc /\ wk'[w].job = i /\ \A v \in Workers \ {w} : wk'[v] = wk[v]
  BY Zenon, <1>0, <1>1, <1>2, GotoFields
<1>3. CASE Begin(w) \/ BeginError(w)
  <2>1. wk'[w].pc = "run" /\ wk'[w].job = i /\ \A v \in Workers \ {w} : wk'[v] = wk[v]
    BY Zenon, <1>2, <1>3 DEF Begin, BeginError, Pcs
  <2>2. \A j \in Jobs : status'[j] = status[j]
    BY Zenon, <1>1, <1>3 DEF Begin, BeginError, RowsOK
  <2>3. wk'[w].pc \in Active
    BY Zenon, <2>1 DEF Active
  <2>4. \A j \in Jobs : Holders(j)' = Holders(j)
    BY Zenon, <1>1, <2>1, <2>3, HoldersStay
  <2>5. claims' = claims
    BY Zenon, <1>3 DEF Begin, BeginError
  <2> QED BY Zenon, <2>2, <2>4, <2>5, LedgerStutter
<1>4. ASSUME NEW s \in {"success", "failed", "pending", "running"}, status' = [status EXCEPT ![i] = s],
             claims' = claims, wk'[w].pc \notin Active, \A v \in Workers \ {w} : wk'[v] = wk[v]
      PROVE  \E k \in Jobs, next \in {"open", "over", "held"} : Ledger!Leave(w, k, next)
  BY Zenon, <1>1, <1>4, LedgerLeave
<1>5. CASE Succeed(w)
  <2>1. wk'[w].pc \notin Active /\ \A v \in Workers \ {w} : wk'[v] = wk[v]
    BY Zenon, <1>2, <1>5, PcNames DEF Succeed, Active
  <2> QED BY Zenon, <1>1, <1>4, <1>5, <2>1 DEF Succeed
<1>6. CASE NoHandler(w) \/ HandlerFails(w)
  <2> DEFINE again == attempts[wk[w].job] < MaxAttempts
  <2>1. AfterFailure(w, again) /\ claims' = claims
    BY Zenon, <1>6 DEF NoHandler, HandlerFails
  <2> HIDE DEF again
  <2>2. wk'[w].pc \notin Active /\ \A v \in Workers \ {w} : wk'[v] = wk[v]
    BY Zenon, <1>2, <2>1, PcNames DEF AfterFailure, Active
  <2> QED BY Zenon, <1>1, <1>4, <2>1, <2>2 DEF AfterFailure
<1>7. status' = status => status' = [status EXCEPT ![i] = "running"]
  BY Zenon, <1>1 DEF RowsOK
<1>8. CASE FetchError(w) \/ ResultLost(w)
  <2>1. wk'[w].pc \notin Active /\ \A v \in Workers \ {w} : wk'[v] = wk[v]
    BY Zenon, <1>2, <1>8, PcNames DEF FetchError, ResultLost, Active
  <2> QED BY Zenon, <1>4, <1>7, <1>8, <2>1 DEF FetchError, ResultLost
<1>9. CASE Crash(w)
  <2>1. wk'[w].pc = "idle" /\ \A v \in Workers \ {w} : wk'[v] = wk[v]
    BY Zenon, <1>9, ReleaseFields DEF Crash
  <2>2. wk'[w].pc \notin Active
    BY Zenon, <2>1 DEF Active
  <2> QED BY Zenon, <1>4, <1>7, <1>9, <2>1, <2>2 DEF Crash
<1>10. CASE ScanError(w)
  <2>1. \A j \in Jobs : Holders(j)' = Holders(j)
    BY Zenon, <1>10, HoldersStay DEF ScanError
  <2> QED BY Zenon, <1>10, <2>1, LedgerStutter DEF ScanError
<1> QED
  BY Zenon, <1>0, <1>3, <1>5, <1>6, <1>8, <1>9, <1>10 DEF WorkerStep, WorkerFault, At, Track, Claim, Retry, Ack,
     FailRead, FailDrop, FailBury, TrackError, ClaimError, RetryError, AckError, FailError, ShutdownRequeue

\* The steps of a worker that executes no job, its claim excepted.
LEMMA LedgerIdler ==
  ASSUME ThreadsOK, NEW w \in Workers, wk[w].pc \notin Active, ~Claim(w),
         WorkerStep(w) \/ WorkerFault(w) \/ Crash(w) \/ ShutdownRequeue(w)
  PROVE  UNCHANGED Ledger!ledger
<1>0. ~Begin(w) /\ ~NoHandler(w) /\ ~Succeed(w) /\ ~HandlerFails(w) /\ ~BeginError(w) /\ ~FetchError(w)
      /\ ~ResultLost(w)
  BY Zenon DEF Active, Begin, NoHandler, Succeed, HandlerFails, BeginError, FetchError, ResultLost, At
<1>1. status' = status /\ claims' = claims
  BY ZenonT(40), <1>0 DEF WorkerStep, WorkerFault, Track, Retry, Ack, FailRead, FailDrop, FailBury, TrackError,
     ClaimError, RetryError, AckError, FailError, ScanError, ShutdownRequeue, Crash
<1>2. ASSUME NEW pc \in Pcs \ {"idle", "begin", "run"}, wk[w].pc # "idle", Goto(w, pc)
      PROVE  wk'[w].pc \notin Active /\ \A v \in Workers \ {w} : wk'[v] = wk[v]
  BY Zenon, <1>2, GotoFields DEF Active
<1>3. ASSUME Release(w) PROVE wk'[w].pc \notin Active /\ \A v \in Workers \ {w} : wk'[v] = wk[v]
  BY Zenon, <1>3, ReleaseFields DEF Active
<1>4. CASE FailRead(w)
  <2>1. wk'[w].pc \notin Active /\ \A v \in Workers \ {w} : wk'[v] = wk[v]
    BY Zenon, <1>4 DEF FailRead, ThreadsOK, Active
  <2>2. \A j \in Jobs : Holders(j)' = Holders(j)
    BY Zenon, <2>1, HoldersStay
  <2> QED BY Zenon, <1>1, <2>2, LedgerStutter
<1>5. CASE Track(w) \/ Retry(w) \/ FailDrop(w) \/ ClaimError(w) \/ RetryError(w) \/ AckError(w)
  <2>1. wk[w].pc # "idle" /\ \E pc \in Pcs \ {"idle", "begin", "run"} : Goto(w, pc)
    BY Zenon, <1>5 DEF Track, Retry, FailDrop, ClaimError, RetryError, AckError, At, Pcs
  <2>2. \A j \in Jobs : Holders(j)' = Holders(j)
    BY Zenon, <1>2, <2>1, HoldersStay
  <2> QED BY Zenon, <1>1, <2>2, LedgerStutter
<1>6. CASE Ack(w) \/ FailBury(w) \/ TrackError(w) \/ FailError(w) \/ ShutdownRequeue(w) \/ Crash(w)
  <2>1. Release(w)
    BY Zenon, <1>6 DEF Ack, FailBury, TrackError, FailError, ShutdownRequeue, Crash
  <2>2. \A j \in Jobs : Holders(j)' = Holders(j)
    BY Zenon, <1>3, <2>1, HoldersStay
  <2> QED BY Zenon, <1>1, <2>2, LedgerStutter
<1>7. CASE ScanError(w)
  <2>1. \A j \in Jobs : Holders(j)' = Holders(j)
    BY Zenon, <1>7, HoldersStay DEF ScanError
  <2> QED BY Zenon, <1>1, <2>1, LedgerStutter
<1> QED BY Zenon, <1>0, <1>4, <1>5, <1>6, <1>7 DEF WorkerStep, WorkerFault

\* Every step is a step of the ledger, or leaves it alone.
LEMMA LedgerStep ==
  ASSUME Holding, ClaimsCounted, ExecutorRuns, old = {}, FailsInTime, [Next]_vars
  PROVE  [Ledger!Next]_(Ledger!ledger)
<1>0. ThreadsOK /\ RowsOK /\ OneHolder
  BY Zenon DEF Holding
<1>1. ASSUME NEW i \in Jobs, Submit(i) \/ Defer(i) \/ ProcessDeferred(i) \/ SubmitFails(i)
      PROVE  [Ledger!Next]_(Ledger!ledger)
  BY Zenon, <1>0, <1>1, LedgerSubmission DEF Ledger!Next
<1>2. ASSUME NEW w \in Workers, WorkerStep(w) \/ WorkerFault(w) \/ Crash(w) \/ ShutdownRequeue(w)
      PROVE  [Ledger!Next]_(Ledger!ledger)
  <2>1. CASE Claim(w)
    BY Zenon, <2>1, LedgerClaim DEF Ledger!Next
  <2>2. CASE wk[w].pc \in Active
    BY Zenon, <1>0, <1>2, <2>2, LedgerExecutor DEF Ledger!Next
  <2>3. CASE wk[w].pc \notin Active /\ ~Claim(w)
    BY Zenon, <1>0, <1>2, <2>3, LedgerIdler
  <2> QED BY Zenon, <2>1, <2>2, <2>3
<1>3. ASSUME NEW w \in Workers, NEW j \in Jobs, Dequeue(w, j) PROVE UNCHANGED Ledger!ledger
  <2>1. wk[w].pc \notin Active /\ wk'[w].pc \notin Active /\ \A v \in Workers \ {w} : wk'[v] = wk[v]
    BY Zenon, <1>0, <1>3 DEF Dequeue, At, ThreadsOK, Active
  <2>2. \A i \in Jobs : Holders(i)' = Holders(i)
    BY Zenon, <2>1, HoldersStay
  <2> QED BY Zenon, <1>3, <2>2, LedgerStutter DEF Dequeue
<1>4. ASSUME wk' = wk, status' = status, claims' = claims PROVE UNCHANGED Ledger!ledger
  <2>1. \A i \in Jobs : Holders(i)' = Holders(i)
    BY Zenon, <1>4, HoldersStay
  <2> QED BY Zenon, <1>4, <2>1, LedgerStutter
<1>5. ASSUME NEW i \in Jobs,
             Enqueue(i) \/ EnqueueError(i) \/ Promote(i) \/ Age(i) \/ DrainSend(i) \/ SenderCrash(i)
      PROVE  UNCHANGED Ledger!ledger
  BY Zenon, <1>4, <1>5 DEF Enqueue, EnqueueError, Promote, Age, DrainSend, SenderCrash
<1>6. ASSUME NEW w \in Workers, ScanRead(w) \/ ScanPush(w) \/ \E j \in Jobs : ScanDelete(w, j)
      PROVE  UNCHANGED Ledger!ledger
  BY Zenon, <1>4, <1>6 DEF ScanRead, ScanPush, ScanDelete
<1>7. ASSUME UNCHANGED vars \/ DrainPeek \/ DrainTrim \/ CleanupRead \/ CleanupWrite
      PROVE  UNCHANGED Ledger!ledger
  BY Zenon, <1>4, <1>7 DEF vars, DrainPeek, DrainTrim, CleanupRead, CleanupWrite
<1> QED BY Zenon, <1>1, <1>2, <1>3, <1>5, <1>6, <1>7 DEF Next

\* Where no clean-up runs the queue implements the ledger of jobs, whatever crashes and
\* raises, as long as the except clause of submit_async_job is not overtaken by a worker.
THEOREM JobLedgerImplemented ==
  ASSUME CleansUp = FALSE
  PROVE  Spec /\ []FailsInTime => ImplementsJobLedger
<1> DEFINE Inv == old = {} /\ ExecutorRuns /\ ClaimsCounted
<1>1. Init => Inv /\ Ledger!Init
  <2> SUFFICES ASSUME Init PROVE Inv /\ Ledger!Init
    OBVIOUS
  <2>1. old = {} /\ ExecutorRuns
    BY Zenon DEF Init, ExecutorRuns, Executing, Idle
  <2>2. LedgerPhases = [j \in Jobs |-> "new"]
    BY Zenon DEF Init, LedgerPhases, LedgerPhase
  <2>3. \A w \in Workers : wk[w].pc = "idle"
    BY Zenon DEF Init, Idle
  <2>4. LedgerHolders = [j \in Jobs |-> {}]
    BY Zenon, <2>3 DEF LedgerHolders, Executing
  <2> QED BY Zenon, <2>1, <2>2, <2>4, Initially DEF Ledger!Init, Init
<1>2. Inv /\ Holding /\ FailsInTime /\ [Next]_vars => Inv'
  BY Zenon, NothingOld, ExecutorStep, ClaimsStep DEF Holding
<1>3. Inv /\ Holding /\ FailsInTime /\ [Next]_vars => [Ledger!Next]_(Ledger!ledger)
  BY Zenon, LedgerStep
<1> HIDE DEF Inv
<1> QED BY <1>1, <1>2, <1>3, HoldingInvariant, PTL DEF Spec, ImplementsJobLedger, Ledger!Spec

\* Without calls that raise it does so outright, whatever processes crash.
THEOREM JobLedgerWithoutFaults ==
  ASSUME CleansUp = FALSE, MaxFaults = 0
  PROVE  Spec => ImplementsJobLedger
BY FailsInTimeWithoutFaults, JobLedgerImplemented, PTL

=============================================================================
