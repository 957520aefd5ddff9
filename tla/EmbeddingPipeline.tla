-------------------------- MODULE EmbeddingPipeline --------------------------
(***************************************************************************)
(* How a memory node gets its embedding: the node is saved or updated as   *)
(* pending (db/dao/memory_node_dao.py), a job is submitted for it, and a   *)
(* sweep picks up what the jobs leave (memory/embedding_jobs.py).  Both    *)
(* call the provider (memory/embedding_service.py) through the circuit     *)
(* breaker they share with the chat calls.  The module composes the        *)
(* pipeline with CircuitBreaker: a worker that embeds is one of its        *)
(* callers, and every step of the pipeline is a step of the breaker or     *)
(* leaves it alone.                                                        *)
(***************************************************************************)
EXTENDS CircuitBreaker, FiniteSets

CONSTANTS Nodes,        \* memory nodes
          Hopeless,     \* those whose content never gives a usable vector
          Workers,      \* threads that execute embedding jobs
          Sweeper,      \* the thread of process_pending_embeddings
          Limit,        \* EMBEDDING_SWEEP_LIMIT
          MaxAttempts,  \* OPENAI_MAX_RETRIES
          MaxJobs,      \* bound: jobs of a node that wait for a worker
          NoNode

Embedders == Workers \cup {Sweeper}

ASSUME PipelineAssumption ==
    /\ IsFiniteSet(Nodes) /\ Hopeless \subseteq Nodes /\ NoNode \notin Nodes
    /\ Embedders \subseteq Callers \ AsyncCallers /\ Sweeper \notin Workers
    /\ Limit \in Nat \ {0} /\ MaxAttempts \in Nat \ {0} /\ MaxJobs \in Nat

VARIABLES born,       \* created_at of a node: its place in the order; 0 before
          pending,    \* nodes with embedding_pending
          embedded,   \* nodes whose row holds a vector
          jobs,       \* per node, embedding jobs that have not started
          batch,      \* rows the sweep has selected and not begun
          at,         \* where an embedder is in process_embedding_job
          node,       \* the node it works on
          seen,       \* whether the row it has read was pending
          attempt,    \* its attempt in generate_embedding
          faults      \* the provider and the event log may still fail

nodeRows == <<born, pending, embedded>>
frames == <<at, node, seen, attempt>>
pipeline == <<nodeRows, jobs, batch, frames, faults>>

PipelineInit ==
    /\ Init
    /\ pending = {} /\ embedded = {} /\ batch = {} /\ faults = TRUE
    /\ born = [n \in Nodes |-> 0] /\ jobs = [n \in Nodes |-> 0]
    /\ at = [e \in Embedders |-> "idle"] /\ node = [e \in Embedders |-> NoNode]
    /\ seen = [e \in Embedders |-> FALSE] /\ attempt = [e \in Embedders |-> 0]

(***************************************************************************)
(* Writers.                                                                *)
(***************************************************************************)

\* enqueue_embedding submits a job, or is skipped in inline mode, or fails and
\* is logged.
MaybeSubmit(n) ==
    \/ UNCHANGED jobs
    \/ jobs[n] < MaxJobs /\ jobs' = [jobs EXCEPT ![n] = @ + 1]

Save(n) ==
    /\ born[n] = 0
    /\ born' = [born EXCEPT ![n] = Cardinality({m \in Nodes : born[m] > 0}) + 1]
    /\ pending' = pending \cup {n}
    /\ MaybeSubmit(n)
    /\ UNCHANGED <<embedded, batch, frames, faults, vars>>

\* New content.  The row is read and written in one step.
Update(n) ==
    /\ born[n] > 0
    /\ embedded' = embedded \ {n}
    /\ pending' = pending \cup {n}
    /\ MaybeSubmit(n)
    /\ UNCHANGED <<born, batch, frames, faults, vars>>

(***************************************************************************)
(* process_embedding_job.  The row is an object of the embedder's session: *)
(* a field set to the value it was read with is not written.               *)
(***************************************************************************)

Leave(e) ==
    /\ at' = [at EXCEPT ![e] = "idle"] /\ node' = [node EXCEPT ![e] = NoNode]
    /\ seen' = [seen EXCEPT ![e] = FALSE] /\ attempt' = [attempt EXCEPT ![e] = 0]

\* A node that is not pending any more is left.
Begin(e, n) ==
    IF n \in pending
    THEN /\ at' = [at EXCEPT ![e] = "begun"] /\ node' = [node EXCEPT ![e] = n]
         /\ UNCHANGED <<seen, attempt>>
    ELSE UNCHANGED frames

TakeJob(e, n) ==
    /\ e \in Workers /\ at[e] = "idle" /\ jobs[n] > 0
    /\ jobs' = [jobs EXCEPT ![n] = @ - 1]
    /\ Begin(e, n)
    /\ UNCHANGED <<nodeRows, batch, faults, vars>>

\* Mutant: one row too few.
SelectedRowsAs_offByOne ==
    {n \in pending : Cardinality({m \in pending : born[m] < born[n]}) < Limit - 1}

\* The Limit oldest rows that are pending.
SelectedRows ==
    {n \in pending : Cardinality({m \in pending : born[m] < born[n]}) < Limit}

Oldest(n, rows) == n \in rows /\ \A m \in rows : born[n] <= born[m]

\* The first row of the sweep is still the object of the SELECT: whether it is
\* pending is not looked at again.
SweepSelect ==
    /\ at[Sweeper] = "idle" /\ batch = {}
    /\ \E n \in Nodes :
          /\ Oldest(n, SelectedRows)
          /\ batch' = SelectedRows \ {n}
          /\ node' = [node EXCEPT ![Sweeper] = n]
    /\ at' = [at EXCEPT ![Sweeper] = "begun"]
    /\ UNCHANGED <<nodeRows, jobs, seen, attempt, faults, vars>>

SweepNext ==
    /\ at[Sweeper] = "idle"
    /\ \E n \in Nodes : Oldest(n, batch) /\ batch' = batch \ {n} /\ Begin(Sweeper, n)
    /\ UNCHANGED <<nodeRows, jobs, faults, vars>>

\* The required EMBEDDING_STARTED event is committed, which expires the row:
\* the content is read after it.  A failure leaves the job, and all of a sweep.
Started(e) ==
    /\ at[e] = "begun"
    /\ \/ /\ at' = [at EXCEPT ![e] = "call"]
          /\ seen' = [seen EXCEPT ![e] = node[e] \in pending]
          /\ attempt' = [attempt EXCEPT ![e] = 1]
          /\ UNCHANGED <<node, batch>>
       \/ /\ faults /\ Leave(e)
          /\ batch' = IF e = Sweeper THEN {} ELSE batch
    /\ UNCHANGED <<nodeRows, jobs, faults, vars>>

\* The except branch: the row is pending again, if it was read as anything
\* else.
Defer(e) ==
    /\ pending' = IF seen[e] THEN pending ELSE pending \cup {node[e]}
    /\ Leave(e)

\* Mutant: the zero vector is stored.
NoVectorAs_kept(e) ==
    /\ at[e] = "call" /\ phase[e] = "idle" /\ node[e] \in Hopeless
    /\ at' = [at EXCEPT ![e] = "write"]
    /\ UNCHANGED <<nodeRows, jobs, batch, node, seen, attempt, faults, vars>>

\* Empty content gives a zero vector without a call, and that is refused.
NoVector(e) ==
    /\ at[e] = "call" /\ phase[e] = "idle" /\ node[e] \in Hopeless
    /\ Defer(e)
    /\ UNCHANGED <<born, embedded, jobs, batch, faults, vars>>

Call(e) ==
    /\ at[e] = "call" /\ node[e] \notin Hopeless
    /\ EnterClosed(e) \/ EnterProbe(e)
    /\ UNCHANGED pipeline

\* Mutant: a refused call counts as a failed one.
RefusedAs_counted(e) ==
    /\ at[e] = "call" /\ phase[e] = "idle" /\ node[e] \notin Hopeless
    /\ state = "HALF_OPEN" \/ (state = "OPEN" /\ sinceOpened < RecoveryTimeout)
    /\ Defer(e)
    /\ failureCount' = failureCount + 1
    /\ UNCHANGED <<born, embedded, jobs, batch, faults,
                   state, sinceOpened, halfOpenInFlight, phase>>

\* CircuitOpenError is not retried.
Refused(e) ==
    /\ at[e] = "call" /\ phase[e] = "idle" /\ node[e] \notin Hopeless
    /\ state = "HALF_OPEN" \/ (state = "OPEN" /\ sinceOpened < RecoveryTimeout)
    /\ Defer(e)
    /\ UNCHANGED <<born, embedded, jobs, batch, faults, vars>>

CallSucceeds(e) ==
    /\ at[e] = "call" /\ RecordSuccess(e)
    /\ at' = [at EXCEPT ![e] = "write"] /\ attempt' = [attempt EXCEPT ![e] = 0]
    /\ UNCHANGED <<nodeRows, jobs, batch, node, seen, faults>>

\* Mutant: one attempt too many.
AttemptFailsAs_offByOne(e) ==
    IF attempt[e] <= MaxAttempts
    THEN /\ attempt' = [attempt EXCEPT ![e] = @ + 1]
         /\ UNCHANGED <<pending, at, node, seen>>
    ELSE Defer(e)

\* The loop of generate_embedding goes on, or gives up.
AttemptFails(e) ==
    IF attempt[e] < MaxAttempts
    THEN /\ attempt' = [attempt EXCEPT ![e] = @ + 1]
         /\ UNCHANGED <<pending, at, node, seen>>
    ELSE Defer(e)

\* The call fails, and the client may try it again within the attempt (twice
\* at most, which is not counted here); or the call succeeds and the required
\* event about it is not written; or the one before the call is not.
CallFails(e) ==
    /\ at[e] = "call" /\ faults
    /\ \/ RecordFailure(e) /\ (AttemptFails(e) \/ UNCHANGED <<pending, frames>>)
       \/ RecordSuccess(e) /\ AttemptFails(e)
       \/ /\ phase[e] = "idle" /\ node[e] \notin Hopeless
          /\ AttemptFails(e) /\ UNCHANGED vars
    /\ UNCHANGED <<born, embedded, jobs, batch, faults>>

Write(e) ==
    /\ at[e] = "write"
    /\ embedded' = embedded \cup {node[e]}
    /\ pending' = IF seen[e] THEN pending \ {node[e]} ELSE pending
    /\ at' = [at EXCEPT ![e] = "announce"]
    /\ seen' = [seen EXCEPT ![e] = FALSE]
    /\ UNCHANGED <<born, jobs, batch, node, attempt, faults, vars>>

\* A failure of the required EMBEDDING_COMPLETED event ends in the same except
\* branch, which finds the row complete and makes it pending again.
Announce(e) ==
    /\ at[e] = "announce"
    /\ pending' \in {pending} \cup (IF faults THEN {pending \cup {node[e]}} ELSE {})
    /\ Leave(e)
    /\ UNCHANGED <<born, embedded, jobs, batch, faults, vars>>

(***************************************************************************)
(* The other callers of the breaker, its clock and its reset.              *)
(***************************************************************************)

FaultsEnd == faults /\ faults' = FALSE /\ UNCHANGED <<nodeRows, jobs, batch, frames, vars>>

\* A call of another thread or task returns.
Returns(c) ==
    /\ RecordSuccess(c) \/ (faults /\ RecordFailure(c))
    /\ UNCHANGED pipeline

Others ==
    \/ Reset /\ UNCHANGED pipeline
    \/ \E c \in Callers \ Embedders :
          \/ (EnterClosed(c) \/ EnterProbe(c) \/ Cancel(c)) /\ UNCHANGED pipeline
          \/ Returns(c)

Clock == Tick /\ UNCHANGED pipeline

Embed(e) ==
    \/ \E n \in Nodes : TakeJob(e, n)
    \/ Started(e) \/ NoVector(e) \/ Call(e) \/ Refused(e)
    \/ CallSucceeds(e) \/ CallFails(e) \/ Write(e) \/ Announce(e)

Sweep == SweepSelect \/ SweepNext

PipelineNext ==
    \/ \E n \in Nodes : Save(n) \/ Update(n)
    \/ \E e \in Embedders : Embed(e)
    \/ Sweep \/ Others \/ Clock \/ FaultsEnd

PipelineSpec == PipelineInit /\ [][PipelineNext]_<<pipeline, vars>>

\* Threads run, calls return (the clients set a timeout), the sweep fires every
\* minute, time passes, and the faults of provider and event log end.
PipelineFairSpec ==
    /\ PipelineSpec
    /\ \A e \in Embedders : WF_<<pipeline, vars>>(Embed(e))
    /\ \A c \in Callers \ Embedders : WF_<<pipeline, vars>>(Returns(c))
    /\ WF_<<pipeline, vars>>(Sweep)
    /\ WF_<<pipeline, vars>>(Clock) /\ WF_<<pipeline, vars>>(FaultsEnd)

-------------------------------------------------------------------------------

\* Types of the pipeline's state.
PipelineTypeOK ==
    /\ born \in [Nodes -> Nat] /\ jobs \in [Nodes -> 0..MaxJobs]
    /\ pending \subseteq Nodes /\ embedded \subseteq Nodes /\ batch \subseteq Nodes
    /\ at \in [Embedders -> {"idle", "begun", "call", "write", "announce"}]
    /\ node \in [Embedders -> Nodes \cup {NoNode}]
    /\ seen \in [Embedders -> BOOLEAN]
    /\ attempt \in [Embedders -> 0..MaxAttempts]
    /\ faults \in BOOLEAN

\* A node that is not pending has a vector, and one whose content gives none
\* stays pending, however the jobs and the sweep overlap on it and whatever row
\* they have read (embedding_jobs.py:104-112).
CompleteHasVector == \A n \in Nodes :
    born[n] > 0 /\ n \notin pending => n \in embedded /\ n \notin Hopeless

\* Whatever the pipeline does, the breaker moves as its own specification says.
BreakerInside == Spec

Jammed == state = "HALF_OPEN" /\ \A c \in Callers : phase[c] # "half_open"

\* A pending node gets its embedding in the end, although its job was never
\* submitted or failed, other nodes fail for ever and the circuit has been
\* open; unless a cancelled probe has left the breaker half-open.
PendingIsServed == \A n \in Nodes \ Hopeless :
    (n \in pending) ~> (n \notin pending \/ Jammed)

===============================================================================
