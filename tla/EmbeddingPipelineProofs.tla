---------------------- MODULE EmbeddingPipelineProofs ----------------------
(***************************************************************************)
(* What holds of the pipeline for any number of nodes, workers and other   *)
(* callers: the breaker inside it behaves as CircuitBreaker specifies, so  *)
(* what is proved of the breaker holds in the composition; and a node that *)
(* is complete has a vector.                                               *)
(***************************************************************************)
EXTENDS EmbeddingPipeline, CircuitBreakerProofs, FiniteSetTheorems

\* Every step of the pipeline is a step of the breaker or leaves it alone.
LEMMA BreakerStep == [PipelineNext]_<<pipeline, vars>> => [Next]_vars
<1> SUFFICES ASSUME [PipelineNext]_<<pipeline, vars>>
             PROVE  [Next]_vars
  OBVIOUS
<1>1. ASSUME NEW n \in Nodes, Save(n) \/ Update(n)
      PROVE  UNCHANGED vars
  BY <1>1, Zenon DEF Save, Update
<1>2. ASSUME NEW e \in Embedders, Embed(e)
      PROVE  [Next]_vars
  <2>1. e \in Callers
    BY PipelineAssumption
  <2>2. ASSUME EnterClosed(e) \/ EnterProbe(e) \/ RecordSuccess(e) \/ RecordFailure(e)
        PROVE  Next
    BY <2>1, <2>2, Zenon DEF Next, Finish
  <2>3. \/ EnterClosed(e) \/ EnterProbe(e) \/ RecordSuccess(e) \/ RecordFailure(e)
        \/ UNCHANGED vars
    BY <1>2, Zenon DEF Embed, TakeJob, Started, NoVector, Call, Refused,
                       CallSucceeds, CallFails, Write, Announce
  <2> QED
    BY <2>2, <2>3
<1>3. ASSUME Sweep \/ FaultsEnd
      PROVE  UNCHANGED vars
  BY <1>3, Zenon DEF Sweep, SweepSelect, SweepNext, FaultsEnd
<1>4. ASSUME Others \/ Clock
      PROVE  Next
  BY <1>4, Zenon DEF Others, Returns, Clock, Next, Finish
<1>5. CASE UNCHANGED <<pipeline, vars>>
  BY <1>5
<1> QED
  BY <1>1, <1>2, <1>3, <1>4, <1>5, Zenon DEF PipelineNext

\* The composition implements the breaker, whatever jobs, sweep and updates do
\* and however often a call is made again.
THEOREM PipelineImplementsBreaker == PipelineSpec => BreakerInside
<1> QED
  BY BreakerStep, PTL DEF PipelineSpec, PipelineInit, BreakerInside, Spec

\* So the breaker of the pipeline stays consistent and lets no call through an
\* open circuit early.
THEOREM PipelineBreakerSound ==
    PipelineSpec => [](TypeOK /\ HalfOpenFlag /\ TripsAtThreshold) /\ ProbeOnlyAfterTimeout
<1> QED
  BY PipelineImplementsBreaker, BreakerConsistent, ProbesWaitForTimeout, PTL
     DEF BreakerInside

-----------------------------------------------------------------------------
\* An embedder that is busy has a node; it is in a call only while it generates,
\* and for a node whose content is not empty, and so is what it writes.
EmbedderOK(e) ==
    /\ at[e] # "idle" => node[e] \in Nodes
    /\ at[e] # "call" => phase[e] = "idle"
    /\ at[e] = "call" /\ phase[e] # "idle" => node[e] \notin Hopeless
    /\ at[e] = "write" => node[e] \notin Hopeless

PipelineInv ==
    /\ PipelineTypeOK /\ CompleteHasVector
    /\ phase \in [Callers -> Phases]
    /\ \A e \in Embedders : EmbedderOK(e)

LEMMA PipelineStart == PipelineInit => PipelineInv
<1> SUFFICES ASSUME PipelineInit PROVE PipelineInv
  OBVIOUS
<1> USE PipelineAssumption DEF PipelineInit, Init
<1>1. PipelineTypeOK
  BY DEF PipelineTypeOK
<1>2. CompleteHasVector
  BY DEF CompleteHasVector
<1>3. phase \in [Callers -> Phases]
  BY DEF Phases
<1>4. \A e \in Embedders : EmbedderOK(e)
  BY DEF EmbedderOK
<1> QED
  BY <1>1, <1>2, <1>3, <1>4 DEF PipelineInv

\* A step of the breaker by one caller leaves the phase of the others alone.
LEMMA PhaseStep ==
    ASSUME phase \in [Callers -> Phases], NEW c \in Callers,
           EnterClosed(c) \/ EnterProbe(c) \/ Cancel(c)
              \/ RecordSuccess(c) \/ RecordFailure(c)
    PROVE  /\ phase' \in [Callers -> Phases]
           /\ \A d \in Callers : d # c => phase'[d] = phase[d]
           /\ Cancel(c) \/ RecordSuccess(c) \/ RecordFailure(c) => phase'[c] = "idle"
<1>1. \E p \in Phases : phase' = [phase EXCEPT ![c] = p]
  BY DEF EnterClosed, EnterProbe, Cancel, RecordSuccess, RecordFailure, Phases
<1>2. Cancel(c) \/ RecordSuccess(c) \/ RecordFailure(c) => phase' = [phase EXCEPT ![c] = "idle"]
  BY DEF Cancel, RecordSuccess, RecordFailure
<1> QED
  BY <1>1, <1>2

\* Saving, updating and the end of the faults leave the embedders alone; what
\* is pending grows.
LEMMA WriterStep ==
    ASSUME PipelineInv, (\E n \in Nodes : Save(n) \/ Update(n)) \/ FaultsEnd
    PROVE  PipelineInv'
<1> USE PipelineAssumption DEF PipelineInv
<1>1. ASSUME NEW n \in Nodes, MaybeSubmit(n)
      PROVE  jobs' \in [Nodes -> 0..MaxJobs]
  BY <1>1 DEF MaybeSubmit, PipelineTypeOK
<1>2. ASSUME NEW n \in Nodes, Save(n)
      PROVE  PipelineInv'
  <2>1. Cardinality({m \in Nodes : born[m] > 0}) \in Nat
    BY FS_Subset, FS_CardinalityType, Zenon
  <2>2. PipelineTypeOK'
    BY <1>1, <1>2, <2>1 DEF Save, PipelineTypeOK, frames
  <2>3. CompleteHasVector'
    BY <1>2, <2>1 DEF Save, PipelineTypeOK, CompleteHasVector
  <2>4. UNCHANGED <<frames, phase>>
    BY <1>2 DEF Save, vars
  <2> QED
    BY <2>2, <2>3, <2>4 DEF EmbedderOK, frames
<1>3. ASSUME NEW n \in Nodes, Update(n)
      PROVE  PipelineInv'
  <2>1. PipelineTypeOK'
    BY <1>1, <1>3 DEF Update, PipelineTypeOK, frames
  <2>2. CompleteHasVector'
    BY <1>3 DEF Update, CompleteHasVector
  <2>3. UNCHANGED <<frames, phase>>
    BY <1>3 DEF Update, vars
  <2> QED
    BY <2>1, <2>2, <2>3 DEF EmbedderOK, frames
<1>4. ASSUME FaultsEnd
      PROVE  PipelineInv'
  BY <1>4 DEF FaultsEnd, PipelineTypeOK, CompleteHasVector, EmbedderOK, nodeRows, frames, vars
<1> QED
  BY <1>2, <1>3, <1>4

\* Other callers, the reset and the clock move the breaker only.
LEMMA OthersStep ==
    ASSUME PipelineInv, Others \/ Clock
    PROVE  PipelineInv'
<1> USE PipelineAssumption DEF PipelineInv
<1>1. UNCHANGED pipeline
  BY Zenon DEF Others, Clock, Returns
<1>2. /\ phase' \in [Callers -> Phases]
      /\ \A e \in Embedders : phase'[e] = phase[e]
  <2>1. CASE UNCHANGED phase
    BY <2>1
  <2>2. ASSUME NEW c \in Callers \ Embedders,
               EnterClosed(c) \/ EnterProbe(c) \/ Cancel(c) \/ RecordSuccess(c) \/ RecordFailure(c)
        PROVE  /\ phase' \in [Callers -> Phases]
               /\ \A e \in Embedders : phase'[e] = phase[e]
    BY <2>2, PhaseStep
  <2> QED
    BY <2>1, <2>2 DEF Others, Clock, Returns, Reset, Tick
<1> QED
  BY <1>1, <1>2 DEF PipelineTypeOK, CompleteHasVector, EmbedderOK, pipeline, nodeRows, frames

-----------------------------------------------------------------------------
FrameTypes ==
    /\ at \in [Embedders -> {"idle", "begun", "call", "write", "announce"}]
    /\ node \in [Embedders -> Nodes \cup {NoNode}]
    /\ seen \in [Embedders -> BOOLEAN]
    /\ attempt \in [Embedders -> 0..MaxAttempts]

RowTypes ==
    /\ born \in [Nodes -> Nat] /\ jobs \in [Nodes -> 0..MaxJobs]
    /\ pending \subseteq Nodes /\ embedded \subseteq Nodes /\ batch \subseteq Nodes
    /\ faults \in BOOLEAN

\* The step of an embedder leaves the frames and calls of the others alone.
OnlyMoves(e) == \A d \in Embedders : d # e =>
    at'[d] = at[d] /\ node'[d] = node[d] /\ phase'[d] = phase[d]

\* It preserves the invariant if it preserves these parts of it.
LEMMA EmbedderStep ==
    ASSUME PipelineInv, NEW e \in Embedders,
           FrameTypes', RowTypes', CompleteHasVector',
           phase' \in [Callers -> Phases], OnlyMoves(e), EmbedderOK(e)'
    PROVE  PipelineInv'
<1>1. PipelineTypeOK'
  BY Zenon DEF PipelineTypeOK, FrameTypes, RowTypes
<1>2. \A d \in Embedders : EmbedderOK(d)'
  <2> SUFFICES ASSUME NEW d \in Embedders, d # e PROVE EmbedderOK(d)'
    OBVIOUS
  <2>1. EmbedderOK(d) /\ at'[d] = at[d] /\ node'[d] = node[d] /\ phase'[d] = phase[d]
    BY DEF PipelineInv, OnlyMoves
  <2> QED
    BY <2>1, Zenon DEF EmbedderOK
<1> QED
  BY <1>1, <1>2 DEF PipelineInv

LEMMA TypesSplit == PipelineTypeOK <=> FrameTypes /\ RowTypes
<1> QED
  BY Zenon DEF PipelineTypeOK, FrameTypes, RowTypes

\* An embedder that is not in a call and leaves its node is idle.
LEMMA LeaveOK ==
    ASSUME PipelineInv, NEW e \in Embedders, Leave(e), phase'[e] = "idle",
           \A d \in Embedders : d # e => phase'[d] = phase[d]
    PROVE  FrameTypes' /\ OnlyMoves(e) /\ EmbedderOK(e)'
<1>0. FrameTypes
  BY TypesSplit DEF PipelineInv
<1> USE PipelineAssumption, <1>0 DEF Leave, FrameTypes
<1>1. FrameTypes'
  OBVIOUS
<1>2. OnlyMoves(e)
  BY DEF OnlyMoves
<1>3. EmbedderOK(e)'
  BY DEF EmbedderOK
<1> QED
  BY <1>1, <1>2, <1>3

\* The rows are as the invariant says when pending only grows.
LEMMA PendingGrows ==
    ASSUME PipelineInv, pending \subseteq pending', pending' \subseteq Nodes,
           UNCHANGED <<born, embedded, jobs, faults>>, batch' \subseteq Nodes
    PROVE  RowTypes' /\ CompleteHasVector'
<1> QED
  BY TypesSplit DEF PipelineInv, RowTypes, CompleteHasVector

LEMMA DeferOK ==
    ASSUME PipelineInv, NEW e \in Embedders, at[e] # "idle", Defer(e),
           phase' \in [Callers -> Phases], phase'[e] = "idle",
           \A d \in Embedders : d # e => phase'[d] = phase[d],
           UNCHANGED <<born, embedded, jobs, batch, faults>>
    PROVE  PipelineInv'
<1>1. FrameTypes' /\ OnlyMoves(e) /\ EmbedderOK(e)'
  BY LeaveOK, Zenon DEF Defer
<1>2. RowTypes
  BY TypesSplit, Zenon DEF PipelineInv
<1>3. pending \subseteq pending' /\ pending' \subseteq Nodes
  BY <1>2 DEF Defer, PipelineInv, EmbedderOK, RowTypes
<1>4. RowTypes' /\ CompleteHasVector'
  BY <1>2, <1>3, PendingGrows DEF RowTypes
<1> QED
  BY <1>1, <1>4, EmbedderStep

\* An embedder takes up a node, or finds that it is not pending.
LEMMA BeginOK ==
    ASSUME PipelineInv, NEW e \in Embedders, at[e] = "idle", NEW n \in Nodes, Begin(e, n),
           jobs' \in [Nodes -> 0..MaxJobs], batch' \subseteq Nodes,
           UNCHANGED <<nodeRows, faults, vars>>
    PROVE  PipelineInv'
<1>1. FrameTypes /\ RowTypes /\ CompleteHasVector /\ EmbedderOK(e)
  BY TypesSplit, Zenon DEF PipelineInv
<1>2. RowTypes' /\ CompleteHasVector'
  BY <1>1 DEF RowTypes, CompleteHasVector, nodeRows
<1>3. UNCHANGED phase
  BY DEF vars
<1>4. phase' \in [Callers -> Phases]
  BY <1>3 DEF PipelineInv
<1>5. FrameTypes'
  BY <1>1 DEF Begin, FrameTypes, frames
<1>6. OnlyMoves(e)
  BY <1>1, <1>3 DEF Begin, FrameTypes, frames, OnlyMoves
<1>7. EmbedderOK(e)'
  BY <1>1, <1>3 DEF Begin, FrameTypes, frames, EmbedderOK
<1> QED
  BY <1>2, <1>4, <1>5, <1>6, <1>7, EmbedderStep

LEMMA SweepStep ==
    ASSUME PipelineInv, Sweep
    PROVE  PipelineInv'
<1>1. FrameTypes /\ RowTypes /\ CompleteHasVector /\ Sweeper \in Embedders /\ EmbedderOK(Sweeper)
  BY TypesSplit, Zenon DEF PipelineInv, Embedders
<1>2. CASE SweepSelect
  <2>1. PICK n \in Nodes : /\ batch' = SelectedRows \ {n}
                           /\ node' = [node EXCEPT ![Sweeper] = n]
    BY <1>2, Zenon DEF SweepSelect
  <2>2. RowTypes' /\ CompleteHasVector'
    BY <1>1, <1>2, <2>1 DEF SweepSelect, SelectedRows, RowTypes, CompleteHasVector, nodeRows
  <2>3. UNCHANGED phase
    BY <1>2 DEF SweepSelect, vars
  <2>4. phase' \in [Callers -> Phases]
    BY <2>3 DEF PipelineInv
  <2>5. FrameTypes'
    BY <1>1, <1>2, <2>1 DEF SweepSelect, FrameTypes
  <2>6. OnlyMoves(Sweeper) /\ EmbedderOK(Sweeper)'
    BY <1>1, <1>2, <2>1, <2>3 DEF SweepSelect, FrameTypes, OnlyMoves, EmbedderOK
  <2> QED
    BY <1>1, <2>2, <2>4, <2>5, <2>6, EmbedderStep
<1>3. CASE SweepNext
  <2>1. PICK n \in Nodes : batch' = batch \ {n} /\ Begin(Sweeper, n)
    BY <1>3, Zenon DEF SweepNext
  <2>2. jobs' \in [Nodes -> 0..MaxJobs] /\ batch' \subseteq Nodes
    BY <1>1, <1>3, <2>1 DEF SweepNext, RowTypes
  <2>3. at[Sweeper] = "idle" /\ UNCHANGED <<nodeRows, faults, vars>>
    BY <1>3, Zenon DEF SweepNext
  <2> QED
    BY <1>1, <2>1, <2>2, <2>3, BeginOK
<1> QED
  BY <1>2, <1>3 DEF Sweep

\* The calls of an embedder and what follows them, one case per action.
LEMMA EmbedStep ==
    ASSUME PipelineInv, NEW e \in Embedders, Embed(e)
    PROVE  PipelineInv'
<1>1. /\ FrameTypes /\ RowTypes /\ CompleteHasVector /\ EmbedderOK(e)
      /\ phase \in [Callers -> Phases] /\ e \in Callers /\ Embedders \subseteq Callers
  BY TypesSplit, PipelineAssumption DEF PipelineInv
<1>2. ASSUME NEW n \in Nodes, TakeJob(e, n)
      PROVE  PipelineInv'
  <2>1. jobs' \in [Nodes -> 0..MaxJobs] /\ batch' \subseteq Nodes
    BY <1>1, <1>2, PipelineAssumption DEF TakeJob, RowTypes
  <2> QED
    BY <1>2, <2>1, BeginOK DEF TakeJob
<1>3. CASE Started(e)
  <2>1. UNCHANGED <<phase, nodeRows, jobs, faults>> /\ batch' \subseteq Nodes
    BY <1>1, <1>3 DEF Started, vars, RowTypes
  <2>2. RowTypes' /\ CompleteHasVector' /\ phase' \in [Callers -> Phases]
    BY <1>1, <2>1 DEF RowTypes, CompleteHasVector, nodeRows
  <2>3. CASE Leave(e)
    <3>1. FrameTypes' /\ OnlyMoves(e) /\ EmbedderOK(e)'
      BY <1>1, <1>3, <2>1, <2>3, LeaveOK DEF Started, EmbedderOK
    <3> QED
      BY <2>2, <3>1, EmbedderStep
  <2>4. CASE /\ at' = [at EXCEPT ![e] = "call"]
             /\ seen' = [seen EXCEPT ![e] = node[e] \in pending]
             /\ attempt' = [attempt EXCEPT ![e] = 1]
             /\ UNCHANGED node
    <3>1. (node[e] \in pending) \in BOOLEAN /\ 1 \in 0..MaxAttempts
      BY PipelineAssumption
    <3>2. FrameTypes'
      BY <1>1, <2>4, <3>1 DEF FrameTypes
    <3>3. OnlyMoves(e) /\ EmbedderOK(e)'
      BY <1>1, <1>3, <2>1, <2>4 DEF FrameTypes, OnlyMoves, EmbedderOK, Started
    <3> QED
      BY <2>2, <3>2, <3>3, EmbedderStep
  <2> QED
    BY <1>3, <2>3, <2>4, Zenon DEF Started
<1>4. CASE NoVector(e) \/ Refused(e)
  <2>1. /\ at[e] = "call" /\ phase[e] = "idle" /\ Defer(e) /\ UNCHANGED phase
        /\ UNCHANGED <<born, embedded, jobs, batch, faults>>
    BY <1>4 DEF NoVector, Refused, vars
  <2> QED
    BY <1>1, <2>1, DeferOK
<1>5. CASE Call(e)
  <2>1. UNCHANGED <<at, node, seen, attempt, born, pending, embedded, jobs, batch, faults>>
    BY <1>5 DEF Call, pipeline, nodeRows, frames
  <2>2. phase' \in [Callers -> Phases] /\ OnlyMoves(e)
    BY <1>1, <1>5, <2>1, PhaseStep DEF Call, OnlyMoves
  <2>3. FrameTypes' /\ RowTypes' /\ CompleteHasVector'
    BY <1>1, <2>1 DEF FrameTypes, RowTypes, CompleteHasVector
  <2>4. EmbedderOK(e)'
    BY <1>1, <1>5, <2>1 DEF Call, EmbedderOK
  <2> QED
    BY <2>2, <2>3, <2>4, EmbedderStep
<1>6. CASE CallSucceeds(e)
  <2>1. /\ phase' \in [Callers -> Phases] /\ phase'[e] = "idle"
        /\ \A d \in Callers : d # e => phase'[d] = phase[d]
    BY <1>1, <1>6, PhaseStep DEF CallSucceeds
  <2>2. RowTypes' /\ CompleteHasVector'
    BY <1>1, <1>6 DEF CallSucceeds, RowTypes, CompleteHasVector, nodeRows
  <2>3. FrameTypes'
    BY <1>1, <1>6, PipelineAssumption DEF CallSucceeds, FrameTypes
  <2>4. OnlyMoves(e)
    BY <1>1, <1>6, <2>1 DEF CallSucceeds, FrameTypes, OnlyMoves
  <2>5. phase[e] # "idle"
    BY <1>6 DEF CallSucceeds, RecordSuccess
  <2>6. EmbedderOK(e)'
    BY <1>1, <1>6, <2>1, <2>5 DEF CallSucceeds, FrameTypes, EmbedderOK
  <2> QED
    BY <2>1, <2>2, <2>3, <2>4, <2>6, EmbedderStep
<1>7. CASE CallFails(e)
  <2>1. /\ phase' \in [Callers -> Phases] /\ phase'[e] = "idle"
        /\ \A d \in Embedders : d # e => phase'[d] = phase[d]
    <3>1. CASE RecordFailure(e) \/ RecordSuccess(e)
      BY <1>1, <3>1, PhaseStep
    <3>2. CASE phase[e] = "idle" /\ UNCHANGED vars
      BY <1>1, <3>2 DEF vars
    <3> QED
      BY <1>7, <3>1, <3>2 DEF CallFails
  <2>2. at[e] = "call" /\ UNCHANGED <<born, embedded, jobs, batch, faults>>
    BY <1>7 DEF CallFails
  <2>3. CASE Defer(e)
    BY <2>1, <2>2, <2>3, DeferOK
  <2>4. CASE /\ UNCHANGED <<pending, at, node, seen>>
             /\ \/ UNCHANGED attempt
                \/ attempt[e] < MaxAttempts /\ attempt' = [attempt EXCEPT ![e] = @ + 1]
    <3>1. RowTypes' /\ CompleteHasVector'
      BY <1>1, <2>2, <2>4 DEF RowTypes, CompleteHasVector
    <3>2. FrameTypes'
      BY <1>1, <2>4, PipelineAssumption DEF FrameTypes
    <3>3. OnlyMoves(e) /\ EmbedderOK(e)'
      BY <1>1, <2>1, <2>2, <2>4 DEF OnlyMoves, EmbedderOK
    <3> QED
      BY <2>1, <3>1, <3>2, <3>3, EmbedderStep
  <2> QED
    BY <1>7, <2>3, <2>4 DEF CallFails, AttemptFails, frames
<1>8. CASE Write(e)
  <2>1. UNCHANGED <<phase, born, jobs, batch, node, attempt, faults>>
    BY <1>8 DEF Write, vars
  <2>2. node[e] \in Nodes \ Hopeless /\ phase[e] = "idle"
    BY <1>1, <1>8 DEF Write, EmbedderOK
  <2>3. RowTypes'
    BY <1>1, <1>8, <2>1, <2>2 DEF Write, RowTypes
  <2>4. CompleteHasVector'
    BY <1>1, <1>8, <2>1, <2>2 DEF Write, CompleteHasVector
  <2>5. FrameTypes'
    BY <1>1, <1>8, <2>1 DEF Write, FrameTypes
  <2>6. OnlyMoves(e) /\ EmbedderOK(e)'
    BY <1>1, <1>8, <2>1, <2>2 DEF Write, FrameTypes, OnlyMoves, EmbedderOK
  <2> QED
    BY <1>1, <2>1, <2>3, <2>4, <2>5, <2>6, EmbedderStep
<1>9. CASE Announce(e)
  <2>1. /\ at[e] = "announce" /\ Leave(e) /\ UNCHANGED <<phase, born, embedded, jobs, batch, faults>>
    BY <1>9 DEF Announce, vars
  <2>2. node[e] \in Nodes /\ phase[e] = "idle"
    BY <1>1, <2>1 DEF EmbedderOK
  <2>3. pending \subseteq pending' /\ pending' \subseteq Nodes
    BY <1>1, <1>9, <2>2 DEF Announce, RowTypes
  <2>4. RowTypes' /\ CompleteHasVector'
    BY <1>1, <2>1, <2>3, PendingGrows DEF RowTypes
  <2>5. FrameTypes' /\ OnlyMoves(e) /\ EmbedderOK(e)'
    BY <2>1, <2>2, LeaveOK
  <2> QED
    BY <1>1, <2>1, <2>4, <2>5, EmbedderStep
<1> QED
  BY <1>2, <1>3, <1>4, <1>5, <1>6, <1>7, <1>8, <1>9 DEF Embed

\* The pipeline's state stays well typed, and a node that is not pending has a
\* vector made from a content that is not empty: process_embedding_job never
\* completes a node it has no vector for, however jobs and sweep overlap.
THEOREM CompleteNodesHaveVectors == PipelineSpec => [](PipelineTypeOK /\ CompleteHasVector)
<1>1. PipelineInv /\ [PipelineNext]_<<pipeline, vars>> => PipelineInv'
  <2> SUFFICES ASSUME PipelineInv, [PipelineNext]_<<pipeline, vars>>
               PROVE  PipelineInv'
    OBVIOUS
  <2>1. CASE UNCHANGED <<pipeline, vars>>
    BY <2>1 DEF pipeline, nodeRows, frames, vars, PipelineInv, PipelineTypeOK,
                CompleteHasVector, EmbedderOK
  <2>2. CASE \E e \in Embedders : Embed(e)
    BY <2>2, EmbedStep
  <2> QED
    BY <2>1, <2>2, WriterStep, OthersStep, SweepStep DEF PipelineNext
<1>2. PipelineInv => PipelineTypeOK /\ CompleteHasVector
  BY DEF PipelineInv
<1> QED
  BY <1>1, <1>2, PipelineStart, PTL DEF PipelineSpec

\* The rows and frames of the pipeline keep their types while jobs and sweep overlap.
THEOREM PipelineTypes == PipelineSpec => []PipelineTypeOK
BY CompleteNodesHaveVectors, PTL

=============================================================================
