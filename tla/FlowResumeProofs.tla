-------------------------- MODULE FlowResumeProofs --------------------------
(***************************************************************************)
(* Proofs about FlowResume, for every deployment and every bound.          *)
(***************************************************************************)
EXTENDS FlowResume, FiniteSetTheorems, TLAPS

Statuses == {"absent", "running", "waiting", "executing", "ended"}

\* Types of the columns the claim protocol works on.
DbType ==
  /\ status \in [Runs -> Statuses]
  /\ waitNo \in [Runs -> Nat]
  /\ claims \in [Runs -> Nat]

\* A step either leaves the claim columns alone or changes those of one run
\* in one of four ways: it is what the handlers of FlowResume have in common.
Opens(r) ==
  /\ status' = [status EXCEPT ![r] = "waiting"]
  /\ waitNo' = [waitNo EXCEPT ![r] = @ + 1]
  /\ UNCHANGED claims
Grants(r) ==
  /\ status[r] = "waiting"
  /\ status' = [status EXCEPT ![r] = "executing"]
  /\ claims' = [claims EXCEPT ![r] = @ + 1]
  /\ UNCHANGED waitNo
Moves(r, s) ==
  /\ status' = [status EXCEPT ![r] = s]
  /\ UNCHANGED <<waitNo, claims>>
DbStep ==
  \/ UNCHANGED dbVars
  \/ \E r \in Runs : Opens(r) \/ Grants(r) \/ Moves(r, "running") \/ Moves(r, "ended")

\* The guarded UPDATE grants the wait of one run or changes nothing.
LEMMA GuardedClaimStep ==
  ASSUME DbType, NEW t, NEW pc, GuardedClaim(t, pc), UNCHANGED waitNo
  PROVE  DbStep
<1>1. CASE t.run \in Runs /\ status[t.run] = "waiting"
  BY Zenon, <1>1 DEF GuardedClaim, DbStep, Grants, DbType
<1>2. CASE t.run \in Runs /\ status[t.run] # "waiting"
  <2>1. status' = status /\ claims' = claims
    BY <1>2 DEF GuardedClaim, DbType
  <2> QED BY <2>1 DEF DbStep, dbVars
<1>3. CASE t.run \notin Runs
  <2>1. status' = status /\ claims' = claims
    BY <1>3 DEF GuardedClaim, DbType
  <2> QED BY <2>1 DEF DbStep, dbVars
<1> QED BY <1>1, <1>2, <1>3

\* Every handler is one of those steps.
LEMMA NextIsDbStep ==
  ASSUME DbType, [Next]_vars
  PROVE  DbStep
<1>1. CASE UNCHANGED vars
  BY <1>1 DEF vars, dbVars, DbStep
<1>2. ASSUME NEW i \in Instances, NEW r \in Runs, Start(i, r) PROVE DbStep
  BY Zenon, <1>2 DEF Start, DbStep, Moves
<1>3. ASSUME NEW t \in tasks, TaskStep(t) PROVE DbStep
  <2>1. CASE Wait(t)
    <3>1. CASE t.run \in Runs
      BY Zenon, <2>1, <3>1 DEF Wait, DbStep, Opens
    <3>2. CASE t.run \notin Runs
      BY <2>1, <3>2 DEF Wait, DbStep, dbVars, DbType
    <3> QED BY <3>1, <3>2
  <2>2. CASE Finish(t)
    <3>1. CASE t.run \in Runs
      BY Zenon, <2>2, <3>1 DEF Finish, DbStep, Moves
    <3>2. CASE t.run \notin Runs
      BY <2>2, <3>2 DEF Finish, DbStep, dbVars, DbType
    <3> QED BY <3>1, <3>2
  <2>3. CASE RehydratedClaim(t)
    BY <2>3, GuardedClaimStep DEF RehydratedClaim
  <2>4. CASE RunnerClaim(t)
    BY <2>4, GuardedClaimStep DEF RunnerClaim
  <2>5. CASE ReadStatus(t) \/ RegisterInsert(t) \/ PersistRead(t) \/ PersistWrite(t)
    BY Zenon, <2>5 DEF ReadStatus, RegisterInsert, PersistRead, PersistWrite, DbStep
  <2> QED BY <1>3, <2>1, <2>2, <2>3, <2>4, <2>5 DEF TaskStep
<1>4. ASSUME NEW n \in notes, NoteStep(n) PROVE DbStep
  BY <1>4 DEF NoteStep, NotifyMatch, NotifyDelete, NotifyPublish, NotifyCross, DbStep
<1>5. ASSUME NEW i \in Instances, NEW r \in Runs, RouteEvent(i, r) \/ Watchdog(i, r)
      PROVE  DbStep
  BY <1>5 DEF RouteEvent, Watchdog, DbStep
<1>6. ASSUME NEW i \in Instances, NEW x,
             \/ HandleMessage(i, x) \/ Dispatch(i, x) \/ Rehydrate(i, x) \/ CleanupEvict(i, x)
             \/ StartupRead(i) \/ OrphanRead(i) \/ StartupDone(i) \/ CleanupRead(i) \/ Crash(i)
      PROVE  DbStep
  BY <1>6 DEF HandleMessage, Dispatch, Rehydrate, CleanupEvict, StartupRead, OrphanRead,
              StartupDone, CleanupRead, Crash, DbStep
<1>7. ASSUME NEW r, NEW no, WorkerEvent(r, no) \/ \E i \in Instances : EmitSystemEvent(i, r, no)
      PROVE  DbStep
  BY <1>7 DEF WorkerEvent, EmitSystemEvent, DbStep
<1> QED BY Zenon, <1>1, <1>2, <1>3, <1>4, <1>5, <1>6, <1>7 DEF Next

LEMMA DbTypeStep ==
  ASSUME DbType, DbStep
  PROVE  DbType'
  BY DEF DbType, DbStep, dbVars, Opens, Grants, Moves, Statuses

LEMMA DbInit ==
  ASSUME Init
  PROVE  DbType /\ EachWaitClaimedOnce
  BY DEF Init, DbType, Statuses, EachWaitClaimedOnce

LEMMA ClaimedOnceStep ==
  ASSUME DbType, DbStep, EachWaitClaimedOnce
  PROVE  EachWaitClaimedOnce'
<1>1. CASE UNCHANGED dbVars
  BY <1>1 DEF dbVars, EachWaitClaimedOnce
<1>2. ASSUME NEW r \in Runs, Opens(r) PROVE EachWaitClaimedOnce'
  BY <1>2 DEF Opens, EachWaitClaimedOnce, DbType
<1>3. ASSUME NEW r \in Runs, Grants(r) PROVE EachWaitClaimedOnce'
  BY <1>3 DEF Grants, EachWaitClaimedOnce, DbType
<1>4. ASSUME NEW r \in Runs, Moves(r, "running") \/ Moves(r, "ended")
      PROVE  EachWaitClaimedOnce'
  BY <1>4 DEF Moves, EachWaitClaimedOnce, DbType
<1> QED BY <1>1, <1>2, <1>3, <1>4 DEF DbStep

\* In every deployment each WAIT is claimed at most once, because both kinds
\* of callback claim with UPDATE ... WHERE status = 'waiting'.
THEOREM WaitsClaimedOnce == Spec => []EachWaitClaimedOnce
<1>1. Init => DbType /\ EachWaitClaimedOnce
  BY DbInit
<1>2. DbType /\ EachWaitClaimedOnce /\ [Next]_vars => (DbType /\ EachWaitClaimedOnce)'
  BY NextIsDbStep, DbTypeStep, ClaimedOnceStep
<1> QED BY <1>1, <1>2, PTL DEF Spec

-----------------------------------------------------------------------------
(* Refinement of the ledger *)

LEMMA LedgerInit ==
  ASSUME Init
  PROVE  Ledger!Init
  BY DEF Init, Ledger!Init

LEMMA LedgerStep ==
  ASSUME DbType, DbStep
  PROVE  [Ledger!Next]_(Ledger!ledger)
<1>1. CASE UNCHANGED dbVars
  BY <1>1 DEF dbVars, Ledger!ledger
<1>2. ASSUME NEW r \in Runs, Opens(r) PROVE Ledger!Post(r)
  BY Zenon, <1>2 DEF Opens, Ledger!Post, DbType
<1>3. ASSUME NEW r \in Runs, Grants(r) PROVE Ledger!Claim(r)
  BY Zenon, <1>3 DEF Grants, Ledger!Claim, DbType
<1>4. ASSUME NEW r \in Runs, NEW s \in {"running", "ended"}, Moves(r, s)
      PROVE  Ledger!Abandon(r) \/ UNCHANGED Ledger!ledger
  <2>1. CASE status[r] = "waiting"
    BY Zenon, <1>4, <2>1 DEF Moves, Ledger!Abandon, DbType
  <2>2. CASE status[r] # "waiting"
    BY <1>4, <2>2 DEF Moves, Ledger!ledger, DbType
  <2> QED BY <2>1, <2>2
<1> QED BY <1>1, <1>2, <1>3, <1>4 DEF DbStep, Ledger!Next

\* In every deployment the claim protocol implements the ledger of waits.
THEOREM LedgerImplemented == Spec => ImplementsLedger
<1>1. Init => DbType /\ Ledger!Init
  BY DbInit, LedgerInit
<1>2. DbType /\ [Next]_vars => DbType' /\ [Ledger!Next]_(Ledger!ledger)
  BY NextIsDbStep, DbTypeStep, LedgerStep
<1> QED BY <1>1, <1>2, PTL DEF Spec, ImplementsLedger, Ledger!Spec

-----------------------------------------------------------------------------
(* Types *)

LEMMA WaitNosFacts ==
  /\ 0 \in WaitNos
  /\ \A n \in WaitNos : n < MaxWaits => n + 1 \in WaitNos
  BY BoundsAssumption DEF WaitNos

\* A run that waits once does not wait again.
LEMMA OneBelowOne ==
  ASSUME MaxWaits = 1
  PROVE  ~(1 < MaxWaits)
  OBVIOUS

LEMMA ShapeInit ==
  ASSUME Init
  PROVE  ShapeOK
<1>1. 1 \in WaitNos
  BY BoundsAssumption DEF WaitNos
<1>2. ColdStart \in BOOLEAN
  BY DEF ColdStart
<1>3. redisKey \in [Runs -> BOOLEAN]
  BY <1>2, Zenon DEF Init
<1>4. row \in [Runs -> Rows]
  BY <1>1, WaitNosFacts DEF Init, Rows, NoRow
<1> QED BY <1>1, <1>3, <1>4, WaitNosFacts DEF Init, ShapeOK, NoEntry

LEMMA ShapeTask ==
  ASSUME ShapeOK, NEW t \in tasks, TaskStep(t)
  PROVE  ShapeOK'
<1>0. t \in Tasks
  BY DEF ShapeOK
<1>1. CASE Wait(t)
  BY <1>0, <1>1, WaitNosFacts DEF Wait, ShapeOK, Tasks, Kinds, Replace, dbVars, stores, procVars, bounds
<1>2. CASE Finish(t)
  BY <1>0, <1>2, WaitNosFacts DEF Finish, ShapeOK, Tasks, dbVars, stores, procVars, bounds
<1>3. CASE RehydratedClaim(t)
  BY <1>0, <1>3, WaitNosFacts DEF RehydratedClaim, ShapeOK, Tasks, GuardedClaim, Replace, TaskAt, dbVars, stores, procVars, bounds
<1>4. CASE ReadStatus(t)
  BY <1>0, <1>4, WaitNosFacts DEF ReadStatus, ShapeOK, Tasks, Replace, TaskAt, dbVars, stores, procVars, bounds
<1>5. CASE RunnerClaim(t)
  BY <1>0, <1>5, WaitNosFacts DEF RunnerClaim, ShapeOK, Tasks, GuardedClaim, Replace, TaskAt, dbVars, stores, procVars, bounds
<1>6. CASE RegisterInsert(t)
  BY SMTT(40), <1>0, <1>6, WaitNosFacts DEF RegisterInsert, ShapeOK, Tasks, Replace, TaskAt, Entries, dbVars, stores, procVars, bounds
<1>7. CASE PersistRead(t)
  BY <1>0, <1>7, WaitNosFacts DEF PersistRead, ShapeOK, Tasks, Replace, Entries, NoEntry, Registered, dbVars, stores, procVars, bounds
<1>8. CASE PersistWrite(t)
  BY <1>0, <1>8, WaitNosFacts DEF PersistWrite, ShapeOK, Tasks, Rows, dbVars, stores, procVars, bounds
<1> QED BY <1>1, <1>2, <1>3, <1>4, <1>5, <1>6, <1>7, <1>8 DEF TaskStep

LEMMA ShapeNote ==
  ASSUME ShapeOK, NEW n \in notes, NoteStep(n)
  PROVE  ShapeOK'
<1>0. n \in Notes
  BY Zenon DEF ShapeOK
<1>1. CASE NotifyMatch(n)
  <2> DEFINE e == waiting[n.at][n.run]
  <2>0. /\ n.at \in Instances /\ n.run \in Runs /\ e \in Entries \union {NoEntry}
        /\ waiting \in [Instances -> [Runs -> Entries \union {NoEntry}]]
        /\ queue \in [Instances -> SUBSET Items] /\ redisKey \in [Runs -> BOOLEAN]
    BY <1>0 DEF ShapeOK, Notes
  <2>1. waiting' \in [Instances -> [Runs -> Entries \union {NoEntry}]]
    BY <1>1, <2>0 DEF NotifyMatch
  <2>2. redisKey' \in [Runs -> BOOLEAN]
    BY <1>1, <2>0 DEF NotifyMatch
  <2>3. queue' \in [Instances -> SUBSET Items]
    <3>1. e # NoEntry => [run |-> n.run, kind |-> e.kind, no |-> e.no] \in Items
      BY <2>0 DEF Entries, Items
    <3> QED BY <1>1, <2>0, <3>1 DEF NotifyMatch
  <2>4. notes' \subseteq Notes
    <3>1. NoteAt(n, "delete") \in Notes /\ NoteAt(n, "cross") \in Notes
      BY <1>0 DEF NoteAt, Notes
    <3> QED BY <1>1, <3>1 DEF NotifyMatch, Replace, ShapeOK
  <2>5. UNCHANGED <<status, waitNo, claims, row, phase, snap, evict, inbox, tasks, published, events, crashes>>
    BY Zenon, <1>1 DEF NotifyMatch, dbVars, procVars, bounds
  <2> QED BY <2>1, <2>2, <2>3, <2>4, <2>5 DEF ShapeOK
<1>2. CASE NotifyDelete(n)
  <2>1. row' \in [Runs -> Rows]
    <3>1. row' = [row EXCEPT ![n.run] = NoRow] \/ row' = row
      BY <1>2 DEF NotifyDelete
    <3>2. NoRow \in Rows
      BY WaitNosFacts DEF NoRow, Rows
    <3>3. n.run \in Runs /\ row \in [Runs -> Rows]
      BY <1>0 DEF ShapeOK, Notes
    <3> QED BY <3>1, <3>2, <3>3
  <2>2. notes' \subseteq Notes
    BY <1>0, <1>2 DEF NotifyDelete, ShapeOK, Notes, Replace, NoteAt
  <2> QED BY <1>2, <2>1, <2>2 DEF NotifyDelete, ShapeOK, dbVars, procVars
<1>3. CASE NotifyCross(n)
  BY <1>0, <1>3, WaitNosFacts DEF NotifyCross, ShapeOK, Notes, Publish, Waits, dbVars, stores, procVars, bounds
<1>4. CASE NotifyPublish(n)
  BY SMTT(40), <1>0, <1>4, WaitNosFacts DEF NotifyPublish, ShapeOK, Notes, Publish, Waits, dbVars, stores, procVars, bounds
<1> QED BY <1>1, <1>2, <1>3, <1>4 DEF NoteStep

LEMMA ShapeProcess ==
  ASSUME ShapeOK, NEW i \in Instances
  PROVE  /\ \A r \in Runs : Start(i, r) \/ RouteEvent(i, r) \/ Watchdog(i, r) => ShapeOK'
         /\ \A m \in inbox[i] : HandleMessage(i, m) => ShapeOK'
         /\ \A q \in queue[i] : Dispatch(i, q) => ShapeOK'
         /\ \A s \in snap[i] : Rehydrate(i, s) => ShapeOK'
         /\ \A r \in evict[i] : CleanupEvict(i, r) => ShapeOK'
         /\ StartupRead(i) \/ OrphanRead(i) \/ StartupDone(i) => ShapeOK'
         /\ CleanupRead(i) \/ Crash(i) => ShapeOK'
<1>1. ASSUME NEW r \in Runs, Start(i, r) PROVE ShapeOK'
  BY <1>1, WaitNosFacts DEF Start, ShapeOK, Tasks, Kinds, dbVars, stores, procVars, bounds
<1>2. ASSUME NEW r \in Runs, RouteEvent(i, r) PROVE ShapeOK'
  BY <1>2, WaitNosFacts DEF RouteEvent, ShapeOK, Notes, dbVars, stores, procVars, bounds
<1>3. ASSUME NEW r \in Runs, Watchdog(i, r) PROVE ShapeOK'
  <2>1. PICK missing : Reregister(i, missing)
    BY <1>3 DEF Watchdog
  <2>2. /\ waiting' \in [Instances -> [Runs -> Entries \union {NoEntry}]]
        /\ redisKey' \in [Runs -> BOOLEAN]
        /\ row' \in [Runs -> Rows]
    BY <2>1 DEF Reregister, ShapeOK, Entries, Kinds, Rows
  <2>3. row[r].no \in WaitNos
    BY DEF ShapeOK, Rows
  <2>4. notes' \subseteq Notes
    BY <1>3, <2>3 DEF Watchdog, ShapeOK, Notes
  <2> QED BY Zenon, <1>3, <2>2, <2>4 DEF Watchdog, ShapeOK, dbVars, procVars
<1>4. ASSUME NEW m \in inbox[i], HandleMessage(i, m) PROVE ShapeOK'
  BY <1>4, WaitNosFacts DEF HandleMessage, ShapeOK, Notes, Waits, dbVars, stores, procVars, bounds
<1>5. ASSUME NEW q \in queue[i], Dispatch(i, q) PROVE ShapeOK'
  BY SMTT(40), <1>5, WaitNosFacts DEF Dispatch, ShapeOK, Tasks, Items, dbVars, stores, procVars, bounds
<1>6. ASSUME NEW s \in snap[i], Rehydrate(i, s) PROVE ShapeOK'
  BY <1>6, WaitNosFacts DEF Rehydrate, ShapeOK, Tasks, Waits, Entries, Kinds, Registered, dbVars, stores, procVars, bounds
<1>7. ASSUME NEW r \in evict[i], CleanupEvict(i, r) PROVE ShapeOK'
  BY Zenon, <1>7, WaitNosFacts DEF CleanupEvict, ShapeOK, Rows, NoRow, dbVars, stores, procVars, bounds
<1>8. ASSUME StartupRead(i) PROVE ShapeOK'
  BY SMTT(40), <1>8, WaitNosFacts DEF StartupRead, ShapeOK, Waits, dbVars, stores, procVars, bounds
<1>9. ASSUME OrphanRead(i) PROVE ShapeOK'
  BY SMTT(40), <1>9, WaitNosFacts DEF OrphanRead, ShapeOK, Waits, dbVars, stores, procVars, bounds
<1>10. ASSUME StartupDone(i) PROVE ShapeOK'
  BY Zenon, <1>10, WaitNosFacts DEF StartupDone, ShapeOK, dbVars, stores, procVars, bounds
<1>11. ASSUME CleanupRead(i) PROVE ShapeOK'
  BY Zenon, <1>11, WaitNosFacts DEF CleanupRead, ShapeOK, dbVars, stores, procVars, bounds
<1>12. ASSUME Crash(i) PROVE ShapeOK'
  BY <1>12, WaitNosFacts DEF Crash, ShapeOK, dbVars, stores, procVars, bounds
<1> QED BY Zenon, <1>1, <1>2, <1>3, <1>4, <1>5, <1>6, <1>7, <1>8, <1>9, <1>10, <1>11, <1>12

LEMMA PersistedRows ==
  ASSUME ShapeOK, NEW r \in Runs, NEW no, SystemEventPersisted(r, no)
  PROVE  row' \in [Runs -> Rows]
<1>1. row \in [Runs -> Rows]
  BY DEF ShapeOK
<1>2. row[r].no \in WaitNos /\ row[r].fired \in BOOLEAN
  BY <1>1 DEF Rows
<1>3. [no |-> row[r].no, fired |-> row[r].fired \/ row[r].no = no] \in Rows
  BY Zenon, <1>2 DEF Rows
<1> QED BY <1>1, <1>3 DEF SystemEventPersisted

LEMMA ShapeStep ==
  ASSUME ShapeOK, [Next]_vars
  PROVE  ShapeOK'
<1>1. CASE UNCHANGED vars
  BY Zenon, <1>1 DEF vars, ShapeOK
<1>2. ASSUME NEW r \in Runs, NEW no \in 1..MaxWaits, WorkerEvent(r, no) PROVE ShapeOK'
  BY Zenon, <1>2, PersistedRows DEF WorkerEvent, ShapeOK, dbVars, procVars
<1>3. ASSUME NEW r \in Runs, NEW no \in 1..MaxWaits,
             NEW i \in Instances, EmitSystemEvent(i, r, no)
      PROVE  ShapeOK'
  <2>1. row' \in [Runs -> Rows]
    BY <1>3, PersistedRows DEF EmitSystemEvent
  <2>2. no \in WaitNos
    BY BoundsAssumption DEF WaitNos
  <2>3. notes' \subseteq Notes
    BY <1>3, <2>2 DEF EmitSystemEvent, ShapeOK, Notes
  <2>4. inbox' \in [Instances -> SUBSET Waits]
    BY SMTT(40), <1>3, <2>2 DEF EmitSystemEvent, ShapeOK, Waits
  <2> QED BY Zenon, <1>3, <2>1, <2>3, <2>4 DEF EmitSystemEvent, ShapeOK, dbVars, procVars
<1> QED BY Zenon, <1>1, <1>2, <1>3, ShapeTask, ShapeNote, ShapeProcess DEF Next

LEMMA IncrementCounts ==
  ASSUME NEW S, NEW f \in [S -> Nat], NEW x
  PROVE  [f EXCEPT ![x] = @ + 1] \in [S -> Nat]
<1>1. CASE x \in S
  <2>1. f[x] \in Nat
    BY <1>1
  <2>2. f[x] + 1 \in Nat
    BY <2>1
  <2> QED BY Zenon, <2>2
<1>2. CASE x \notin S
  BY Zenon, <1>2
<1> QED BY <1>1, <1>2

\* Only three handlers move a bounded counter, each by one.
LEMMA CountsStep ==
  ASSUME ShapeOK, CountsOK, [Next]_vars
  PROVE  CountsOK'
<1>1. claims' \in [Runs -> Nat]
  <2>1. DbType
    BY DEF ShapeOK, CountsOK, DbType, Statuses, WaitNos
  <2> QED BY Zenon, <2>1, NextIsDbStep, DbTypeStep DEF DbType
<1>2. CASE UNCHANGED bounds
  BY <1>1, <1>2 DEF CountsOK, bounds
<1>3. ASSUME NEW i \in Instances, NEW r \in Runs, RouteEvent(i, r) PROVE CountsOK'
  <2> DEFINE more == [published[r] EXCEPT ![waitNo[r]] = @ + 1]
  <2>1. published[r] \in [1..MaxWaits -> Nat]
    BY DEF CountsOK
  <2>2. more \in [1..MaxWaits -> Nat]
    BY Zenon, <2>1, IncrementCounts
  <2>3. published' = [published EXCEPT ![r] = more]
    BY <1>3 DEF RouteEvent
  <2>4. UNCHANGED <<events, crashes>>
    BY <1>3 DEF RouteEvent
  <2> HIDE DEF more
  <2> QED BY <1>1, <2>2, <2>3, <2>4 DEF CountsOK
<1>4. ASSUME NEW r, NEW no, WorkerEvent(r, no) \/ \E i \in Instances : EmitSystemEvent(i, r, no)
      PROVE  CountsOK'
  <2>1. SystemEventPersisted(r, no) /\ UNCHANGED <<published, crashes>>
    BY <1>4 DEF WorkerEvent, EmitSystemEvent
  <2>2. events' \in [Runs -> Nat]
    BY Zenon, <2>1, IncrementCounts DEF SystemEventPersisted, CountsOK
  <2> QED BY Zenon, <1>1, <2>1, <2>2 DEF CountsOK
<1>5. ASSUME NEW i \in Instances, Crash(i) PROVE CountsOK'
  BY <1>1, <1>5 DEF Crash, CountsOK
<1>6. CASE UNCHANGED vars
  BY Zenon, <1>2, <1>6 DEF vars, bounds
<1>7. ASSUME NEW t \in tasks, TaskStep(t) PROVE CountsOK'
  BY Zenon, <1>2, <1>7 DEF TaskStep, Wait, Finish, RehydratedClaim, ReadStatus, RunnerClaim,
                    RegisterInsert, PersistRead, PersistWrite
<1>8. ASSUME NEW n \in notes, NoteStep(n) PROVE CountsOK'
  BY Zenon, <1>2, <1>8 DEF NoteStep, NotifyMatch, NotifyDelete, NotifyCross, NotifyPublish
<1>9. ASSUME NEW i \in Instances, NEW x,
             \/ Start(i, x) \/ Watchdog(i, x) \/ HandleMessage(i, x) \/ Dispatch(i, x)
             \/ Rehydrate(i, x) \/ CleanupEvict(i, x) \/ StartupRead(i) \/ OrphanRead(i)
             \/ StartupDone(i) \/ CleanupRead(i)
      PROVE  CountsOK'
  BY <1>2, <1>9 DEF Start, Watchdog, HandleMessage, Dispatch, Rehydrate, CleanupEvict,
                    StartupRead, OrphanRead, StartupDone, CleanupRead
<1> QED BY Zenon, <1>3, <1>4, <1>5, <1>6, <1>7, <1>8, <1>9 DEF Next

\* Every variable keeps its type in every deployment.
THEOREM TypesCorrect == Spec => []TypeOK
<1>1. Init => TypeOK
  BY ShapeInit DEF TypeOK, Init, CountsOK
<1>2. TypeOK /\ [Next]_vars => TypeOK'
  BY Zenon, ShapeStep, CountsStep DEF TypeOK
<1> QED BY <1>1, <1>2, PTL DEF Spec

-----------------------------------------------------------------------------
(* After a full restart: one runner per run *)

\* When every instance was restarted and no flow waits again, only rehydrated
\* callbacks exist.  A thread past its claim then holds the run alone, and
\* "executing" says so.
Past(t) == t.pc \in {"read", "exec"}

OnlyRehydrated ==
  /\ \A i \in Instances, r \in Runs : waiting[i][r].kind # "runner"
  /\ \A i \in Instances : \A q \in queue[i] : q.kind = "rehydrated"
  /\ \A t \in tasks : /\ t.kind = "rehydrated"
                      /\ t.pc \in {"begin", "read", "exec", "persist", "write"}

HeldAlone ==
  /\ \A t \in tasks : Past(t) => status[t.run] = "executing"
  /\ \A t, u \in tasks : Past(t) /\ Past(u) /\ t.run = u.run => t = u

RestartInv ==
  /\ \A r \in Runs : status[r] \in {"waiting", "executing", "ended"} /\ waitNo[r] = 1
  /\ OnlyRehydrated
  /\ HeldAlone

LEMMA RestartInit ==
  ASSUME Origin = {}, Init
  PROVE  RestartInv
  BY DEF Init, ColdStart, RestartInv, OnlyRehydrated, HeldAlone, NoEntry

\* A step that leaves the runs, the registrations, the queues and the callbacks
\* alone keeps the invariant.
LEMMA RestartKept ==
  ASSUME RestartInv, UNCHANGED <<status, waitNo, waiting, queue, tasks>>
  PROVE  RestartInv'
<1>1. \A r \in Runs : status'[r] \in {"waiting", "executing", "ended"} /\ waitNo'[r] = 1
  BY DEF RestartInv
<1>2. OnlyRehydrated'
  BY DEF RestartInv, OnlyRehydrated
<1>3. HeldAlone'
  BY DEF RestartInv, HeldAlone, Past
<1> QED BY <1>1, <1>2, <1>3 DEF RestartInv

\* A step that only moves one callback on keeps it as well, unless the callback
\* passes a claim.
LEMMA RestartMoved ==
  ASSUME RestartInv, UNCHANGED <<status, waitNo, waiting, queue>>,
         NEW t \in tasks, NEW u, u.run = t.run, u.kind = "rehydrated",
         u.pc \in {"begin", "read", "exec", "persist", "write"}, Past(u) => Past(t),
         tasks' \subseteq (tasks \ {t}) \union {u}
  PROVE  RestartInv'
<1>1. \A r \in Runs : status'[r] \in {"waiting", "executing", "ended"} /\ waitNo'[r] = 1
  BY Zenon DEF RestartInv
<1>2. OnlyRehydrated'
  <2>1. \A v \in tasks' : v.kind = "rehydrated" /\ v.pc \in {"begin", "read", "exec", "persist", "write"}
    BY DEF RestartInv, OnlyRehydrated
  <2> QED BY <2>1 DEF RestartInv, OnlyRehydrated
<1>3. HeldAlone'
  <2>1. \A v \in tasks' : Past(v) => status[v.run] = "executing"
    BY DEF RestartInv, HeldAlone
  <2>2. \A v, x \in tasks' : Past(v) /\ Past(x) /\ v.run = x.run => v = x
    BY DEF RestartInv, HeldAlone
  <2> QED BY <2>1, <2>2 DEF HeldAlone, Past
<1> QED BY <1>1, <1>2, <1>3 DEF RestartInv

\* So does a step that leaves the runs alone, registers and queues only callbacks
\* that claim first, and lets no new callback start past its claim.
LEMMA RestartAdded ==
  ASSUME RestartInv, UNCHANGED <<status, waitNo>>,
         \A i \in Instances, r \in Runs : waiting'[i][r].kind # "runner",
         \A i \in Instances : \A q \in queue'[i] : q.kind = "rehydrated",
         \A v \in tasks' : v \in tasks \/ (v.kind = "rehydrated" /\ v.pc \in {"begin", "persist"})
  PROVE  RestartInv'
<1>1. \A r \in Runs : status'[r] \in {"waiting", "executing", "ended"} /\ waitNo'[r] = 1
  BY DEF RestartInv
<1>2. OnlyRehydrated'
  <2>1. \A v \in tasks' : v.kind = "rehydrated" /\ v.pc \in {"begin", "read", "exec", "persist", "write"}
    BY DEF RestartInv, OnlyRehydrated
  <2> QED BY <2>1 DEF OnlyRehydrated
<1>3. \A v \in tasks' : Past(v) => v \in tasks
  BY DEF Past
<1>4. HeldAlone'
  BY <1>3 DEF RestartInv, HeldAlone, Past
<1> QED BY <1>1, <1>2, <1>4 DEF RestartInv

LEMMA RestartTask ==
  ASSUME MaxWaits = 1, ShapeOK, RestartInv, NEW t \in tasks, TaskStep(t)
  PROVE  RestartInv'
<1>0. /\ t \in Tasks /\ t.run \in Runs /\ t.kind = "rehydrated" /\ waitNo[t.run] = 1
      /\ t.pc \in {"begin", "read", "exec", "persist", "write"}
  BY Zenon DEF ShapeOK, Tasks, RestartInv, OnlyRehydrated
<1> USE DEF ShapeOK
<1>1. ~Wait(t) /\ ~RunnerClaim(t) /\ ~RegisterInsert(t)
  BY <1>0 DEF Wait, RunnerClaim, RegisterInsert
<1>2. CASE Finish(t)
  BY SMTT(40), <1>0, <1>2 DEF Finish, RestartInv, OnlyRehydrated, HeldAlone, Past, Tasks
<1>3. CASE RehydratedClaim(t)
  BY SMTT(40), <1>0, <1>3 DEF RehydratedClaim, GuardedClaim, RestartInv, OnlyRehydrated, HeldAlone,
                    Past, Tasks, Replace, TaskAt
<1>4. CASE ReadStatus(t)
  <2>1. t.pc = "read" /\ status[t.run] = "executing"
    BY Zenon, <1>0, <1>4 DEF ReadStatus, RestartInv, HeldAlone, Past
  <2>2. tasks' = (tasks \ {t}) \union {TaskAt(t, "exec")}
    BY <1>4, <2>1 DEF ReadStatus, Replace
  <2>3. UNCHANGED <<status, waitNo, waiting, queue>>
    BY Zenon, <1>4 DEF ReadStatus, dbVars
  <2>4. /\ TaskAt(t, "exec").run = t.run /\ TaskAt(t, "exec").kind = "rehydrated"
        /\ TaskAt(t, "exec").pc = "exec"
    BY <1>0 DEF TaskAt
  <2>5. Past(t) /\ tasks' \subseteq (tasks \ {t}) \union {TaskAt(t, "exec")}
    BY Zenon, <2>1, <2>2 DEF Past
  <2> HIDE DEF ShapeOK
  <2> QED BY Zenon, <2>3, <2>4, <2>5, RestartMoved
<1>5. CASE PersistRead(t)
  <2> DEFINE copy == [at |-> t.at, run |-> t.run, kind |-> t.kind,
                      no |-> waiting[t.at][t.run].no, pc |-> "write"]
  <2>1. tasks' \subseteq (tasks \ {t}) \union {copy}
    BY Zenon, <1>5 DEF PersistRead, Replace
  <2>2. UNCHANGED <<status, waitNo, waiting, queue>>
    BY Zenon, <1>5 DEF PersistRead, dbVars
  <2>3. copy.run = t.run /\ copy.kind = "rehydrated" /\ copy.pc = "write"
    BY Zenon, <1>0
  <2> HIDE DEF ShapeOK, copy
  <2> QED BY Zenon, <2>1, <2>2, <2>3, RestartMoved DEF Past
<1>6. CASE PersistWrite(t)
  <2>1. tasks' \subseteq (tasks \ {t}) \union {t}
    BY Zenon, <1>6 DEF PersistWrite
  <2>2. UNCHANGED <<status, waitNo, waiting, queue>>
    BY Zenon, <1>6 DEF PersistWrite, dbVars
  <2> QED BY Zenon, <1>0, <2>1, <2>2, RestartMoved
<1> QED BY Zenon, <1>1, <1>2, <1>3, <1>4, <1>5, <1>6 DEF TaskStep

LEMMA RestartNote ==
  ASSUME ShapeOK, RestartInv, NEW n \in notes, NoteStep(n)
  PROVE  RestartInv'
<1>0. n \in Notes /\ UNCHANGED <<status, waitNo, tasks>>
  BY Zenon DEF ShapeOK, NoteStep, NotifyMatch, NotifyDelete, NotifyCross, NotifyPublish, dbVars
<1>2. CASE NotifyMatch(n)
  <2> DEFINE e == waiting[n.at][n.run]
  <2>0. n.at \in Instances /\ n.run \in Runs /\ waiting \in [Instances -> [Runs -> Entries \union {NoEntry}]]
        /\ queue \in [Instances -> SUBSET Items]
    BY Zenon, <1>0 DEF ShapeOK, Notes
  <2>1. e # NoEntry => e.kind = "rehydrated"
    BY <2>0 DEF RestartInv, OnlyRehydrated, Entries, Kinds, NoEntry
  <2>2. ASSUME NEW i \in Instances, NEW r \in Runs PROVE waiting'[i][r].kind # "runner"
    <3>1. waiting'[i][r] = waiting[i][r] \/ waiting'[i][r] = NoEntry
      BY Zenon, <1>2, <2>0 DEF NotifyMatch
    <3> QED BY <3>1 DEF RestartInv, OnlyRehydrated, NoEntry
  <2>3. ASSUME NEW i \in Instances, NEW q \in queue'[i] PROVE q.kind = "rehydrated"
    <3>1. q \in queue[i] \/ (e # NoEntry /\ q = [run |-> n.run, kind |-> e.kind, no |-> e.no])
      BY Zenon, <1>2, <2>0 DEF NotifyMatch
    <3> QED BY <2>1, <3>1 DEF RestartInv, OnlyRehydrated
  <2> QED BY Zenon, <1>0, <2>2, <2>3, RestartAdded
<1>3. CASE NotifyDelete(n) \/ NotifyCross(n) \/ NotifyPublish(n)
  BY Zenon, <1>3, RestartKept DEF NotifyDelete, NotifyCross, NotifyPublish, dbVars
<1> QED BY SMTT(40), <1>2, <1>3 DEF NoteStep

LEMMA RestartProcess ==
  ASSUME Origin = {}, ShapeOK, RestartInv, NEW i \in Instances
  PROVE  /\ \A r \in Runs : Start(i, r) \/ RouteEvent(i, r) \/ Watchdog(i, r) => RestartInv'
         /\ \A m \in inbox[i] : HandleMessage(i, m) => RestartInv'
         /\ \A q \in queue[i] : Dispatch(i, q) => RestartInv'
         /\ \A s \in snap[i] : Rehydrate(i, s) => RestartInv'
         /\ \A r \in evict[i] : CleanupEvict(i, r) => RestartInv'
         /\ StartupRead(i) \/ OrphanRead(i) \/ StartupDone(i) => RestartInv'
         /\ CleanupRead(i) \/ Crash(i) => RestartInv'
<1>1. \A r \in Runs : ~Start(i, r)
  BY Zenon DEF Start
<1>2. ASSUME NEW r \in Runs, RouteEvent(i, r) PROVE RestartInv'
  BY SMTT(40), <1>2, RestartKept DEF RouteEvent, dbVars
<1>3. ASSUME NEW r \in Runs, Watchdog(i, r) PROVE RestartInv'
  <2>1. ASSUME NEW j \in Instances, NEW x \in Runs PROVE waiting'[j][x].kind # "runner"
    <3>1. waiting'[j][x] = waiting[j][x] \/ waiting'[j][x] = [kind |-> "rehydrated", no |-> waitNo[x]]
      BY Zenon, <1>3 DEF Watchdog, Reregister, ShapeOK
    <3> QED BY <3>1 DEF RestartInv, OnlyRehydrated
  <2>2. UNCHANGED <<status, waitNo, queue, tasks>>
    BY Zenon, <1>3 DEF Watchdog, dbVars
  <2>3. \A j \in Instances : \A q \in queue'[j] : q.kind = "rehydrated"
    BY Zenon, <2>2 DEF RestartInv, OnlyRehydrated
  <2> QED BY Zenon, <2>1, <2>2, <2>3, RestartAdded
<1>4. ASSUME NEW m \in inbox[i], HandleMessage(i, m) PROVE RestartInv'
  BY Zenon, <1>4, RestartKept DEF HandleMessage, dbVars
<1>5. ASSUME NEW q \in queue[i], Dispatch(i, q) PROVE RestartInv'
  <2>1. /\ UNCHANGED <<status, waitNo, waiting>> /\ queue' = [queue EXCEPT ![i] = @ \ {q}]
        /\ tasks' = tasks \union {[at |-> i, run |-> q.run, kind |-> q.kind, no |-> q.no, pc |-> "begin"]}
    BY Zenon, <1>5 DEF Dispatch, dbVars
  <2>2. q.kind = "rehydrated"
    BY Zenon DEF RestartInv, OnlyRehydrated
  <2>3. \A j \in Instances : queue'[j] \subseteq queue[j]
    BY Zenon, <2>1 DEF ShapeOK
  <2>4. \A v \in tasks' : v \in tasks \/ (v.kind = "rehydrated" /\ v.pc \in {"begin", "persist"})
    BY <2>1, <2>2
  <2>5. /\ \A j \in Instances, x \in Runs : waiting'[j][x].kind # "runner"
        /\ \A j \in Instances : \A y \in queue'[j] : y.kind = "rehydrated"
    BY Zenon, <2>1, <2>3 DEF RestartInv, OnlyRehydrated
  <2> QED BY Zenon, <2>1, <2>4, <2>5, RestartAdded
<1>6. ASSUME NEW s \in snap[i], Rehydrate(i, s) PROVE RestartInv'
  <2>1. ASSUME NEW j \in Instances, NEW x \in Runs PROVE waiting'[j][x].kind # "runner"
    <3>1. waiting'[j][x] = waiting[j][x] \/ waiting'[j][x] = [kind |-> "rehydrated", no |-> s.no]
      BY Zenon, <1>6 DEF Rehydrate, ShapeOK, Waits
    <3> QED BY <3>1 DEF RestartInv, OnlyRehydrated
  <2>2. UNCHANGED <<status, waitNo, queue>>
    BY Zenon, <1>6 DEF Rehydrate, dbVars
  <2>3. \A j \in Instances : \A q \in queue'[j] : q.kind = "rehydrated"
    BY Zenon, <2>2 DEF RestartInv, OnlyRehydrated
  <2>4. \A v \in tasks' : v \in tasks \/ (v.kind = "rehydrated" /\ v.pc \in {"begin", "persist"})
    BY <1>6 DEF Rehydrate
  <2> QED BY Zenon, <2>1, <2>2, <2>3, <2>4, RestartAdded
<1>7. ASSUME NEW r \in evict[i], CleanupEvict(i, r) PROVE RestartInv'
  <2>1. ASSUME NEW j \in Instances, NEW x \in Runs PROVE waiting'[j][x].kind # "runner"
    <3>1. waiting'[j][x] = waiting[j][x] \/ waiting'[j][x] = NoEntry
      BY Zenon, <1>7 DEF CleanupEvict, ShapeOK
    <3> QED BY <3>1 DEF RestartInv, OnlyRehydrated, NoEntry
  <2>2. UNCHANGED <<status, waitNo, queue, tasks>>
    BY Zenon, <1>7 DEF CleanupEvict, dbVars
  <2>3. \A j \in Instances : \A q \in queue'[j] : q.kind = "rehydrated"
    BY Zenon, <2>2 DEF RestartInv, OnlyRehydrated
  <2> QED BY Zenon, <2>1, <2>2, <2>3, RestartAdded
<1>8. ASSUME StartupRead(i) \/ OrphanRead(i) \/ StartupDone(i) \/ CleanupRead(i)
      PROVE  RestartInv'
  BY Zenon, <1>8, RestartKept DEF StartupRead, OrphanRead, StartupDone, CleanupRead, dbVars
<1>9. ASSUME Crash(i) PROVE RestartInv'
  <2>1. ASSUME NEW j \in Instances, NEW x \in Runs PROVE waiting'[j][x].kind # "runner"
    <3>1. waiting'[j][x] = waiting[j][x] \/ waiting'[j][x] = NoEntry
      BY Zenon, <1>9 DEF Crash, ShapeOK
    <3> QED BY <3>1 DEF RestartInv, OnlyRehydrated, NoEntry
  <2>2. UNCHANGED <<status, waitNo>> /\ tasks' \subseteq tasks
    BY Zenon, <1>9 DEF Crash, dbVars
  <2>3. \A j \in Instances : queue'[j] \subseteq queue[j]
    BY Zenon, <1>9 DEF Crash, ShapeOK
  <2>4. \A j \in Instances : \A q \in queue'[j] : q.kind = "rehydrated"
    BY Zenon, <2>3 DEF RestartInv, OnlyRehydrated
  <2> QED BY Zenon, <2>1, <2>2, <2>4, RestartAdded
<1> QED BY Zenon, <1>1, <1>2, <1>3, <1>4, <1>5, <1>6, <1>7, <1>8, <1>9

LEMMA RestartStep ==
  ASSUME Origin = {}, MaxWaits = 1, ShapeOK, RestartInv, [Next]_vars
  PROVE  RestartInv'
<1>1. CASE UNCHANGED vars
  BY Zenon, <1>1, RestartKept DEF vars
<1>2. ASSUME NEW r, NEW no, WorkerEvent(r, no) \/ \E i \in Instances : EmitSystemEvent(i, r, no)
      PROVE  RestartInv'
  BY Zenon, <1>2, RestartKept DEF WorkerEvent, EmitSystemEvent, dbVars
<1> QED BY Zenon, <1>1, <1>2, RestartTask, RestartNote, RestartProcess DEF Next

LEMMA HeldAloneExecutes ==
  ASSUME ShapeOK, RestartInv
  PROVE  AtMostOneRunner
<1> SUFFICES ASSUME NEW r \in Runs
             PROVE  /\ Cardinality(Executing(r)) <= 1
                    /\ Executing(r) # {} => \A t \in tasks : t.run = r => ~AboutToExecute(t)
  BY Zenon DEF AtMostOneRunner
<1>1. CASE Executing(r) = {}
  BY <1>1, FS_EmptySet
<1>2. CASE Executing(r) # {}
  <2>1. PICK t \in tasks : t.run = r /\ t.pc = "exec"
    BY Zenon, <1>2 DEF Executing
  <2>2. Executing(r) = {t}
    BY Zenon, <2>1 DEF Executing, RestartInv, HeldAlone, Past
  <2>3. Cardinality(Executing(r)) = 1
    BY Zenon, <2>2, FS_Singleton
  <2>4. ASSUME NEW u \in tasks, u.run = r PROVE ~AboutToExecute(u)
    BY <2>1, <2>4 DEF AboutToExecute, RestartInv, OnlyRehydrated, HeldAlone, Past
  <2> QED BY <2>3, <2>4
<1> QED BY Zenon, <1>1, <1>2

\* After a restart of the whole deployment, any number of instances that
\* rehydrate, receive and dispatch the same run execute it one at a time, as
\* long as the run does not WAIT again.
THEOREM OneRunnerAfterRestart ==
  ASSUME Origin = {}, MaxWaits = 1
  PROVE  Spec => []AtMostOneRunner
<1>1. Init => ShapeOK /\ RestartInv
  BY Zenon, ShapeInit, RestartInit
<1>2. ShapeOK /\ RestartInv /\ [Next]_vars => (ShapeOK /\ RestartInv)'
  BY Zenon, ShapeStep, RestartStep
<1>3. ShapeOK /\ RestartInv => AtMostOneRunner
  BY Zenon, HeldAloneExecutes
<1> QED BY <1>1, <1>2, <1>3, PTL DEF Spec

-----------------------------------------------------------------------------
(* A waiting run is remembered *)

\* No clean-up under way has listed a run that has come to wait again.
CleanupCurrent == \A i \in Instances : \A r \in evict[i] : status[r] # "waiting"

\* Steps of the callbacks and registrations.
LEMMA RememberedTask ==
  ASSUME ShapeOK, NEW r \in Runs, status[r] = "waiting" => Remembered(r), status'[r] = "waiting",
         NEW t \in tasks, TaskStep(t)
  PROVE  Remembered(r)'
<1>0. t \in Tasks /\ t.run \in Runs /\ t.at \in Instances
  BY Zenon DEF ShapeOK, Tasks
<1>s. status \in [Runs -> {"absent", "running", "waiting", "executing", "ended"}]
  BY Zenon DEF ShapeOK
<1>1. CASE Wait(t)
  <2> DEFINE u == [at |-> t.at, run |-> t.run, kind |-> "runner", no |-> waitNo[t.run] + 1,
                   pc |-> "insert"]
  <2>1. tasks' = (tasks \ {t}) \union {u} /\ UNCHANGED <<waiting, phase, snap, queue>>
    BY Zenon, <1>1 DEF Wait, Replace, procVars
  <2>2. CASE t.run = r
    <3>1. u \in tasks' /\ u.run = r /\ u.pc = "insert"
      BY Zenon, <2>1, <2>2
    <3> QED BY Zenon, <3>1 DEF Remembered
  <2>3. CASE t.run # r
    <3>1. status[r] = "waiting"
      BY Zenon, <1>0, <1>1, <1>s, <2>3 DEF Wait
    <3>2. \A v \in tasks : v.run = r => v \in tasks'
      BY Zenon, <2>1, <2>3
    <3> QED BY Zenon, <2>1, <3>1, <3>2 DEF Remembered, Registered
  <2> QED BY Zenon, <2>2, <2>3
<1>2. CASE Finish(t) \/ RehydratedClaim(t) \/ RunnerClaim(t)
  <2>1. t.run # r /\ status[r] = "waiting"
    BY Zenon, <1>0, <1>2, <1>s DEF Finish, RehydratedClaim, RunnerClaim, GuardedClaim
  <2>2. UNCHANGED <<waiting, phase, snap, queue>>
    BY Zenon, <1>2 DEF Finish, RehydratedClaim, RunnerClaim, procVars
  <2>3. \A v \in tasks : v.run = r => v \in tasks'
    BY Zenon, <1>2, <2>1 DEF Finish, RehydratedClaim, RunnerClaim, GuardedClaim, Replace
  <2> QED BY Zenon, <2>1, <2>2, <2>3 DEF Remembered, Registered
<1>3. CASE ReadStatus(t)
  <2>1. status[r] = "waiting" /\ UNCHANGED <<waiting, phase, snap, queue>>
    BY Zenon, <1>3 DEF ReadStatus, dbVars, procVars
  <2>2. \A v \in tasks : v # t => v \in tasks'
    BY Zenon, <1>3 DEF ReadStatus, Replace
  <2>3. ASSUME t.run = r PROVE Remembered(r)'
    <3>1. TaskAt(t, "claim") \in tasks' /\ TaskAt(t, "claim").run = r /\ TaskAt(t, "claim").pc = "claim"
      BY Zenon, <1>3, <2>1, <2>3 DEF ReadStatus, Replace, TaskAt
    <3> QED BY Zenon, <3>1 DEF Remembered
  <2> QED BY Zenon, <2>1, <2>2, <2>3 DEF Remembered, Registered
<1>4. CASE RegisterInsert(t)
  <2>1. status[r] = "waiting" /\ UNCHANGED <<phase, snap, queue>>
    BY Zenon, <1>4 DEF RegisterInsert, dbVars, procVars
  <2>2. \A v \in tasks : v # t => v \in tasks'
    BY Zenon, <1>4 DEF RegisterInsert, Replace
  <2>3. \A i \in Instances : Registered(i, r) \/ (i = t.at /\ t.run = r) => Registered(i, r)'
    BY Zenon, <1>0, <1>4 DEF RegisterInsert, Registered, ShapeOK, Tasks, Kinds, NoEntry
  <2> QED BY Zenon, <1>0, <2>1, <2>2, <2>3 DEF Remembered
<1>5. CASE PersistRead(t) \/ PersistWrite(t)
  <2>1. status[r] = "waiting" /\ UNCHANGED <<waiting, phase, snap, queue>>
    BY Zenon, <1>5 DEF PersistRead, PersistWrite, dbVars, procVars
  <2>2. t.pc \in {"persist", "write"} /\ \A v \in tasks : v # t => v \in tasks'
    BY Zenon, <1>5 DEF PersistRead, PersistWrite, Replace
  <2>3. t.pc \notin {"begin", "read", "claim", "insert"}
    BY Zenon, <2>2
  <2> QED BY Zenon, <2>1, <2>2, <2>3 DEF Remembered, Registered
<1> QED BY Zenon, <1>1, <1>2, <1>3, <1>4, <1>5 DEF TaskStep

\* Steps that leave status, registrations, queues and callbacks alone.
LEMMA RememberedFrame ==
  ASSUME NEW r \in Runs, Remembered(r), UNCHANGED <<waiting, phase, snap, queue>>, tasks \subseteq tasks'
  PROVE  Remembered(r)'
  BY Zenon DEF Remembered, Registered

LEMMA RememberedNote ==
  ASSUME ShapeOK, NEW r \in Runs, Remembered(r), NEW n \in notes, NoteStep(n)
  PROVE  Remembered(r)'
<1>1. CASE NotifyMatch(n)
  <2> DEFINE e == waiting[n.at][n.run]
  <2>0. /\ n.at \in Instances /\ n.run \in Runs /\ UNCHANGED <<phase, snap, tasks>>
        /\ waiting \in [Instances -> [Runs -> Entries \union {NoEntry}]]
        /\ queue \in [Instances -> SUBSET Items]
    BY Zenon, <1>1 DEF NotifyMatch, ShapeOK, Notes, procVars
  <2>1. \A i \in Instances : queue[i] \subseteq queue'[i]
    BY Zenon, <1>1, <2>0 DEF NotifyMatch
  <2>2. ASSUME NEW i \in Instances, Registered(i, r) PROVE Remembered(r)'
    <3> DEFINE q == [run |-> n.run, kind |-> e.kind, no |-> e.no]
    <3>1. Registered(i, r)' \/ (i = n.at /\ r = n.run /\ e # NoEntry /\ e.no = n.no)
      BY Zenon, <1>1, <2>0, <2>2 DEF NotifyMatch, Registered
    <3>2. e # NoEntry /\ e.no = n.no => q \in queue'[n.at]
      BY Zenon, <1>1, <2>0 DEF NotifyMatch
    <3>3. q.run = n.run
      OBVIOUS
    <3> HIDE DEF q, e
    <3> QED BY Zenon, <2>0, <3>1, <3>2, <3>3 DEF Remembered
  <2> HIDE DEF e
  <2> QED BY Zenon, <2>0, <2>1, <2>2 DEF Remembered
<1>2. CASE NotifyDelete(n) \/ NotifyCross(n) \/ NotifyPublish(n)
  BY Zenon, <1>2, RememberedFrame DEF NotifyDelete, NotifyCross, NotifyPublish, procVars
<1> QED BY Zenon, <1>1, <1>2 DEF NoteStep

\* Steps of an instance; the clean-up needs CleanupCurrent.
LEMMA RememberedProcess ==
  ASSUME ShapeOK, CleanupCurrent, NEW r \in Runs, status[r] = "waiting", Remembered(r),
         NEW i \in Instances
  PROVE  /\ \A x \in Runs : Start(i, x) \/ RouteEvent(i, x) \/ Watchdog(i, x) => Remembered(r)'
         /\ \A m \in inbox[i] : HandleMessage(i, m) => Remembered(r)'
         /\ \A q \in queue[i] : Dispatch(i, q) => Remembered(r)'
         /\ \A s \in snap[i] : Rehydrate(i, s) => Remembered(r)'
         /\ \A x \in evict[i] : CleanupEvict(i, x) => Remembered(r)'
         /\ StartupRead(i) \/ OrphanRead(i) \/ StartupDone(i) => Remembered(r)'
         /\ CleanupRead(i) \/ Crash(i) => Remembered(r)'
<1>1. ASSUME NEW x, Start(i, x) \/ RouteEvent(i, x) \/ HandleMessage(i, x) \/ CleanupRead(i)
      PROVE  Remembered(r)'
  <2>1. UNCHANGED <<waiting, phase, snap, queue>> /\ tasks \subseteq tasks'
    BY Zenon, <1>1 DEF Start, RouteEvent, HandleMessage, CleanupRead, procVars
  <2> QED BY Zenon, <2>1, RememberedFrame
<1>2. ASSUME NEW x \in Runs, Watchdog(i, x) PROVE Remembered(r)'
  <2>1. UNCHANGED <<phase, snap, queue, tasks>>
    BY Zenon, <1>2 DEF Watchdog, procVars
  <2>2. \A j \in Instances : Registered(j, r) => Registered(j, r)'
    BY Zenon, <1>2 DEF Watchdog, Reregister, Registered, ShapeOK, NoEntry
  <2> QED BY Zenon, <2>1, <2>2 DEF Remembered
<1>3. ASSUME NEW q \in queue[i], Dispatch(i, q) PROVE Remembered(r)'
  <2> DEFINE u == [at |-> i, run |-> q.run, kind |-> q.kind, no |-> q.no, pc |-> "begin"]
  <2>1. /\ UNCHANGED <<waiting, phase, snap>> /\ tasks' = tasks \union {u}
        /\ queue' = [queue EXCEPT ![i] = @ \ {q}]
    BY Zenon, <1>3 DEF Dispatch, procVars
  <2>2. \A j \in Instances : \A y \in queue[j] : y = q \/ y \in queue'[j]
    BY Zenon, <2>1 DEF ShapeOK
  <2>3. u.run = q.run /\ u.pc = "begin"
    OBVIOUS
  <2> HIDE DEF u
  <2> QED BY Zenon, <2>1, <2>2, <2>3 DEF Remembered, Registered
<1>4. ASSUME NEW s \in snap[i], Rehydrate(i, s) PROVE Remembered(r)'
  <2>1. UNCHANGED <<phase, queue>> /\ tasks \subseteq tasks'
    BY Zenon, <1>4 DEF Rehydrate
  <2>2. \A j \in Instances : \A y \in snap[j] : y = s \/ y \in snap'[j]
    BY Zenon, <1>4 DEF Rehydrate, ShapeOK
  <2>3. s.run \in Runs
    BY DEF ShapeOK, Waits
  <2>4. \A j \in Instances : Registered(j, r) \/ (j = i /\ s.run = r) => Registered(j, r)'
    BY Zenon, <1>4, <2>3 DEF Rehydrate, Registered, ShapeOK, NoEntry
  <2> QED BY Zenon, <2>1, <2>2, <2>4 DEF Remembered
<1>5. ASSUME NEW x \in evict[i], CleanupEvict(i, x) PROVE Remembered(r)'
  <2>1. UNCHANGED <<phase, snap, queue, tasks>> /\ x # r
    BY Zenon, <1>5 DEF CleanupEvict, CleanupCurrent
  <2>2. \A j \in Instances : Registered(j, r) => Registered(j, r)'
    BY Zenon, <1>5, <2>1 DEF CleanupEvict, Registered, ShapeOK
  <2> QED BY Zenon, <2>1, <2>2 DEF Remembered
<1>6. ASSUME StartupRead(i) PROVE Remembered(r)'
  <2>1. [run |-> r, no |-> waitNo[r]] \in snap'[i]
    BY Zenon, <1>6 DEF StartupRead, ShapeOK
  <2> QED BY Zenon, <2>1 DEF Remembered
<1>7. ASSUME OrphanRead(i) PROVE Remembered(r)'
  <2>1. UNCHANGED <<waiting, phase, queue, tasks>>
    BY Zenon, <1>7 DEF OrphanRead
  <2>2. \A j \in Instances : snap[j] \subseteq snap'[j]
    BY Zenon, <1>7 DEF OrphanRead, TickIdle, ShapeOK
  <2> QED BY Zenon, <2>1, <2>2 DEF Remembered, Registered
<1>8. ASSUME StartupDone(i) PROVE Remembered(r)'
  <2>1. UNCHANGED <<waiting, snap, queue, tasks>>
    BY Zenon, <1>8 DEF StartupDone
  <2>2. \A j \in Instances : phase[j] = "down" => phase'[j] = "down"
    BY Zenon, <1>8 DEF StartupDone, ShapeOK
  <2> QED BY Zenon, <2>1, <2>2 DEF Remembered, Registered
<1>9. ASSUME Crash(i) PROVE Remembered(r)'
  <2>1. phase'[i] = "down"
    BY Zenon, <1>9 DEF Crash, ShapeOK
  <2> QED BY Zenon, <2>1 DEF Remembered
<1> QED BY Zenon, <1>1, <1>2, <1>3, <1>4, <1>5, <1>6, <1>7, <1>8, <1>9

LEMMA RememberedStep ==
  ASSUME ShapeOK, CleanupCurrent, WaitNeverForgotten, [Next]_vars
  PROVE  WaitNeverForgotten'
<1> SUFFICES ASSUME NEW r \in Runs, status'[r] = "waiting" PROVE Remembered(r)'
  BY Zenon DEF WaitNeverForgotten
<1>0. status[r] = "waiting" => Remembered(r)
  BY Zenon DEF WaitNeverForgotten
<1>1. ASSUME NEW t \in tasks, TaskStep(t) PROVE Remembered(r)'
  BY Zenon, <1>0, <1>1, RememberedTask
<1>2. ASSUME NEW i \in Instances, NEW x \in Runs, Start(i, x) PROVE status[r] = "waiting"
  BY Zenon, <1>2 DEF Start, ShapeOK
<1>3. ASSUME status[r] = "waiting" PROVE Remembered(r)'
  <2>1. Remembered(r)
    BY Zenon, <1>0, <1>3
  <2>2. ASSUME NEW x, NEW no, WorkerEvent(x, no) \/ \E i \in Instances : EmitSystemEvent(i, x, no)
        PROVE  Remembered(r)'
    <3>1. UNCHANGED <<waiting, phase, snap, queue>> /\ tasks' = tasks
      BY Zenon, <2>2 DEF WorkerEvent, EmitSystemEvent, procVars
    <3> QED BY Zenon, <2>1, <3>1, RememberedFrame
  <2>3. CASE UNCHANGED vars
    BY Zenon, <2>1, <2>3, RememberedFrame DEF vars
  <2> QED BY Zenon, <1>1, <1>3, <2>1, <2>2, <2>3, RememberedNote, RememberedProcess DEF Next
<1>4. CASE UNCHANGED status
  BY Zenon, <1>3, <1>4
<1>5. \/ UNCHANGED status
      \/ \E t \in tasks : TaskStep(t)
      \/ \E i \in Instances, x \in Runs : Start(i, x)
  BY Zenon DEF Next, vars, dbVars, NoteStep, NotifyMatch, NotifyDelete, NotifyCross, NotifyPublish,
     RouteEvent, HandleMessage, Dispatch, StartupRead, OrphanRead, StartupDone, Rehydrate, WorkerEvent,
     EmitSystemEvent, Watchdog, CleanupRead, CleanupEvict, Crash
<1> QED BY Zenon, <1>1, <1>2, <1>3, <1>4, <1>5

\* A waiting run is never forgotten by the running processes, however many waits,
\* instances, crashes and lost messages there are, as long as no run waits again
\* while a clean-up that read it as not waiting is under way.
THEOREM WaitsRemembered == Spec /\ []CleanupCurrent => []WaitNeverForgotten
<1>1. Init => ShapeOK /\ WaitNeverForgotten
  <2>1. ASSUME Init PROVE WaitNeverForgotten
    <3> SUFFICES ASSUME NEW r \in Runs, status[r] = "waiting" PROVE Remembered(r)
      BY Zenon DEF WaitNeverForgotten
    <3>1. PICK i \in Instances : phase[i] = "down"
      BY Zenon, <2>1, TopologyAssumption DEF Init
    <3> QED BY Zenon, <3>1 DEF Remembered
  <2> QED BY Zenon, <2>1, ShapeInit
<1>2. ShapeOK /\ WaitNeverForgotten /\ CleanupCurrent /\ [Next]_vars => (ShapeOK /\ WaitNeverForgotten)'
  BY Zenon, ShapeStep, RememberedStep
<1> QED BY <1>1, <1>2, PTL DEF Spec

-----------------------------------------------------------------------------
(* Runs that wait once *)

\* A run that never waited is registered, read and listed nowhere.
Untouched(r) ==
  /\ status[r] # "waiting"
  /\ \A i \in Instances : ~Registered(i, r) /\ r \notin evict[i] /\ \A s \in snap[i] : s.run # r
  /\ \A t \in tasks : t.run = r => t.pc # "insert"
FirstWait == \A r \in Runs : waitNo[r] = 0 => Untouched(r)

\* A thread that has a claim before it.
Claiming == {"begin", "read", "claim"}

\* The thread that a step of a thread leaves behind, the one of Wait excepted.
LEMMA TaskAtFields ==
  ASSUME NEW t, NEW pc
  PROVE  TaskAt(t, pc).pc = pc /\ TaskAt(t, pc).run = t.run /\ TaskAt(t, pc).no = t.no
  BY Zenon DEF TaskAt

LEMMA TaskSuccessor ==
  ASSUME NEW t, TaskStep(t), ~Wait(t), NEW u \in tasks', u \notin tasks
  PROVE  \/ u.pc = "write" /\ t.pc = "persist"
         \/ u.pc = "persist" /\ t.pc = "insert"
         \/ u.pc \in {"read", "claim", "exec"} /\ t.pc \in Claiming /\ u.run = t.run /\ u.no = t.no
<1>1. CASE Finish(t) \/ PersistWrite(t)
  BY Zenon, <1>1 DEF Finish, PersistWrite
<1>2. ASSUME NEW pc, tasks' = Replace(tasks, t, TaskAt(t, pc))
      PROVE  u.pc = pc /\ u.run = t.run /\ u.no = t.no
  <2>1. u = TaskAt(t, pc)
    BY Zenon, <1>2 DEF Replace
  <2> QED BY Zenon, <2>1, TaskAtFields
<1>3. ASSUME NEW pc \in {"read", "exec"}, GuardedClaim(t, pc) PROVE u.pc = pc /\ u.run = t.run /\ u.no = t.no
  <2>1. tasks' = Replace(tasks, t, TaskAt(t, pc)) \/ tasks' = tasks \ {t}
    BY Zenon, <1>3 DEF GuardedClaim
  <2> QED BY Zenon, <1>2, <2>1
<1>4. CASE RehydratedClaim(t) \/ RunnerClaim(t)
  <2>1. t.pc \in Claiming /\ \E pc \in {"read", "exec"} : GuardedClaim(t, pc)
    BY Zenon, <1>4 DEF RehydratedClaim, RunnerClaim, Claiming
  <2> QED BY Zenon, <1>3, <2>1
<1>5. CASE ReadStatus(t)
  <2>1. t.pc \in Claiming
    BY Zenon, <1>5 DEF ReadStatus, Claiming
  <2>2. tasks' = Replace(tasks, t, TaskAt(t, "claim")) \/ tasks' = Replace(tasks, t, TaskAt(t, "exec"))
    BY Zenon, <1>5 DEF ReadStatus
  <2>3. u.pc \in {"claim", "exec"} /\ u.run = t.run /\ u.no = t.no
    BY Zenon, <1>2, <2>2
  <2> QED BY Zenon, <2>1, <2>3
<1>6. CASE RegisterInsert(t)
  <2>1. t.pc = "insert" /\ tasks' = Replace(tasks, t, TaskAt(t, "persist"))
    BY Zenon, <1>6 DEF RegisterInsert
  <2> QED BY Zenon, <1>2, <2>1
<1>7. CASE PersistRead(t)
  <2>1. t.pc = "persist" /\ u = [at |-> t.at, run |-> t.run, kind |-> t.kind,
                                 no |-> waiting[t.at][t.run].no, pc |-> "write"]
    BY Zenon, <1>7 DEF PersistRead, Replace
  <2> QED BY Zenon, <2>1
<1> QED BY Zenon, <1>1, <1>4, <1>5, <1>6, <1>7 DEF TaskStep

LEMMA UntouchedTask ==
  ASSUME ShapeOK, NEW r \in Runs, Untouched(r), waitNo'[r] = 0, NEW t \in tasks, TaskStep(t)
  PROVE  /\ \A i \in Instances : ~Registered(i, r)' /\ r \notin evict'[i] /\ \A s \in snap'[i] : s.run # r
         /\ \A u \in tasks' : u.run = r => u.pc # "insert"
<1>0. t \in Tasks /\ t.run \in Runs /\ t.at \in Instances /\ waitNo \in [Runs -> WaitNos]
  BY Zenon DEF ShapeOK, Tasks
<1>1. UNCHANGED <<evict, snap>>
  BY Zenon DEF TaskStep, Wait, Finish, RehydratedClaim, ReadStatus, RunnerClaim, RegisterInsert,
               PersistRead, PersistWrite, procVars
<1>2. ASSUME NEW i \in Instances PROVE ~Registered(i, r)'
  <2>1. CASE RegisterInsert(t)
    <3>1. t.run # r
      BY Zenon, <2>1 DEF RegisterInsert, Untouched
    <3> QED BY Zenon, <1>0, <2>1, <3>1 DEF RegisterInsert, Registered, Untouched, ShapeOK
  <2>2. CASE waiting' = waiting
    BY Zenon, <2>2 DEF Registered, Untouched
  <2> QED BY Zenon, <2>1, <2>2 DEF TaskStep, Wait, Finish, RehydratedClaim, ReadStatus, RunnerClaim,
                               PersistRead, PersistWrite
<1>3. ASSUME NEW u \in tasks', u.run = r PROVE u.pc # "insert"
  <2>1. CASE Wait(t)
    <3>1. t.run # r
      BY <1>0, <2>1 DEF Wait, WaitNos
    <3>2. u \in tasks \/ u.run = t.run
      BY <2>1 DEF Wait, Replace
    <3> QED BY Zenon, <1>3, <3>1, <3>2 DEF Untouched
  <2>2. CASE ~Wait(t)
    <3>1. u \in tasks \/ u.pc \in {"write", "persist", "read", "claim", "exec"}
      BY Zenon, <2>2, TaskSuccessor
    <3> QED BY Zenon, <1>3, <3>1 DEF Untouched
  <2> QED BY Zenon, <2>1, <2>2
<1> QED BY Zenon, <1>1, <1>2, <1>3 DEF Untouched

LEMMA UntouchedProcess ==
  ASSUME ShapeOK, NEW r \in Runs, Untouched(r), NEW i \in Instances, NEW x,
         \/ x \in Runs /\ (Start(i, x) \/ RouteEvent(i, x) \/ Watchdog(i, x))
         \/ x \in inbox[i] /\ HandleMessage(i, x)
         \/ x \in queue[i] /\ Dispatch(i, x)
         \/ x \in snap[i] /\ Rehydrate(i, x)
         \/ x \in evict[i] /\ CleanupEvict(i, x)
         \/ StartupRead(i) \/ OrphanRead(i) \/ StartupDone(i) \/ CleanupRead(i) \/ Crash(i)
  PROVE  /\ \A j \in Instances : ~Registered(j, r)' /\ r \notin evict'[j] /\ \A s \in snap'[j] : s.run # r
         /\ \A u \in tasks' : u.run = r => u.pc # "insert"
<1>1. ASSUME NEW u \in tasks', u.run = r PROVE u.pc # "insert"
  <2>1. u \in tasks \/ u.pc \in {"exec", "begin", "persist"}
    <3>1. CASE x \in Runs /\ Start(i, x)
      <4>1. u \in tasks \/ u = [at |-> i, run |-> x, kind |-> "runner", no |-> 0, pc |-> "exec"]
        BY Zenon, <3>1 DEF Start
      <4> QED BY <4>1
    <3>2. CASE x \in queue[i] /\ Dispatch(i, x)
      <4>1. u \in tasks \/ u = [at |-> i, run |-> x.run, kind |-> x.kind, no |-> x.no, pc |-> "begin"]
        BY Zenon, <3>2 DEF Dispatch
      <4> QED BY <4>1
    <3>3. CASE x \in snap[i] /\ Rehydrate(i, x)
      <4>1. u \in tasks \/ u = [at |-> i, run |-> x.run, kind |-> "rehydrated", no |-> x.no, pc |-> "persist"]
        BY Zenon, <3>3 DEF Rehydrate
      <4> QED BY <4>1
    <3>4. CASE Crash(i)
      BY Zenon, <3>4 DEF Crash
    <3>5. CASE tasks' = tasks
      BY Zenon, <3>5
    <3> QED BY Zenon, <3>1, <3>2, <3>3, <3>4, <3>5 DEF RouteEvent, Watchdog, HandleMessage, CleanupEvict,
               StartupRead, OrphanRead, StartupDone, CleanupRead
  <2> QED BY Zenon, <1>1, <2>1 DEF Untouched
<1>2. ASSUME NEW j \in Instances PROVE ~Registered(j, r)'
  <2>1. CASE x \in Runs /\ Watchdog(i, x)
    <3>1. waiting'[j][r] = waiting[j][r]
      BY Zenon, <2>1 DEF Watchdog, Reregister, Missing, Untouched, ShapeOK
    <3> QED BY Zenon, <3>1 DEF Registered, Untouched
  <2>2. CASE x \in snap[i] /\ Rehydrate(i, x)
    <3>1. x.run # r /\ x.run \in Runs
      BY <2>2 DEF Untouched, ShapeOK, Waits
    <3>2. waiting'[j][r] = waiting[j][r]
      BY Zenon, <2>2, <3>1 DEF Rehydrate, ShapeOK
    <3> QED BY Zenon, <3>2 DEF Registered, Untouched
  <2>3. CASE CleanupEvict(i, x) \/ Crash(i)
    <3>0. waiting \in [Instances -> [Runs -> Entries \union {NoEntry}]]
      BY Zenon DEF ShapeOK
    <3>1. CASE CleanupEvict(i, x)
      <4>1. waiting' = [waiting EXCEPT ![i][x] = NoEntry]
        BY Zenon, <3>1 DEF CleanupEvict
      <4> QED BY Zenon, <3>0, <4>1 DEF Registered, Untouched
    <3>2. CASE Crash(i)
      <4>1. waiting' = [waiting EXCEPT ![i] = [y \in Runs |-> NoEntry]]
        BY Zenon, <3>2 DEF Crash
      <4> QED BY Zenon, <3>0, <4>1 DEF Registered, Untouched
    <3> QED BY Zenon, <2>3, <3>1, <3>2
  <2>4. CASE waiting' = waiting
    BY Zenon, <2>4 DEF Registered, Untouched
  <2> QED BY Zenon, <2>1, <2>2, <2>3, <2>4 DEF Start, RouteEvent, HandleMessage, Dispatch, StartupRead,
             OrphanRead, StartupDone, CleanupRead
<1>3. ASSUME NEW j \in Instances PROVE r \notin evict'[j]
  <2>1. CASE CleanupRead(i)
    BY Zenon, <2>1 DEF CleanupRead, Untouched, ShapeOK
  <2>2. CASE CleanupEvict(i, x) \/ Crash(i)
    <3>0. DOMAIN evict = Instances
      BY Zenon DEF ShapeOK
    <3>1. evict' = [evict EXCEPT ![i] = @ \ {x}] \/ evict' = [evict EXCEPT ![i] = {}]
      BY Zenon, <2>2 DEF CleanupEvict, Crash
    <3>2. evict'[j] \subseteq evict[j]
      BY Zenon, <3>0, <3>1
    <3> QED BY Zenon, <3>2 DEF Untouched
  <2>3. CASE evict' = evict
    BY Zenon, <2>3 DEF Untouched
  <2> QED BY Zenon, <2>1, <2>2, <2>3 DEF Start, RouteEvent, Watchdog, HandleMessage, Dispatch, Rehydrate,
             StartupRead, OrphanRead, StartupDone, procVars
<1>4. ASSUME NEW j \in Instances, NEW s \in snap'[j] PROVE s.run # r
  <2>1. CASE StartupRead(i) \/ OrphanRead(i)
    <3>0. DOMAIN snap = Instances
      BY Zenon DEF ShapeOK
    <3>1. CASE s \in snap[j]
      BY Zenon, <3>1 DEF Untouched
    <3>2. CASE s \notin snap[j]
      <4>1. PICK S : /\ snap' = [snap EXCEPT ![i] = {[run |-> y, no |-> waitNo[y]] : y \in S}]
                     /\ S \subseteq {y \in Runs : status[y] = "waiting"}
        BY Zenon, <2>1 DEF StartupRead, OrphanRead
      <4>2. PICK y \in S : s = [run |-> y, no |-> waitNo[y]]
        BY Zenon, <3>0, <3>2, <4>1
      <4>3. status[y] = "waiting" /\ s.run = y
        BY Zenon, <4>1, <4>2
      <4> QED BY Zenon, <4>3 DEF Untouched
    <3> QED BY Zenon, <3>1, <3>2
  <2>2. CASE Rehydrate(i, x) \/ Crash(i)
    <3>0. DOMAIN snap = Instances
      BY Zenon DEF ShapeOK
    <3>1. snap' = [snap EXCEPT ![i] = @ \ {x}] \/ snap' = [snap EXCEPT ![i] = {}]
      BY Zenon, <2>2 DEF Rehydrate, Crash
    <3>2. snap'[j] \subseteq snap[j]
      BY Zenon, <3>0, <3>1
    <3> QED BY Zenon, <3>2 DEF Untouched
  <2>3. CASE snap' = snap
    BY Zenon, <2>3 DEF Untouched
  <2> QED BY Zenon, <2>1, <2>2, <2>3 DEF Start, RouteEvent, Watchdog, HandleMessage, Dispatch, StartupDone,
             CleanupRead, CleanupEvict, procVars
<1> QED BY Zenon, <1>1, <1>2, <1>3, <1>4

\* Initially nothing is registered, and no clean-up has read anything.
LEMMA FirstWaitInit ==
  ASSUME Init
  PROVE  FirstWait /\ CleanupCurrent
<1>1. tasks = {} /\ \A i \in Instances : evict[i] = {} /\ snap[i] = {}
  BY Zenon DEF Init
<1>2. ASSUME NEW i \in Instances, NEW r \in Runs PROVE ~Registered(i, r)
  <2>1. waiting[i] = [x \in Runs |-> NoEntry]
    BY Zenon DEF Init
  <2> QED BY Zenon, <2>1 DEF Registered
<1>3. ASSUME NEW r \in Runs, waitNo[r] = 0 PROVE status[r] # "waiting"
  <2>1. /\ waitNo = [x \in Runs |-> IF ColdStart THEN 1 ELSE 0]
        /\ status = [x \in Runs |-> IF ColdStart THEN "waiting" ELSE "absent"]
    BY Zenon DEF Init
  <2> QED BY <1>3, <2>1
<1> QED BY Zenon, <1>1, <1>2, <1>3 DEF FirstWait, Untouched, CleanupCurrent

LEMMA FirstWaitStep ==
  ASSUME ShapeOK, DbType, FirstWait, [Next]_vars
  PROVE  FirstWait'
<1> SUFFICES ASSUME NEW r \in Runs, waitNo'[r] = 0 PROVE Untouched(r)'
  BY Zenon DEF FirstWait
<1> DEFINE Elsewhere ==
      /\ \A j \in Instances : ~Registered(j, r)' /\ r \notin evict'[j] /\ \A s \in snap'[j] : s.run # r
      /\ \A u \in tasks' : u.run = r => u.pc # "insert"
<1>1. waitNo[r] = 0 /\ (status'[r] = "waiting" => status[r] = "waiting")
  <2>1. DbStep
    BY Zenon, NextIsDbStep
  <2> QED BY <2>1 DEF DbStep, DbType, dbVars, Opens, Grants, Moves
<1>2. Untouched(r)
  BY Zenon, <1>1 DEF FirstWait
<1>3. CASE UNCHANGED <<waiting, evict, snap, tasks>>
  <2>1. Elsewhere
    BY Zenon, <1>2, <1>3 DEF Untouched, Registered
  <2> QED BY Zenon, <1>1, <1>2, <2>1 DEF Untouched
<1>4. CASE UNCHANGED vars
  BY Zenon, <1>3, <1>4 DEF vars
<1>5. ASSUME NEW n \in notes, NoteStep(n) PROVE Untouched(r)'
  <2>1. CASE NotifyMatch(n)
    <3>1. UNCHANGED <<evict, snap, tasks>>
      BY Zenon, <2>1 DEF NotifyMatch, procVars
    <3>2. \A j \in Instances : waiting'[j][r] \in {waiting[j][r], NoEntry}
      BY Zenon, <2>1 DEF NotifyMatch, ShapeOK, Notes
    <3>3. \A j \in Instances : ~Registered(j, r)'
      BY Zenon, <1>2, <3>2 DEF Registered, Untouched
    <3> QED BY Zenon, <1>1, <1>2, <3>1, <3>3 DEF Untouched
  <2>2. CASE ~NotifyMatch(n)
    BY Zenon, <1>3, <1>5, <2>2 DEF NoteStep, NotifyDelete, NotifyCross, NotifyPublish, procVars
  <2> QED BY Zenon, <2>1, <2>2
<1>6. ASSUME NEW x, NEW no, WorkerEvent(x, no) \/ \E i \in Instances : EmitSystemEvent(i, x, no)
      PROVE  Untouched(r)'
  BY Zenon, <1>3, <1>6 DEF WorkerEvent, EmitSystemEvent, procVars
<1>7. ASSUME NEW t \in tasks, TaskStep(t) PROVE Untouched(r)'
  <2>1. Elsewhere
    BY Zenon, <1>2, <1>7, UntouchedTask
  <2> QED BY Zenon, <1>1, <1>2, <2>1 DEF Untouched
<1>8. ASSUME NEW i \in Instances, NEW x,
             \/ x \in Runs /\ (Start(i, x) \/ RouteEvent(i, x) \/ Watchdog(i, x))
             \/ x \in inbox[i] /\ HandleMessage(i, x)
             \/ x \in queue[i] /\ Dispatch(i, x)
             \/ x \in snap[i] /\ Rehydrate(i, x)
             \/ x \in evict[i] /\ CleanupEvict(i, x)
             \/ StartupRead(i) \/ OrphanRead(i) \/ StartupDone(i) \/ CleanupRead(i) \/ Crash(i)
      PROVE  Untouched(r)'
  <2>1. Elsewhere
    BY Zenon, <1>2, <1>8, UntouchedProcess
  <2> QED BY Zenon, <1>1, <1>2, <2>1 DEF Untouched
<1> HIDE DEF Elsewhere
<1> QED BY Zenon, <1>4, <1>5, <1>6, <1>7, <1>8 DEF Next

\* With one wait per run the clean-up is never overtaken: a run that it lists has
\* left its only wait.
LEMMA CleanupCurrentStep ==
  ASSUME MaxWaits = 1, ShapeOK, DbType, FirstWait, CleanupCurrent, [Next]_vars
  PROVE  CleanupCurrent'
<1> SUFFICES ASSUME NEW i \in Instances, NEW r \in evict'[i], status'[r] = "waiting" PROVE FALSE
  BY Zenon DEF CleanupCurrent
<1>0. evict \in [Instances -> SUBSET Runs] /\ status \in [Runs -> Statuses] /\ waitNo \in [Runs -> WaitNos]
  BY Zenon DEF ShapeOK, Statuses
<1>1. CASE r \in evict[i]
  <2>1. r \in Runs /\ status[r] # "waiting" /\ waitNo[r] # 0
    BY Zenon, <1>0, <1>1 DEF CleanupCurrent, FirstWait, Untouched
  <2>2. waitNo[r] = 1
    BY <1>0, <2>1 DEF WaitNos
  <2>3. ASSUME NEW t \in tasks, Wait(t) PROVE FALSE
    <3>1. t.run # r
      <4>1. waitNo[t.run] < MaxWaits
        BY Zenon, <2>3 DEF Wait
      <4> QED BY Zenon, <2>2, <4>1, OneBelowOne
    <3>2. status'[r] = status[r]
      BY Zenon, <1>0, <2>1, <2>3, <3>1 DEF Wait
    <3> QED BY Zenon, <2>1, <3>2
  <2>4. CASE DbStep /\ ~\E x \in Runs : Opens(x)
    BY Zenon, <1>0, <2>1, <2>4 DEF DbStep, dbVars, Grants, Moves
  <2>5. (\E x \in Runs : Opens(x)) => waitNo' # waitNo
    BY DEF DbType, Opens
  <2>6. waitNo' # waitNo => \E t \in tasks : Wait(t)
    BY Zenon DEF Next, vars, TaskStep, Finish, RehydratedClaim, ReadStatus, RunnerClaim, RegisterInsert,
       PersistRead, PersistWrite, dbVars, NoteStep, NotifyMatch, NotifyDelete, NotifyCross, NotifyPublish,
       Start, RouteEvent, HandleMessage, Dispatch, StartupRead, OrphanRead, StartupDone, Rehydrate,
       WorkerEvent, EmitSystemEvent, Watchdog, CleanupRead, CleanupEvict, Crash
  <2> QED BY Zenon, <2>3, <2>4, <2>5, <2>6, NextIsDbStep
<1>2. CASE r \notin evict[i]
  <2>1. PICK j \in Instances : CleanupRead(j)
    <3>1. ASSUME NEW j \in Instances, (\E x \in evict[j] : CleanupEvict(j, x)) \/ Crash(j) PROVE FALSE
      BY Zenon, <1>0, <1>2, <3>1 DEF CleanupEvict, Crash
    <3>2. evict' # evict
      BY Zenon, <1>2
    <3> QED
      BY Zenon, <3>1, <3>2 DEF Next, vars, TaskStep, Wait, Finish, RehydratedClaim, ReadStatus, RunnerClaim,
         RegisterInsert, PersistRead, PersistWrite, NoteStep, NotifyMatch, NotifyDelete, NotifyCross,
         NotifyPublish, Start, RouteEvent, HandleMessage, Dispatch, StartupRead, OrphanRead, StartupDone,
         Rehydrate, WorkerEvent, EmitSystemEvent, Watchdog, procVars
  <2>2. status[r] # "waiting" /\ status' = status
    BY Zenon, <1>0, <1>2, <2>1 DEF CleanupRead, dbVars
  <2> QED BY Zenon, <2>2
<1> QED BY Zenon, <1>1, <1>2

\* A run that waits once is never forgotten, in any deployment.
THEOREM OneWaitRemembered ==
  ASSUME MaxWaits = 1
  PROVE  Spec => []WaitNeverForgotten
<1> DEFINE Inv == ShapeOK /\ DbType /\ FirstWait /\ CleanupCurrent
<1>1. Init => Inv
  <2> SUFFICES ASSUME Init PROVE Inv
    OBVIOUS
  <2>1. FirstWait /\ CleanupCurrent
    BY Zenon, FirstWaitInit
  <2> QED BY Zenon, <2>1, ShapeInit, DbInit
<1>2. Inv /\ [Next]_vars => Inv'
  BY Zenon, ShapeStep, NextIsDbStep, DbTypeStep, FirstWaitStep, CleanupCurrentStep
<1>3. Inv => CleanupCurrent
  OBVIOUS
<1> HIDE DEF Inv
<1> QED BY <1>1, <1>2, <1>3, WaitsRemembered, PTL DEF Spec

-----------------------------------------------------------------------------
(* What a claim answers *)

\* A resume request was made for this wait of the run, which has begun, or a
\* SystemEvent of an awaited type was persisted.
Asked(r, n) == (n \in 1..waitNo[r] /\ published[r][n] > 0) \/ events[r] > 0

\* Everything on the way to a claim answers a request or an event.
CallbacksAsked ==
  /\ \A n \in notes : Asked(n.run, n.no)
  /\ \A i \in Instances : \A m \in inbox[i] : Asked(m.run, m.no)
  /\ \A i \in Instances : \A q \in queue[i] : Asked(q.run, q.no)
  /\ \A t \in tasks : t.pc \in Claiming => Asked(t.run, t.no)
  /\ \A r \in Runs : row[r].fired => events[r] > 0

\* What was asked stays asked.
AskedGrows ==
  /\ \A r \in Runs, n \in WaitNos : Asked(r, n) => Asked(r, n)'
  /\ \A r \in Runs : events[r] > 0 => events'[r] > 0

LEMMA AskedStep ==
  ASSUME ShapeOK, CountsOK, [Next]_vars
  PROVE  AskedGrows
<1>0. /\ waitNo \in [Runs -> WaitNos] /\ events \in [Runs -> Nat]
      /\ published \in [Runs -> [1..MaxWaits -> Nat]] /\ MaxWaits \in Nat
  BY Zenon, BoundsAssumption DEF ShapeOK, CountsOK
<1>1. CASE UNCHANGED <<waitNo, published, events>>
  BY Zenon, <1>1 DEF AskedGrows, Asked
<1>2. ASSUME NEW t \in tasks, Wait(t) PROVE AskedGrows
  <2>1. UNCHANGED <<published, events>>
    BY Zenon, <1>2 DEF Wait, bounds
  <2>2. \A r \in Runs : waitNo[r] \in Nat /\ waitNo'[r] \in {waitNo[r], waitNo[r] + 1}
    BY <1>0, <1>2 DEF Wait, WaitNos
  <2>3. ASSUME NEW r \in Runs, NEW n \in WaitNos, n \in 1..waitNo[r] PROVE n \in 1..waitNo'[r]
    BY <2>2, <2>3
  <2> QED BY Zenon, <2>1, <2>3 DEF AskedGrows, Asked
<1>3. ASSUME NEW i \in Instances, NEW x \in Runs, RouteEvent(i, x) PROVE AskedGrows
  <2>1. UNCHANGED <<waitNo, events>>
    BY Zenon, <1>3 DEF RouteEvent, dbVars
  <2>2. ASSUME NEW r \in Runs, NEW n \in 1..waitNo[r], published[r][n] > 0
        PROVE  published'[r][n] > 0
    <3>1. n \in 1..MaxWaits
      BY <1>0 DEF WaitNos
    <3> QED BY <1>0, <1>3, <2>2, <3>1 DEF RouteEvent
  <2> QED BY Zenon, <2>1, <2>2 DEF AskedGrows, Asked
<1>4. ASSUME NEW x \in Runs, NEW no, SystemEventPersisted(x, no), UNCHANGED <<waitNo, published>>
      PROVE  AskedGrows
  <2>1. \A r \in Runs : events[r] > 0 => events'[r] > 0
    BY <1>0, <1>4 DEF SystemEventPersisted
  <2> QED BY Zenon, <1>4, <2>1 DEF AskedGrows, Asked
<1> QED
  BY Zenon, <1>1, <1>2, <1>3, <1>4 DEF Next, vars, TaskStep, Finish, RehydratedClaim, ReadStatus, RunnerClaim,
     RegisterInsert, PersistRead, PersistWrite, dbVars, bounds, NoteStep, NotifyMatch, NotifyDelete,
     NotifyCross, NotifyPublish, Start, HandleMessage, Dispatch, StartupRead, OrphanRead, StartupDone,
     Rehydrate, WorkerEvent, EmitSystemEvent, Watchdog, CleanupRead, CleanupEvict, Crash

\* What the messages and the queued callbacks name.
LEMMA InboxFields ==
  ASSUME ShapeOK, NEW i \in Instances, NEW m \in inbox[i]
  PROVE  m.run \in Runs /\ m.no \in WaitNos
<1>1. inbox \in [Instances -> SUBSET Waits]
  BY Zenon DEF ShapeOK
<1>2. m \in Waits
  BY Zenon, <1>1
<1> QED BY Zenon, <1>2 DEF Waits

LEMMA QueueFields ==
  ASSUME ShapeOK, NEW i \in Instances, NEW q \in queue[i]
  PROVE  q.run \in Runs /\ q.no \in WaitNos
<1>1. queue \in [Instances -> SUBSET Items]
  BY Zenon DEF ShapeOK
<1>2. q \in Items
  BY Zenon, <1>1
<1> QED BY Zenon, <1>2 DEF Items

\* The notification that a step of a notification leaves behind.
LEMMA NoteSuccessor ==
  ASSUME NEW n, NoteStep(n), NEW m \in notes', m \notin notes
  PROVE  m.run = n.run /\ m.no = n.no
<1>1. ASSUME NEW pc, notes' = Replace(notes, n, NoteAt(n, pc)) PROVE m.run = n.run /\ m.no = n.no
  <2>1. m = NoteAt(n, pc)
    BY Zenon, <1>1 DEF Replace
  <2> QED BY Zenon, <2>1 DEF NoteAt
<1>2. notes' = notes \ {n} \/ \E pc \in {"delete", "cross", "publish"} : notes' = Replace(notes, n, NoteAt(n, pc))
  <2>1. CASE NotifyMatch(n)
    BY Zenon, <2>1 DEF NotifyMatch
  <2>2. CASE NotifyDelete(n)
    BY Zenon, <2>2 DEF NotifyDelete
  <2>3. CASE NotifyCross(n) \/ NotifyPublish(n)
    BY Zenon, <2>3 DEF NotifyCross, NotifyPublish, Publish
  <2> QED BY Zenon, <2>1, <2>2, <2>3 DEF NoteStep
<1> QED BY Zenon, <1>1, <1>2

\* A step keeps CallbacksAsked when all that it adds is asked for.
LEMMA AskedAdded ==
  ASSUME ShapeOK, CallbacksAsked, AskedGrows,
         \A n \in notes' : n \in notes \/ Asked(n.run, n.no)',
         \A i \in Instances : \A m \in inbox'[i] : m \in inbox[i] \/ Asked(m.run, m.no)',
         \A i \in Instances : \A q \in queue'[i] : q \in queue[i] \/ Asked(q.run, q.no)',
         \A t \in tasks' : t.pc \in Claiming => t \in tasks \/ Asked(t.run, t.no)',
         \A r \in Runs : row'[r].fired => row[r].fired \/ events'[r] > 0
  PROVE  CallbacksAsked'
<1>1. ASSUME NEW n \in notes' PROVE Asked(n.run, n.no)'
  <2>1. CASE n \in notes
    <3>1. n.run \in Runs /\ n.no \in WaitNos
      BY Zenon, <2>1 DEF ShapeOK, Notes
    <3> QED BY Zenon, <2>1, <3>1 DEF CallbacksAsked, AskedGrows
  <2> QED BY Zenon, <2>1
<1>2. ASSUME NEW i \in Instances, NEW m \in inbox'[i] PROVE Asked(m.run, m.no)'
  <2>1. CASE m \in inbox[i]
    <3>1. m.run \in Runs /\ m.no \in WaitNos
      BY Zenon, <2>1, InboxFields
    <3> QED BY Zenon, <2>1, <3>1 DEF CallbacksAsked, AskedGrows
  <2> QED BY Zenon, <2>1
<1>3. ASSUME NEW i \in Instances, NEW q \in queue'[i] PROVE Asked(q.run, q.no)'
  <2>1. CASE q \in queue[i]
    <3>1. q.run \in Runs /\ q.no \in WaitNos
      BY Zenon, <2>1, QueueFields
    <3> QED BY Zenon, <2>1, <3>1 DEF CallbacksAsked, AskedGrows
  <2> QED BY Zenon, <2>1
<1>4. ASSUME NEW t \in tasks', t.pc \in Claiming PROVE Asked(t.run, t.no)'
  <2>1. CASE t \in tasks
    <3>1. t.run \in Runs /\ t.no \in WaitNos
      BY Zenon, <2>1 DEF ShapeOK, Tasks
    <3> QED BY Zenon, <1>4, <2>1, <3>1 DEF CallbacksAsked, AskedGrows
  <2> QED BY Zenon, <1>4, <2>1
<1>5. ASSUME NEW r \in Runs, row'[r].fired PROVE events'[r] > 0
  BY Zenon, <1>5 DEF CallbacksAsked, AskedGrows
<1> QED BY Zenon, <1>1, <1>2, <1>3, <1>4, <1>5 DEF CallbacksAsked

\* The same for a step that starts no callback and leaves the rows alone or clears one.
LEMMA AskedQuiet ==
  ASSUME ShapeOK, CallbacksAsked, AskedGrows,
         \A n \in notes' : n \in notes,
         \A i \in Instances : inbox'[i] \subseteq inbox[i] /\ queue'[i] \subseteq queue[i],
         \A t \in tasks' : t \in tasks \/ t.pc \notin Claiming,
         \A r \in Runs : row'[r].fired => row[r].fired
  PROVE  CallbacksAsked'
BY Zenon, AskedAdded

LEMMA AskedTask ==
  ASSUME ShapeOK, CallbacksAsked, AskedGrows, NEW t \in tasks, TaskStep(t)
  PROVE  CallbacksAsked'
<1>0. /\ t \in Tasks /\ t.run \in Runs /\ t.no \in WaitNos
      /\ UNCHANGED <<notes, inbox, queue>>
  BY Zenon DEF ShapeOK, Tasks, TaskStep, Wait, Finish, RehydratedClaim, ReadStatus, RunnerClaim,
               RegisterInsert, PersistRead, PersistWrite
<1>1. \A r \in Runs : row'[r].fired => row[r].fired
  <2>1. CASE PersistWrite(t)
    BY Zenon, <2>1 DEF PersistWrite, ShapeOK
  <2> QED BY Zenon, <2>1 DEF TaskStep, Wait, Finish, RehydratedClaim, ReadStatus, RunnerClaim,
                             RegisterInsert, PersistRead, stores
<1>2. ASSUME NEW u \in tasks', u.pc \in Claiming PROVE u \in tasks \/ Asked(u.run, u.no)'
  <2>1. CASE t.pc \in Claiming
    <3>1. Asked(t.run, t.no)'
      BY Zenon, <1>0, <2>1 DEF CallbacksAsked, AskedGrows
    <3>2. ~Wait(t) /\ t.pc # "persist" /\ t.pc # "insert"
      BY Zenon, <2>1 DEF Wait, Claiming
    <3>3. u \in tasks \/ (u.run = t.run /\ u.no = t.no)
      BY Zenon, <3>2, TaskSuccessor
    <3> QED BY Zenon, <3>1, <3>3
  <2>2. CASE t.pc \notin Claiming
    <3>1. CASE Wait(t)
      <4>1. u \in tasks \/ u = [at |-> t.at, run |-> t.run, kind |-> "runner",
                                no |-> waitNo[t.run] + 1, pc |-> "insert"]
        BY Zenon, <3>1 DEF Wait, Replace
      <4>2. u \in tasks \/ u.pc = "insert"
        BY <4>1
      <4> QED BY Zenon, <1>2, <4>2 DEF Claiming
    <3>2. CASE ~Wait(t)
      <4>1. u \in tasks \/ u.pc \in {"write", "persist"}
        BY Zenon, <2>2, <3>2, TaskSuccessor
      <4> QED BY Zenon, <1>2, <4>1 DEF Claiming
    <3> QED BY Zenon, <3>1, <3>2
  <2> QED BY Zenon, <2>1, <2>2
<1> QED BY Zenon, <1>0, <1>1, <1>2, AskedAdded

LEMMA AskedNote ==
  ASSUME ShapeOK, CallbacksAsked, AskedGrows, NEW n \in notes, NoteStep(n)
  PROVE  CallbacksAsked'
<1>0. n \in Notes /\ n.run \in Runs /\ n.no \in WaitNos /\ n.at \in Instances /\ UNCHANGED tasks
  BY Zenon DEF ShapeOK, Notes, NoteStep, NotifyMatch, NotifyDelete, NotifyCross, NotifyPublish
<1>1. Asked(n.run, n.no)'
  BY Zenon, <1>0 DEF CallbacksAsked, AskedGrows
<1>2. ASSUME NEW m \in notes' PROVE m \in notes \/ Asked(m.run, m.no)'
  <2>1. m \in notes \/ (m.run = n.run /\ m.no = n.no)
    BY Zenon, NoteSuccessor
  <2> QED BY Zenon, <1>1, <2>1
<1>3. ASSUME NEW i \in Instances, NEW m \in inbox'[i] PROVE m \in inbox[i] \/ Asked(m.run, m.no)'
  <2>1. CASE Publish(n)
    <3>1. m \in inbox[i] \/ (m.run = n.run /\ m.no = n.no)
      BY <2>1 DEF Publish, ShapeOK
    <3> QED BY Zenon, <1>1, <3>1
  <2>2. CASE inbox' = inbox
    BY Zenon, <2>2
  <2> QED BY Zenon, <2>1, <2>2 DEF NoteStep, NotifyMatch, NotifyDelete, NotifyCross, NotifyPublish
<1>4. ASSUME NEW i \in Instances, NEW q \in queue'[i] PROVE q \in queue[i] \/ Asked(q.run, q.no)'
  <2>1. CASE NotifyMatch(n)
    <3>0. DOMAIN queue = Instances
      BY Zenon DEF ShapeOK
    <3>1. PICK e : \/ queue' = [queue EXCEPT ![n.at] = @]
                   \/ /\ queue' = [queue EXCEPT ![n.at] = @ \union {[run |-> n.run, kind |-> e.kind, no |-> e.no]}]
                      /\ e.no = n.no
      BY Zenon, <2>1 DEF NotifyMatch
    <3>2. q \in queue[i] \/ (q.run = n.run /\ q.no = n.no)
      BY <1>0, <3>0, <3>1
    <3> QED BY Zenon, <1>1, <3>2
  <2>2. CASE queue' = queue
    BY Zenon, <2>2
  <2> QED BY Zenon, <2>1, <2>2 DEF NoteStep, NotifyDelete, NotifyCross, NotifyPublish
<1>5. ASSUME NEW r \in Runs, row'[r].fired PROVE row[r].fired
  <2>1. CASE NotifyDelete(n)
    <3>1. row' = [row EXCEPT ![n.run] = NoRow] \/ row' = row
      BY Zenon, <2>1 DEF NotifyDelete
    <3>2. DOMAIN row = Runs /\ ~NoRow.fired
      BY Zenon DEF ShapeOK, NoRow
    <3> QED BY Zenon, <1>0, <1>5, <3>1, <3>2
  <2> QED BY Zenon, <1>5, <2>1 DEF NoteStep, NotifyMatch, NotifyCross, NotifyPublish, stores
<1> QED BY Zenon, <1>0, <1>2, <1>3, <1>4, <1>5, AskedAdded

\* Requests and events: what they start is what they ask for.
LEMMA AskedEvent ==
  ASSUME ShapeOK, CountsOK, FirstWait, CallbacksAsked, AskedGrows, NEW x \in Runs, NEW no \in WaitNos,
         \/ WorkerEvent(x, no)
         \/ \E i \in Instances : EmitSystemEvent(i, x, no) \/ RouteEvent(i, x) \/ Watchdog(i, x)
  PROVE  CallbacksAsked'
<1>1. CASE \E i \in Instances : RouteEvent(i, x)
  <2>1. PICK i \in Instances : RouteEvent(i, x)
    BY Zenon, <1>1
  <2>2. waitNo[x] \in 1..MaxWaits
    <3>1. waitNo[x] # 0 /\ waitNo[x] \in WaitNos
      BY Zenon, <2>1 DEF RouteEvent, FirstWait, Untouched, ShapeOK
    <3> QED BY <3>1, BoundsAssumption DEF WaitNos
  <2>3. UNCHANGED <<inbox, queue, tasks, row, waitNo>>
    BY Zenon, <2>1 DEF RouteEvent, stores, dbVars
  <2>4. \A n \in notes' : n \in notes \/ (n.run = x /\ n.no = waitNo[x])
    <3>1. \A n \in notes' : n \in notes \/ n = [at |-> i, run |-> x, no |-> waitNo[x], pc |-> "match", by |-> "request"]
      BY Zenon, <2>1 DEF RouteEvent
    <3> QED BY <3>1
  <2>5. published'[x][waitNo[x]] > 0
    <3>1. published[x] \in [1..MaxWaits -> Nat]
      BY Zenon DEF CountsOK
    <3>2. published[x][waitNo[x]] \in Nat
      BY Zenon, <2>2, <3>1
    <3>3. published'[x] = [published[x] EXCEPT ![waitNo[x]] = @ + 1]
      BY Zenon, <2>1 DEF RouteEvent, CountsOK
    <3>4. published'[x][waitNo[x]] = published[x][waitNo[x]] + 1
      BY Zenon, <2>2, <3>1, <3>3
    <3>5. \A k \in Nat : k + 1 > 0
      OBVIOUS
    <3> QED BY Zenon, <3>2, <3>4, <3>5
  <2>6. \A n \in notes' : n \in notes \/ Asked(n.run, n.no)'
    <3>1. waitNo[x] \in 1..waitNo[x]
      BY <2>2, BoundsAssumption
    <3> QED BY Zenon, <2>3, <2>4, <2>5, <3>1 DEF Asked
  <2> QED BY Zenon, <2>3, <2>6, AskedAdded
<1>2. CASE \E i \in Instances : Watchdog(i, x)
  <2>1. PICK i \in Instances : Watchdog(i, x)
    BY Zenon, <1>2
  <2>2. events'[x] > 0
    BY Zenon, <2>1 DEF Watchdog, bounds, CallbacksAsked
  <2>3. \A n \in notes' : n \in notes \/ n.run = x
    <3>1. \A n \in notes' : n \in notes \/ \E by : n = [at |-> i, run |-> x, no |-> row[x].no, pc |-> "match", by |-> by]
      BY Zenon, <2>1 DEF Watchdog
    <3> QED BY <3>1
  <2>4. \A n \in notes' : n \in notes \/ Asked(n.run, n.no)'
    BY Zenon, <2>2, <2>3 DEF Asked
  <2>5. \A r \in Runs : row'[r].fired => row[r].fired
    BY Zenon, <2>1 DEF Watchdog, Reregister
  <2>6. UNCHANGED <<inbox, queue, tasks>>
    BY Zenon, <2>1 DEF Watchdog
  <2> QED BY Zenon, <2>4, <2>5, <2>6, AskedAdded
<1>3. CASE WorkerEvent(x, no) \/ \E i \in Instances : EmitSystemEvent(i, x, no)
  <2>1. SystemEventPersisted(x, no) /\ UNCHANGED <<queue, tasks>>
    BY Zenon, <1>3 DEF WorkerEvent, EmitSystemEvent
  <2>2. events'[x] > 0
    BY <2>1 DEF SystemEventPersisted, CountsOK
  <2>3. \A n \in notes' : n \in notes \/ n.run = x
    <3>1. \A n \in notes' : n \in notes \/ \E i \in Instances : n = [at |-> i, run |-> x, no |-> no, pc |-> "match", by |-> "emit"]
      BY Zenon, <1>3 DEF WorkerEvent, EmitSystemEvent
    <3> QED BY <3>1
  <2>4. ASSUME NEW i \in Instances, NEW m \in inbox'[i] PROVE m \in inbox[i] \/ m.run = x
    <3>1. DOMAIN inbox = Instances
      BY Zenon DEF ShapeOK
    <3>2. inbox' = inbox \/ \E k \in Instances : inbox' = [inbox EXCEPT ![k] = @ \union {[run |-> x, no |-> no]}]
      BY Zenon, <1>3 DEF WorkerEvent, EmitSystemEvent
    <3> QED BY <3>1, <3>2
  <2>5. \A r \in Runs : row'[r].fired => row[r].fired \/ events'[r] > 0
    BY Zenon, <2>1, <2>2 DEF SystemEventPersisted, ShapeOK
  <2>6. /\ \A n \in notes' : n \in notes \/ Asked(n.run, n.no)'
        /\ \A i \in Instances : \A m \in inbox'[i] : m \in inbox[i] \/ Asked(m.run, m.no)'
    BY Zenon, <2>2, <2>3, <2>4 DEF Asked
  <2> QED BY Zenon, <2>1, <2>5, <2>6, AskedAdded
<1> QED BY Zenon, <1>1, <1>2, <1>3

LEMMA AskedProcess ==
  ASSUME ShapeOK, CallbacksAsked, AskedGrows, NEW i \in Instances, NEW x,
         \/ x \in Runs /\ Start(i, x)
         \/ x \in inbox[i] /\ HandleMessage(i, x)
         \/ x \in queue[i] /\ Dispatch(i, x)
         \/ x \in snap[i] /\ Rehydrate(i, x)
         \/ x \in evict[i] /\ CleanupEvict(i, x)
         \/ StartupRead(i) \/ OrphanRead(i) \/ StartupDone(i) \/ CleanupRead(i) \/ Crash(i)
  PROVE  CallbacksAsked'
<1>1. CASE x \in inbox[i] /\ HandleMessage(i, x)
  <2>1. x.run \in Runs /\ x.no \in WaitNos
    BY <1>1 DEF ShapeOK, Waits
  <2>2. Asked(x.run, x.no)'
    BY Zenon, <1>1, <2>1 DEF CallbacksAsked, AskedGrows
  <2>3. \A n \in notes' : n \in notes \/ (n.run = x.run /\ n.no = x.no)
    <3>1. \A n \in notes' : n \in notes \/ n = [at |-> i, run |-> x.run, no |-> x.no, pc |-> "match", by |-> "bus"]
      BY Zenon, <1>1 DEF HandleMessage
    <3> QED BY <3>1
  <2>4. \A j \in Instances : inbox'[j] \subseteq inbox[j]
    BY Zenon, <1>1 DEF HandleMessage, ShapeOK
  <2>5. UNCHANGED <<queue, tasks, row>>
    BY Zenon, <1>1 DEF HandleMessage, stores
  <2>6. \A n \in notes' : n \in notes \/ Asked(n.run, n.no)'
    BY Zenon, <2>2, <2>3
  <2> QED BY Zenon, <2>4, <2>5, <2>6, AskedAdded
<1>2. CASE x \in queue[i] /\ Dispatch(i, x)
  <2>1. x.run \in Runs /\ x.no \in WaitNos
    BY <1>2 DEF ShapeOK, Items
  <2>2. Asked(x.run, x.no)'
    BY Zenon, <1>2, <2>1 DEF CallbacksAsked, AskedGrows
  <2>3. \A t \in tasks' : t \in tasks \/ (t.run = x.run /\ t.no = x.no)
    <3>1. \A t \in tasks' : \/ t \in tasks
                             \/ t = [at |-> i, run |-> x.run, kind |-> x.kind, no |-> x.no, pc |-> "begin"]
      BY Zenon, <1>2 DEF Dispatch
    <3> QED BY <3>1
  <2>4. \A j \in Instances : queue'[j] \subseteq queue[j]
    BY Zenon, <1>2 DEF Dispatch, ShapeOK
  <2>5. UNCHANGED <<inbox, notes, row>>
    BY Zenon, <1>2 DEF Dispatch, stores
  <2>6. \A t \in tasks' : t \in tasks \/ Asked(t.run, t.no)'
    BY Zenon, <2>2, <2>3
  <2> QED BY Zenon, <2>4, <2>5, <2>6, AskedAdded
<1>3. CASE (x \in Runs /\ Start(i, x)) \/ (x \in snap[i] /\ Rehydrate(i, x))
  <2>1. \A t \in tasks' : t \in tasks \/ t.pc \notin Claiming
    <3>1. ASSUME NEW t \in tasks' PROVE t \in tasks \/ t.pc \in {"exec", "persist"}
      <4>1. \/ t \in tasks
            \/ t = [at |-> i, run |-> x, kind |-> "runner", no |-> 0, pc |-> "exec"]
            \/ t = [at |-> i, run |-> x.run, kind |-> "rehydrated", no |-> x.no, pc |-> "persist"]
        BY Zenon, <1>3 DEF Start, Rehydrate
      <4> QED BY <4>1
    <3> QED BY Zenon, <3>1 DEF Claiming
  <2>2. UNCHANGED <<notes, inbox, queue, row>>
    BY Zenon, <1>3 DEF Start, Rehydrate, stores
  <2> QED BY Zenon, <2>1, <2>2, AskedQuiet
<1>4. CASE x \in evict[i] /\ CleanupEvict(i, x)
  <2>1. \A r \in Runs : row'[r].fired => row[r].fired
    BY Zenon, <1>4 DEF CleanupEvict, NoRow, ShapeOK
  <2>2. UNCHANGED <<notes, inbox, queue, tasks>>
    BY Zenon, <1>4 DEF CleanupEvict
  <2> QED BY Zenon, <2>1, <2>2, AskedQuiet
<1>5. CASE Crash(i)
  <2>1. \A j \in Instances : inbox'[j] \subseteq inbox[j] /\ queue'[j] \subseteq queue[j]
    BY Zenon, <1>5 DEF Crash, ShapeOK
  <2>2. notes' \subseteq notes /\ tasks' \subseteq tasks /\ row' = row
    BY Zenon, <1>5 DEF Crash, stores
  <2> QED BY Zenon, <2>1, <2>2, AskedQuiet
<1>6. CASE StartupRead(i) \/ OrphanRead(i) \/ StartupDone(i) \/ CleanupRead(i)
  <2>1. UNCHANGED <<notes, inbox, queue, tasks, row>>
    BY Zenon, <1>6 DEF StartupRead, OrphanRead, StartupDone, CleanupRead, stores
  <2> QED BY Zenon, <2>1, AskedQuiet
<1> QED BY Zenon, <1>1, <1>2, <1>3, <1>4, <1>5, <1>6

LEMMA CallbacksAskedStep ==
  ASSUME ShapeOK, CountsOK, FirstWait, CallbacksAsked, [Next]_vars
  PROVE  CallbacksAsked'
<1>1. AskedGrows
  BY Zenon, AskedStep
<1>2. CASE UNCHANGED vars
  BY Zenon, <1>2 DEF vars, CallbacksAsked, Asked
<1>3. ASSUME NEW x \in Runs, NEW no \in 1..MaxWaits,
             WorkerEvent(x, no) \/ \E i \in Instances : EmitSystemEvent(i, x, no)
      PROVE  CallbacksAsked'
  <2>1. no \in WaitNos
    BY BoundsAssumption DEF WaitNos
  <2> QED BY Zenon, <1>1, <1>3, <2>1, AskedEvent
<1>4. ASSUME NEW i \in Instances, NEW x \in Runs, RouteEvent(i, x) \/ Watchdog(i, x)
      PROVE  CallbacksAsked'
  <2>1. 0 \in WaitNos
    BY BoundsAssumption DEF WaitNos
  <2> QED BY Zenon, <1>1, <1>4, <2>1, AskedEvent
<1>5. ASSUME NEW t \in tasks, TaskStep(t) PROVE CallbacksAsked'
  BY Zenon, <1>1, <1>5, AskedTask
<1>6. ASSUME NEW n \in notes, NoteStep(n) PROVE CallbacksAsked'
  BY Zenon, <1>1, <1>6, AskedNote
<1>7. ASSUME NEW i \in Instances, NEW x,
             \/ x \in Runs /\ Start(i, x)
             \/ x \in inbox[i] /\ HandleMessage(i, x)
             \/ x \in queue[i] /\ Dispatch(i, x)
             \/ x \in snap[i] /\ Rehydrate(i, x)
             \/ x \in evict[i] /\ CleanupEvict(i, x)
             \/ StartupRead(i) \/ OrphanRead(i) \/ StartupDone(i) \/ CleanupRead(i) \/ Crash(i)
      PROVE  CallbacksAsked'
  BY Zenon, <1>1, <1>7, AskedProcess
<1> QED BY Zenon, <1>2, <1>3, <1>4, <1>5, <1>6, <1>7 DEF Next

\* A claim is made by a callback that was asked for.
LEMMA ClaimantAsked ==
  ASSUME ShapeOK, CountsOK, CallbacksAsked, [Next]_vars, NEW r \in Runs, claims'[r] > claims[r]
  PROVE  \E t \in tasks : /\ t.run = r /\ status[r] = "waiting" /\ Asked(r, t.no)
                          /\ t.pc = "claim" \/ (t.pc = "begin" /\ t.kind = "rehydrated")
<1>0. claims \in [Runs -> Nat]
  BY Zenon DEF CountsOK
<1>1. claims' # claims
  BY <1>0
<1>2. PICK t \in tasks : RehydratedClaim(t) \/ RunnerClaim(t)
  BY Zenon, <1>1 DEF Next, vars, TaskStep, Wait, Finish, ReadStatus, RegisterInsert, PersistRead,
     PersistWrite, dbVars, NoteStep, NotifyMatch, NotifyDelete, NotifyCross, NotifyPublish, Start, RouteEvent,
     HandleMessage, Dispatch, StartupRead, OrphanRead, StartupDone, Rehydrate, WorkerEvent, EmitSystemEvent,
     Watchdog, CleanupRead, CleanupEvict, Crash
<1>3. t.run = r /\ status[r] = "waiting"
  <2>1. claims' = [claims EXCEPT ![t.run] = IF status[t.run] = "waiting" THEN @ + 1 ELSE @]
    BY Zenon, <1>2 DEF RehydratedClaim, RunnerClaim, GuardedClaim
  <2> QED BY <1>0, <2>1
<1>4. t.pc = "claim" \/ (t.pc = "begin" /\ t.kind = "rehydrated")
  BY Zenon, <1>2 DEF RehydratedClaim, RunnerClaim
<1>5. Asked(r, t.no)
  BY Zenon, <1>3, <1>4 DEF CallbacksAsked, Claiming
<1> QED BY Zenon, <1>3, <1>4, <1>5

AskedInv == ShapeOK /\ CountsOK /\ DbType /\ FirstWait /\ CallbacksAsked

LEMMA AskedInvariant == Spec => []AskedInv
<1>1. Init => AskedInv
  <2> SUFFICES ASSUME Init PROVE AskedInv
    OBVIOUS
  <2>1. FirstWait
    BY Zenon, FirstWaitInit
  <2>2. CallbacksAsked
    BY Zenon DEF Init, CallbacksAsked, NoRow
  <2>3. CountsOK
    BY Zenon, BoundsAssumption DEF Init, CountsOK
  <2> QED BY Zenon, <2>1, <2>2, <2>3, ShapeInit, DbInit DEF AskedInv
<1>2. AskedInv /\ [Next]_vars => AskedInv'
  BY Zenon, ShapeStep, CountsStep, NextIsDbStep, DbTypeStep, FirstWaitStep, CallbacksAskedStep DEF AskedInv
<1> QED BY <1>1, <1>2, PTL DEF Spec

\* No run is resumed out of nothing: a claim answers a request made for the wait
\* it claims or for an earlier wait of the run, or a SystemEvent.
ClaimIsAnswer ==
  [][\A r \in Runs : claims'[r] > claims[r] =>
       events[r] > 0 \/ \E n \in 1..waitNo[r] : published[r][n] > 0]_vars

\* No run is resumed out of nothing, whatever the deployment, the number of waits,
\* the crashes and the messages lost.
THEOREM ClaimsAnswer == Spec => ClaimIsAnswer
<1>1. AskedInv /\ [Next]_vars =>
        [\A r \in Runs : claims'[r] > claims[r] =>
           events[r] > 0 \/ \E n \in 1..waitNo[r] : published[r][n] > 0]_vars
  BY Zenon, ClaimantAsked DEF AskedInv, Asked
<1> QED BY <1>1, AskedInvariant, PTL DEF Spec, ClaimIsAnswer

\* Every callback that is about to claim a waiting run belongs to the wait the run is in.
CallbacksCurrent ==
  \A t \in tasks : t.pc \in {"begin", "claim"} /\ status[t.run] = "waiting" => t.no = waitNo[t.run]

\* A claim answers a request for that very wait, or a SystemEvent, as long as no
\* callback of an earlier wait is still on its way when the run waits again.
THEOREM ClaimsRequested == Spec /\ []CallbacksCurrent => ClaimIsRequested
<1>1. AskedInv /\ CallbacksCurrent /\ [Next]_vars =>
        [\A r \in Runs : claims'[r] > claims[r] => published[r][waitNo[r]] > 0 \/ events[r] > 0]_vars
  <2> SUFFICES ASSUME AskedInv, CallbacksCurrent, [Next]_vars, NEW r \in Runs, claims'[r] > claims[r]
               PROVE  published[r][waitNo[r]] > 0 \/ events[r] > 0
    BY Zenon
  <2>1. PICK t \in tasks : /\ t.run = r /\ status[r] = "waiting" /\ Asked(r, t.no)
                           /\ t.pc = "claim" \/ (t.pc = "begin" /\ t.kind = "rehydrated")
    BY Zenon, ClaimantAsked DEF AskedInv
  <2>2. t.no = waitNo[r]
    BY Zenon, <2>1 DEF CallbacksCurrent
  <2> QED BY Zenon, <2>1, <2>2 DEF Asked
<1> QED BY <1>1, AskedInvariant, PTL DEF Spec, ClaimIsRequested

\* A run that waits once is claimed only after a request for that wait or a SystemEvent.
THEOREM OneWaitRequested ==
  ASSUME MaxWaits = 1
  PROVE  Spec => ClaimIsRequested
<1>1. AskedInv /\ [Next]_vars =>
        [\A r \in Runs : claims'[r] > claims[r] => published[r][waitNo[r]] > 0 \/ events[r] > 0]_vars
  <2> SUFFICES ASSUME AskedInv, [Next]_vars, NEW r \in Runs, claims'[r] > claims[r]
               PROVE  published[r][waitNo[r]] > 0 \/ events[r] > 0
    BY Zenon
  <2>1. PICK t \in tasks : Asked(r, t.no)
    BY Zenon, ClaimantAsked DEF AskedInv
  <2>2. waitNo[r] \in 0..1
    BY Zenon DEF AskedInv, ShapeOK, WaitNos
  <2>3. t.no \in 1..waitNo[r] => t.no = waitNo[r]
    BY <2>2
  <2> QED BY Zenon, <2>1, <2>3 DEF Asked
<1> QED BY <1>1, AskedInvariant, PTL DEF Spec, ClaimIsRequested
-----------------------------------------------------------------------------
(* One request, one runner *)

\* A notification that may still wake a run on a dispatching instance.
OnTheWay(n) == IF n.at \in Dispatchers THEN n.pc = "match" ELSE n.by = "request"

\* The wake-ups under way to a claim: notifications, messages to a dispatching
\* instance, callbacks queued there and threads before their claim.
WakeUp(stage, i, x) == [stage |-> stage, at |-> i, what |-> x]
WakeUps ==
  {WakeUp("note", n.at, n) : n \in {m \in notes : OnTheWay(m)}}
  \union (UNION {{WakeUp("message", i, m) : m \in inbox[i]} : i \in Dispatchers})
  \union (UNION {{WakeUp("item", i, q) : q \in queue[i]} : i \in Dispatchers})
  \union {WakeUp("task", t.at, t) : t \in {u \in tasks : u.pc \in {"begin", "claim"}}}

\* Nothing but requests, and their messages, notifies.
OnlyRequests ==
  /\ \A r \in Runs : events[r] = 0
  /\ \A n \in notes : n.by \in {"request", "bus"}

\* One wake-up at a time is under way for a run, and the run waits for it.
OneWakeUp == \A c, d \in WakeUps : c.what.run = d.what.run => c = d
WakeUpsCurrent ==
  \A c \in WakeUps : status[c.what.run] = "waiting" /\ c.what.no = waitNo[c.what.run]

\* One thread is past its claim, and the run is not waiting.
HeldOnce ==
  /\ \A t \in tasks : Past(t) => status[t.run] \in {"running", "executing"}
  /\ \A t, u \in tasks : Past(t) /\ Past(u) /\ t.run = u.run => t = u

OneRequestInv == OnlyRequests /\ OneWakeUp /\ WakeUpsCurrent /\ HeldOnce

LEMMA WakeUpFields ==
  ASSUME NEW stage, NEW i, NEW x
  PROVE  WakeUp(stage, i, x).stage = stage /\ WakeUp(stage, i, x).at = i /\ WakeUp(stage, i, x).what = x
  BY Zenon DEF WakeUp

LEMMA WakeUpCases ==
  ASSUME NEW c \in WakeUps
  PROVE  \/ \E n \in notes : OnTheWay(n) /\ c = WakeUp("note", n.at, n)
         \/ \E i \in Dispatchers : \E m \in inbox[i] : c = WakeUp("message", i, m)
         \/ \E i \in Dispatchers : \E q \in queue[i] : c = WakeUp("item", i, q)
         \/ \E t \in tasks : t.pc \in {"begin", "claim"} /\ c = WakeUp("task", t.at, t)
  BY Zenon DEF WakeUps

LEMMA WakeUpCasesNext ==
  ASSUME NEW c \in WakeUps'
  PROVE  \/ \E n \in notes' : OnTheWay(n) /\ c = WakeUp("note", n.at, n)
         \/ \E i \in Dispatchers : \E m \in inbox'[i] : c = WakeUp("message", i, m)
         \/ \E i \in Dispatchers : \E q \in queue'[i] : c = WakeUp("item", i, q)
         \/ \E t \in tasks' : t.pc \in {"begin", "claim"} /\ c = WakeUp("task", t.at, t)
  BY Zenon DEF WakeUps, OnTheWay, WakeUp

LEMMA WakeUpMembers ==
  /\ \A n \in notes : OnTheWay(n) => WakeUp("note", n.at, n) \in WakeUps
  /\ \A i \in Dispatchers : \A m \in inbox[i] : WakeUp("message", i, m) \in WakeUps
  /\ \A i \in Dispatchers : \A q \in queue[i] : WakeUp("item", i, q) \in WakeUps
  /\ \A t \in tasks : t.pc \in {"begin", "claim"} => WakeUp("task", t.at, t) \in WakeUps
<1>1. \A n \in notes : OnTheWay(n) => WakeUp("note", n.at, n) \in WakeUps
  BY Zenon DEF WakeUps
<1>2. \A i \in Dispatchers : \A m \in inbox[i] : WakeUp("message", i, m) \in WakeUps
  <2> SUFFICES ASSUME NEW i \in Dispatchers, NEW m \in inbox[i] PROVE WakeUp("message", i, m) \in WakeUps
    BY Zenon
  <2>1. WakeUp("message", i, m) \in {WakeUp("message", i, x) : x \in inbox[i]}
    BY Zenon
  <2>2. WakeUp("message", i, m) \in UNION {{WakeUp("message", j, x) : x \in inbox[j]} : j \in Dispatchers}
    BY Zenon, <2>1
  <2> QED BY Zenon, <2>2 DEF WakeUps
<1>3. \A i \in Dispatchers : \A q \in queue[i] : WakeUp("item", i, q) \in WakeUps
  <2> SUFFICES ASSUME NEW i \in Dispatchers, NEW q \in queue[i] PROVE WakeUp("item", i, q) \in WakeUps
    BY Zenon
  <2>1. WakeUp("item", i, q) \in {WakeUp("item", i, x) : x \in queue[i]}
    BY Zenon
  <2>2. WakeUp("item", i, q) \in UNION {{WakeUp("item", j, x) : x \in queue[j]} : j \in Dispatchers}
    BY Zenon, <2>1
  <2> QED BY Zenon, <2>2 DEF WakeUps
<1>4. \A t \in tasks : t.pc \in {"begin", "claim"} => WakeUp("task", t.at, t) \in WakeUps
  BY Zenon DEF WakeUps
<1> QED BY Zenon, <1>1, <1>2, <1>3, <1>4

\* What a step adds to the wake-ups is what it adds to their places.
LEMMA WakeUpAdded ==
  ASSUME NEW d,
         \A n \in notes' : OnTheWay(n) => n \in notes \/ d = WakeUp("note", n.at, n),
         \A i \in Dispatchers : \A m \in inbox'[i] : m \in inbox[i] \/ d = WakeUp("message", i, m),
         \A i \in Dispatchers : \A q \in queue'[i] : q \in queue[i] \/ d = WakeUp("item", i, q),
         \A t \in tasks' : t.pc \in {"begin", "claim"} => t \in tasks \/ d = WakeUp("task", t.at, t)
  PROVE  WakeUps' \subseteq WakeUps \union {d}
<1> SUFFICES ASSUME NEW c \in WakeUps', c # d PROVE c \in WakeUps
  BY Zenon
<1>1. CASE \E n \in notes' : OnTheWay(n) /\ c = WakeUp("note", n.at, n)
  BY Zenon, <1>1, WakeUpMembers
<1>2. CASE \E i \in Dispatchers : \E m \in inbox'[i] : c = WakeUp("message", i, m)
  BY Zenon, <1>2, WakeUpMembers
<1>3. CASE \E i \in Dispatchers : \E q \in queue'[i] : c = WakeUp("item", i, q)
  BY Zenon, <1>3, WakeUpMembers
<1>4. CASE \E t \in tasks' : t.pc \in {"begin", "claim"} /\ c = WakeUp("task", t.at, t)
  BY Zenon, <1>4, WakeUpMembers
<1> QED BY Zenon, <1>1, <1>2, <1>3, <1>4, WakeUpCasesNext

\* A wake-up that has left its place is gone.
LEMMA WakeUpGone ==
  ASSUME NEW i, NEW x
  PROVE  /\ x \notin notes' => WakeUp("note", i, x) \notin WakeUps'
         /\ (i \in Dispatchers => x \notin inbox'[i]) => WakeUp("message", i, x) \notin WakeUps'
         /\ (i \in Dispatchers => x \notin queue'[i]) => WakeUp("item", i, x) \notin WakeUps'
         /\ x \notin tasks' => WakeUp("task", i, x) \notin WakeUps'
<1>1. ASSUME NEW stage, NEW c \in WakeUps', c = WakeUp(stage, i, x)
      PROVE  \/ stage = "note" /\ x \in notes'
             \/ stage = "message" /\ i \in Dispatchers /\ x \in inbox'[i]
             \/ stage = "item" /\ i \in Dispatchers /\ x \in queue'[i]
             \/ stage = "task" /\ x \in tasks'
  <2>0. c.stage = stage /\ c.at = i /\ c.what = x
    BY Zenon, <1>1 DEF WakeUp
  <2>1. CASE \E n \in notes' : OnTheWay(n) /\ c = WakeUp("note", n.at, n)
    BY <2>0, <2>1 DEF WakeUp
  <2>2. CASE \E j \in Dispatchers : \E m \in inbox'[j] : c = WakeUp("message", j, m)
    BY <2>0, <2>2 DEF WakeUp
  <2>3. CASE \E j \in Dispatchers : \E q \in queue'[j] : c = WakeUp("item", j, q)
    BY <2>0, <2>3 DEF WakeUp
  <2>4. CASE \E t \in tasks' : t.pc \in {"begin", "claim"} /\ c = WakeUp("task", t.at, t)
    BY <2>0, <2>4 DEF WakeUp
  <2> QED BY Zenon, <1>1, <2>1, <2>2, <2>3, <2>4, WakeUpCasesNext
<1> QED BY <1>1
\* A step that adds nothing to the places of the wake-ups adds no wake-up.
LEMMA WakeUpsShrink ==
  ASSUME \A n \in notes' : OnTheWay(n) => n \in notes,
         \A i \in Dispatchers : \A m \in inbox'[i] : m \in inbox[i],
         \A i \in Dispatchers : \A q \in queue'[i] : q \in queue[i],
         \A t \in tasks' : t.pc \in {"begin", "claim"} => t \in tasks
  PROVE  WakeUps' \subseteq WakeUps
<1> SUFFICES ASSUME NEW c \in WakeUps' PROVE c \in WakeUps
  BY Zenon
<1>1. CASE \E n \in notes' : OnTheWay(n) /\ c = WakeUp("note", n.at, n)
  BY Zenon, <1>1, WakeUpMembers
<1>2. CASE \E i \in Dispatchers : \E m \in inbox'[i] : c = WakeUp("message", i, m)
  BY Zenon, <1>2, WakeUpMembers
<1>3. CASE \E i \in Dispatchers : \E q \in queue'[i] : c = WakeUp("item", i, q)
  BY Zenon, <1>3, WakeUpMembers
<1>4. CASE \E t \in tasks' : t.pc \in {"begin", "claim"} /\ c = WakeUp("task", t.at, t)
  BY Zenon, <1>4, WakeUpMembers
<1> QED BY Zenon, <1>1, <1>2, <1>3, <1>4, WakeUpCasesNext

\* The runs that wake-ups and threads belong to.
LEMMA TaskRuns ==
  ASSUME ShapeOK, NEW t \in tasks
  PROVE  t.run \in Runs
<1>1. t \in Tasks
  BY Zenon DEF ShapeOK
<1> QED BY Zenon, <1>1 DEF Tasks

LEMMA WakeUpRuns ==
  ASSUME ShapeOK, NEW c \in WakeUps
  PROVE  c.what.run \in Runs
<1>1. ASSUME NEW n \in notes, c = WakeUp("note", n.at, n) PROVE c.what.run \in Runs
  <2>1. n.run \in Runs
    BY Zenon DEF ShapeOK, Notes
  <2>2. c.what = n
    BY Zenon, <1>1 DEF WakeUp
  <2> QED BY Zenon, <2>1, <2>2
<1>2. ASSUME NEW i \in Dispatchers, NEW m \in inbox[i], c = WakeUp("message", i, m) PROVE c.what.run \in Runs
  <2>1. m.run \in Runs
    BY Zenon, InboxFields, TopologyAssumption
  <2>2. c.what = m
    BY Zenon, <1>2 DEF WakeUp
  <2> QED BY Zenon, <2>1, <2>2
<1>3. ASSUME NEW i \in Dispatchers, NEW q \in queue[i], c = WakeUp("item", i, q) PROVE c.what.run \in Runs
  <2>1. q.run \in Runs
    BY Zenon, QueueFields, TopologyAssumption
  <2>2. c.what = q
    BY Zenon, <1>3 DEF WakeUp
  <2> QED BY Zenon, <2>1, <2>2
<1>4. ASSUME NEW t \in tasks, c = WakeUp("task", t.at, t) PROVE c.what.run \in Runs
  <2>1. c.what = t
    BY Zenon, <1>4 DEF WakeUp
  <2> QED BY Zenon, <2>1, TaskRuns
<1> QED BY Zenon, <1>1, <1>2, <1>3, <1>4, WakeUpCases

\* A step that adds no wake-up and leaves the runs alone keeps them single and current ...
LEMMA WakeUpsKept ==
  ASSUME OneWakeUp, WakeUpsCurrent, UNCHANGED <<status, waitNo>>, WakeUps' \subseteq WakeUps
  PROVE  OneWakeUp' /\ WakeUpsCurrent'
<1>1. OneWakeUp'
  BY Zenon DEF OneWakeUp
<1>2. WakeUpsCurrent'
  BY Zenon DEF WakeUpsCurrent
<1> QED BY Zenon, <1>1, <1>2

\* ... and so does one that moves a wake-up on ...
LEMMA WakeUpMoved ==
  ASSUME OneWakeUp, WakeUpsCurrent, UNCHANGED <<status, waitNo>>,
         NEW c \in WakeUps, NEW d, d.what.run = c.what.run, d.what.no = c.what.no,
         WakeUps' \subseteq WakeUps \union {d}, c \notin WakeUps'
  PROVE  OneWakeUp' /\ WakeUpsCurrent'
<1>1. ASSUME NEW a \in WakeUps', NEW b \in WakeUps', a.what.run = b.what.run PROVE a = b
  <2>1. CASE a \in WakeUps /\ b \in WakeUps
    BY Zenon, <1>1, <2>1 DEF OneWakeUp
  <2>2. ASSUME NEW e \in WakeUps', e \in WakeUps PROVE e.what.run # d.what.run
    BY Zenon, <2>2 DEF OneWakeUp
  <2> QED BY Zenon, <1>1, <2>1, <2>2
<1>2. ASSUME NEW a \in WakeUps' PROVE status'[a.what.run] = "waiting" /\ a.what.no = waitNo'[a.what.run]
  <2>1. CASE a \in WakeUps
    BY Zenon, <2>1 DEF WakeUpsCurrent
  <2>2. CASE a = d
    BY Zenon, <2>2 DEF WakeUpsCurrent
  <2> QED BY Zenon, <2>1, <2>2
<1> QED BY Zenon, <1>1, <1>2 DEF OneWakeUp, WakeUpsCurrent

\* ... and one that changes a run for which no wake-up is left.
LEMMA WakeUpsOfOthers ==
  ASSUME ShapeOK, OneWakeUp, WakeUpsCurrent, NEW r, WakeUps' \subseteq WakeUps,
         \A c \in WakeUps' : c.what.run # r,
         \A x \in Runs : x # r => status'[x] = status[x] /\ waitNo'[x] = waitNo[x]
  PROVE  OneWakeUp' /\ WakeUpsCurrent'
<1>1. OneWakeUp'
  BY Zenon DEF OneWakeUp
<1>2. ASSUME NEW a \in WakeUps' PROVE status'[a.what.run] = "waiting" /\ a.what.no = waitNo'[a.what.run]
  <2>1. a.what.run \in Runs /\ a.what.run # r /\ a \in WakeUps
    BY Zenon, WakeUpRuns
  <2> QED BY Zenon, <2>1 DEF WakeUpsCurrent
<1> QED BY Zenon, <1>1, <1>2 DEF WakeUpsCurrent

\* A step that lets no thread pass its claim and leaves the runs alone keeps HeldOnce ...
LEMMA HeldKept ==
  ASSUME HeldOnce, UNCHANGED status, \A t \in tasks' : Past(t) => t \in tasks
  PROVE  HeldOnce'
<1>1. ASSUME NEW t \in tasks', Past(t) PROVE status'[t.run] \in {"running", "executing"}
  BY Zenon, <1>1 DEF HeldOnce
<1>2. ASSUME NEW t \in tasks', NEW u \in tasks', Past(t), Past(u), t.run = u.run PROVE t = u
  BY Zenon, <1>2 DEF HeldOnce
<1> QED BY Zenon, <1>1, <1>2 DEF HeldOnce, Past

\* ... and so does one that makes u the only thread past its claim of a run
\* that now runs.
LEMMA HeldBy ==
  ASSUME ShapeOK, HeldOnce, NEW u, status'[u.run] \in {"running", "executing"},
         \A x \in Runs : x # u.run => status'[x] = status[x],
         \A t \in tasks' : Past(t) => t = u \/ (t \in tasks /\ t.run # u.run)
  PROVE  HeldOnce'
<1>1. ASSUME NEW t \in tasks', Past(t) PROVE status'[t.run] \in {"running", "executing"}
  <2>1. CASE t = u
    BY Zenon, <2>1
  <2>2. CASE t \in tasks /\ t.run # u.run
    <3>1. t.run \in Runs
      BY Zenon, <2>2, TaskRuns
    <3> QED BY Zenon, <1>1, <2>2, <3>1 DEF HeldOnce
  <2> QED BY Zenon, <1>1, <2>1, <2>2
<1>2. ASSUME NEW t \in tasks', NEW v \in tasks', Past(t), Past(v), t.run = v.run PROVE t = v
  BY Zenon, <1>2 DEF HeldOnce
<1> QED BY Zenon, <1>1, <1>2 DEF HeldOnce, Past
\* ... and one that ends the only thread past its claim of a run.
LEMMA HeldNoMore ==
  ASSUME ShapeOK, HeldOnce, NEW r, \A x \in Runs : x # r => status'[x] = status[x],
         \A t \in tasks' : Past(t) => t \in tasks /\ t.run # r
  PROVE  HeldOnce'
<1>1. ASSUME NEW t \in tasks', Past(t) PROVE status'[t.run] \in {"running", "executing"}
  <2>1. t \in tasks /\ t.run # r /\ t.run \in Runs
    BY Zenon, <1>1, TaskRuns
  <2> QED BY Zenon, <1>1, <2>1 DEF HeldOnce
<1>2. ASSUME NEW t \in tasks', NEW v \in tasks', Past(t), Past(v), t.run = v.run PROVE t = v
  BY Zenon, <1>2 DEF HeldOnce
<1> QED BY Zenon, <1>1, <1>2 DEF HeldOnce, Past

\* No wake-up is under way for a run that does not wait, and no thread is past its claim of one that does.
LEMMA WaitingOrHeld ==
  ASSUME WakeUpsCurrent, HeldOnce, NEW r
  PROVE  /\ status[r] # "waiting" => \A c \in WakeUps : c.what.run # r
         /\ status[r] = "waiting" => \A t \in tasks : Past(t) => t.run # r
<1>1. ASSUME NEW t \in tasks, Past(t), t.run = r, status[r] = "waiting" PROVE FALSE
  BY Zenon, <1>1 DEF HeldOnce
<1> QED BY Zenon, <1>1 DEF WakeUpsCurrent

\* A thread before its claim is the wake-up of its run.
LEMMA ThreadIsWakeUp ==
  ASSUME OneWakeUp, WakeUpsCurrent, NEW t \in tasks, t.pc \in {"begin", "claim"}
  PROVE  /\ status[t.run] = "waiting"
         /\ WakeUp("task", t.at, t) \in WakeUps
         /\ \A c \in WakeUps : c.what.run = t.run => c = WakeUp("task", t.at, t)
<1>1. WakeUp("task", t.at, t) \in WakeUps
  BY Zenon, WakeUpMembers
<1>2. WakeUp("task", t.at, t).what = t
  BY Zenon DEF WakeUp
<1>3. WakeUp("task", t.at, t).what.run = t.run
  BY Zenon, <1>2
<1> QED BY Zenon, <1>1, <1>3 DEF OneWakeUp, WakeUpsCurrent

\* The invariant across the steps of a thread: those of a registration, ...
LEMMA OneRequestRegisters ==
  ASSUME OneWakeUp, WakeUpsCurrent, HeldOnce, NEW t \in tasks,
         RegisterInsert(t) \/ PersistRead(t) \/ PersistWrite(t)
  PROVE  OneWakeUp' /\ WakeUpsCurrent' /\ HeldOnce'
<1>1. UNCHANGED <<status, waitNo, queue, inbox, notes>>
  BY Zenon DEF RegisterInsert, PersistRead, PersistWrite, dbVars
<1>2. t.pc \in {"insert", "persist", "write"} /\ TaskStep(t) /\ ~Wait(t)
  BY Zenon DEF RegisterInsert, PersistRead, PersistWrite, TaskStep, Wait
<1>3. ASSUME NEW u \in tasks', u \notin tasks PROVE u.pc \in {"persist", "write"}
  BY Zenon, <1>2, <1>3, TaskSuccessor DEF Claiming
<1>4. ASSUME NEW u \in tasks', u.pc \in {"begin", "claim", "read", "exec"} PROVE u \in tasks
  BY Zenon, <1>3, <1>4
<1>5. WakeUps' \subseteq WakeUps
  BY Zenon, <1>1, <1>4, WakeUpsShrink
<1>6. HeldOnce'
  BY Zenon, <1>1, <1>4, HeldKept DEF Past
<1> QED BY Zenon, <1>1, <1>5, <1>6, WakeUpsKept

\* ... the read of the status, ...
LEMMA OneRequestReads ==
  ASSUME ShapeOK, OneWakeUp, WakeUpsCurrent, HeldOnce, NEW t \in tasks, ReadStatus(t)
  PROVE  OneWakeUp' /\ WakeUpsCurrent' /\ HeldOnce'
<1>1. UNCHANGED <<status, waitNo, queue, inbox, notes>>
  BY Zenon DEF ReadStatus, dbVars
<1>2. CASE t.pc = "begin"
  <2> DEFINE u == TaskAt(t, "claim")
             c == WakeUp("task", t.at, t)
             d == WakeUp("task", u.at, u)
  <2>1. status[t.run] = "waiting" /\ c \in WakeUps
    BY Zenon, <1>2, ThreadIsWakeUp
  <2>2. tasks' = Replace(tasks, t, u)
    BY Zenon, <2>1 DEF ReadStatus
  <2>3. u.pc = "claim" /\ u.run = t.run /\ u.no = t.no
    BY Zenon, TaskAtFields
  <2>4. c.what = t /\ d.what = u
    BY Zenon DEF WakeUp
  <2> HIDE DEF u
  <2>5. t \notin tasks' /\ \A x \in tasks' : x = u \/ x \in tasks
    BY Zenon, <1>2, <2>2, <2>3 DEF Replace
  <2> HIDE DEF c
  <2>6. \A x \in tasks' : x \in tasks \/ d = WakeUp("task", x.at, x)
    BY Zenon, <2>5
  <2> HIDE DEF d
  <2>7. WakeUps' \subseteq WakeUps \union {d}
    BY Zenon, <1>1, <2>6, WakeUpAdded
  <2>8. c \notin WakeUps'
    BY Zenon, <2>5, WakeUpGone DEF c
  <2>9. d.what.run = c.what.run /\ d.what.no = c.what.no
    BY Zenon, <2>3, <2>4
  <2>10. OneWakeUp' /\ WakeUpsCurrent'
    BY Zenon, <1>1, <2>1, <2>7, <2>8, <2>9, WakeUpMoved
  <2>11. HeldOnce'
    BY Zenon, <1>1, <2>3, <2>5, HeldKept DEF Past
  <2> QED BY Zenon, <2>10, <2>11
<1>3. CASE t.pc = "read"
  <2> DEFINE u == TaskAt(t, "exec")
  <2>1. Past(t) /\ status[t.run] \in {"running", "executing"}
    BY Zenon, <1>3 DEF Past, HeldOnce
  <2>2. tasks' = Replace(tasks, t, u)
    BY Zenon, <2>1 DEF ReadStatus
  <2>3. u.pc = "exec" /\ u.run = t.run
    BY Zenon, TaskAtFields
  <2> HIDE DEF u
  <2>4. \A x \in tasks' : x = u \/ (x \in tasks /\ x # t)
    BY Zenon, <2>2 DEF Replace
  <2>5. \A x \in tasks' : x.pc \in {"begin", "claim"} => x \in tasks
    BY Zenon, <2>3, <2>4
  <2>6. WakeUps' \subseteq WakeUps
    BY Zenon, <1>1, <2>5, WakeUpsShrink
  <2>7. \A x \in tasks' : Past(x) => x = u \/ (x \in tasks /\ x.run # u.run)
    BY Zenon, <2>1, <2>3, <2>4 DEF HeldOnce
  <2>8. status'[u.run] \in {"running", "executing"} /\ \A x \in Runs : status'[x] = status[x]
    BY Zenon, <1>1, <2>1, <2>3
  <2>9. HeldOnce'
    BY <2>7, <2>8, HeldBy
  <2> QED BY Zenon, <1>1, <2>6, <2>9, WakeUpsKept
<1> QED BY Zenon, <1>2, <1>3 DEF ReadStatus
\* ... the claim, ...
LEMMA OneRequestClaims ==
  ASSUME ShapeOK, OneWakeUp, WakeUpsCurrent, HeldOnce, NEW t \in tasks, RehydratedClaim(t) \/ RunnerClaim(t)
  PROVE  OneWakeUp' /\ WakeUpsCurrent' /\ HeldOnce'
<1>1. UNCHANGED <<waitNo, queue, inbox, notes>> /\ t.pc \in {"begin", "claim"}
  BY Zenon DEF RehydratedClaim, RunnerClaim
<1>2. PICK pc \in {"read", "exec"} : GuardedClaim(t, pc)
  BY Zenon DEF RehydratedClaim, RunnerClaim
<1> DEFINE u == TaskAt(t, pc)
           c == WakeUp("task", t.at, t)
<1>3. status[t.run] = "waiting" /\ c \in WakeUps /\ \A e \in WakeUps : e.what.run = t.run => e = c
  BY Zenon, <1>1, ThreadIsWakeUp
<1>4. status' = [status EXCEPT ![t.run] = "executing"] /\ tasks' = Replace(tasks, t, u)
  BY Zenon, <1>2, <1>3 DEF GuardedClaim
<1>5. u.pc = pc /\ u.run = t.run
  BY Zenon, TaskAtFields
<1> HIDE DEF u
<1>6. t \notin tasks' /\ \A x \in tasks' : x = u \/ x \in tasks
  <2>1. t # u
    BY Zenon, <1>1, <1>5
  <2> QED BY Zenon, <1>4, <2>1 DEF Replace
<1>7. \A x \in tasks' : x.pc \in {"begin", "claim"} => x \in tasks
  BY Zenon, <1>5, <1>6
<1>8. WakeUps' \subseteq WakeUps
  BY Zenon, <1>1, <1>7, WakeUpsShrink
<1>9. c \notin WakeUps'
  BY Zenon, <1>6, WakeUpGone
<1> HIDE DEF c
<1>10. \A e \in WakeUps' : e.what.run # t.run
  BY Zenon, <1>3, <1>8, <1>9
<1>11. \A x \in Runs : x # t.run => status'[x] = status[x]
  <2>1. status \in [Runs -> Statuses]
    BY Zenon DEF ShapeOK, Statuses
  <2> QED BY Zenon, <1>4, <2>1
<1>12. OneWakeUp' /\ WakeUpsCurrent'
  BY Zenon, <1>1, <1>8, <1>10, <1>11, WakeUpsOfOthers
<1>13. status'[u.run] = "executing"
  <2>1. status \in [Runs -> Statuses] /\ t.run \in Runs
    BY Zenon, TaskRuns DEF ShapeOK, Statuses
  <2>2. status'[t.run] = "executing"
    BY Zenon, <1>4, <2>1
  <2> QED BY Zenon, <1>5, <2>2
<1>14. \A x \in tasks' : Past(x) => x = u \/ (x \in tasks /\ x.run # u.run)
  BY Zenon, <1>3, <1>5, <1>6, WaitingOrHeld
<1>15. HeldOnce'
  BY <1>5, <1>11, <1>13, <1>14, HeldBy
<1> QED BY Zenon, <1>12, <1>15

\* ... and the end of a thread's execution.
LEMMA OneRequestStops ==
  ASSUME ShapeOK, OneWakeUp, WakeUpsCurrent, HeldOnce, NEW t \in tasks, Wait(t) \/ Finish(t)
  PROVE  OneWakeUp' /\ WakeUpsCurrent' /\ HeldOnce'
<1>1. UNCHANGED <<queue, inbox, notes>> /\ t.pc = "exec"
  BY Zenon DEF Wait, Finish
<1>2. Past(t) /\ status[t.run] # "waiting"
  BY Zenon, <1>1 DEF Past, HeldOnce
<1>3. \A x \in tasks' : x.pc = "insert" \/ (x \in tasks /\ x # t)
  <2>1. CASE Wait(t)
    <3>1. ASSUME NEW x \in tasks' PROVE x.pc = "insert" \/ (x \in tasks /\ x # t)
      <4>1. \/ x \in tasks /\ x # t
            \/ x = [at |-> t.at, run |-> t.run, kind |-> "runner", no |-> waitNo[t.run] + 1, pc |-> "insert"]
        BY Zenon, <2>1 DEF Wait, Replace
      <4> QED BY <4>1
    <3> QED BY Zenon, <3>1
  <2>2. CASE Finish(t)
    BY Zenon, <2>2 DEF Finish
  <2> QED BY Zenon, <2>1, <2>2
<1>4. \A x \in tasks' : x.pc \in {"begin", "claim"} => x \in tasks
  BY Zenon, <1>3
<1>5. WakeUps' \subseteq WakeUps
  BY Zenon, <1>1, <1>4, WakeUpsShrink
<1>6. \A e \in WakeUps' : e.what.run # t.run
  BY Zenon, <1>2, <1>5, WaitingOrHeld
<1>7. \A x \in Runs : x # t.run => status'[x] = status[x] /\ waitNo'[x] = waitNo[x]
  <2>1. status \in [Runs -> Statuses] /\ waitNo \in [Runs -> WaitNos]
    BY Zenon DEF ShapeOK, Statuses
  <2>2. CASE Wait(t)
    BY Zenon, <2>1, <2>2 DEF Wait
  <2>3. CASE Finish(t)
    BY Zenon, <2>1, <2>3 DEF Finish
  <2> QED BY Zenon, <2>2, <2>3
<1>8. OneWakeUp' /\ WakeUpsCurrent'
  BY Zenon, <1>5, <1>6, <1>7, WakeUpsOfOthers
<1>9. \A x \in tasks' : Past(x) => x \in tasks /\ x.run # t.run
  <2>1. ASSUME NEW x \in tasks', Past(x) PROVE x \in tasks /\ x # t
    BY Zenon, <1>3, <2>1 DEF Past
  <2> QED BY Zenon, <1>2, <2>1 DEF HeldOnce
<1>10. HeldOnce'
  BY Zenon, <1>7, <1>9, HeldNoMore
<1> QED BY Zenon, <1>8, <1>10

LEMMA OneRequestTask ==
  ASSUME ShapeOK, OneWakeUp, WakeUpsCurrent, HeldOnce, NEW t \in tasks, TaskStep(t)
  PROVE  OneWakeUp' /\ WakeUpsCurrent' /\ HeldOnce'
  BY Zenon, OneRequestRegisters, OneRequestReads, OneRequestClaims, OneRequestStops DEF TaskStep
\* The invariant across the steps of a notification, which either goes on where it is, ...
LEMMA NoteGoesOn ==
  ASSUME OneWakeUp, WakeUpsCurrent, UNCHANGED <<status, waitNo, inbox, tasks>>,
         \A i \in Dispatchers : queue'[i] = queue[i],
         NEW n \in notes, NEW pc, pc # n.pc, pc # "match", notes' = Replace(notes, n, NoteAt(n, pc))
  PROVE  OneWakeUp' /\ WakeUpsCurrent'
<1> DEFINE u == NoteAt(n, pc)
           c == WakeUp("note", n.at, n)
           d == WakeUp("note", u.at, u)
<1>1. u.at = n.at /\ u.by = n.by /\ u.pc = pc /\ u.run = n.run /\ u.no = n.no
  BY Zenon DEF NoteAt
<1> HIDE DEF u
<1>2. n \notin notes' /\ \A x \in notes' : x = u \/ x \in notes
  <2>1. n # u
    BY Zenon, <1>1
  <2> QED BY Zenon, <2>1 DEF Replace, u
<1>3. CASE ~OnTheWay(u)
  <2>1. \A x \in notes' : OnTheWay(x) => x \in notes
    BY Zenon, <1>2, <1>3
  <2>2. WakeUps' \subseteq WakeUps
    BY Zenon, <2>1, WakeUpsShrink
  <2> QED BY Zenon, <2>2, WakeUpsKept
<1>4. CASE OnTheWay(u)
  <2>1. OnTheWay(n)
    BY Zenon, <1>1, <1>4 DEF OnTheWay
  <2>2. c \in WakeUps
    BY Zenon, <2>1, WakeUpMembers
  <2>3. c \notin WakeUps'
    BY Zenon, <1>2, WakeUpGone
  <2>4. \A x \in notes' : x \in notes \/ d = WakeUp("note", x.at, x)
    BY Zenon, <1>2
  <2>5. c.what = n /\ d.what = u
    BY Zenon DEF WakeUp
  <2> HIDE DEF c, d
  <2>6. WakeUps' \subseteq WakeUps \union {d}
    BY Zenon, <2>4, WakeUpAdded
  <2>7. d.what.run = c.what.run /\ d.what.no = c.what.no
    BY Zenon, <1>1, <2>5
  <2> QED BY Zenon, <2>2, <2>3, <2>6, <2>7, WakeUpMoved
<1> QED BY Zenon, <1>3, <1>4

\* ... or matches and queues a callback on the dispatching instance, ...
LEMMA OneRequestMatches ==
  ASSUME ShapeOK, OneWakeUp, WakeUpsCurrent, NEW n \in notes, NotifyMatch(n)
  PROVE  OneWakeUp' /\ WakeUpsCurrent'
<1> DEFINE e == waiting[n.at][n.run]
           hit == e # NoEntry /\ e.no = n.no
           q == [run |-> n.run, kind |-> e.kind, no |-> e.no]
           c == WakeUp("note", n.at, n)
           d == WakeUp("item", n.at, q)
<1>1. /\ UNCHANGED <<status, waitNo, inbox, tasks>> /\ n.pc = "match"
      /\ queue' = [queue EXCEPT ![n.at] = IF hit THEN @ \union {q} ELSE @]
      /\ notes' = Replace(notes, n, NoteAt(n, IF hit THEN "delete" ELSE "cross"))
  BY Zenon DEF NotifyMatch, dbVars
<1>2. n.at \in Instances /\ queue \in [Instances -> SUBSET Items]
  BY Zenon DEF ShapeOK, Notes
<1>3. PICK pc \in {"delete", "cross"} : notes' = Replace(notes, n, NoteAt(n, pc))
  BY Zenon, <1>1
<1>4. q.run = n.run /\ (hit => q.no = n.no)
  BY Zenon
<1>5. c.what = n /\ d.what = q
  BY Zenon DEF WakeUp
<1> HIDE DEF e, q
<1>6. \A i \in Instances : \A x \in queue'[i] : x \in queue[i] \/ (hit /\ i = n.at /\ x = q)
  BY Zenon, <1>1, <1>2
<1> HIDE DEF hit
<1>7. CASE ~hit \/ n.at \notin Dispatchers
  <2>1. \A i \in Dispatchers : queue'[i] = queue[i]
    BY Zenon, <1>1, <1>2, <1>7, TopologyAssumption
  <2> QED BY Zenon, <1>1, <1>3, <2>1, NoteGoesOn
<1>8. CASE hit /\ n.at \in Dispatchers
  <2>1. c \in WakeUps
    BY Zenon, <1>1, <1>8, WakeUpMembers DEF OnTheWay
  <2>2. ASSUME NEW x \in notes', OnTheWay(x) PROVE x \in notes /\ x # n
    <3>1. CASE x \in notes /\ x # n
      BY Zenon, <3>1
    <3>2. CASE x = NoteAt(n, pc)
      <4>1. x.at = n.at /\ x.pc = pc
        BY Zenon, <3>2 DEF NoteAt
      <4> QED BY Zenon, <1>8, <2>2, <4>1 DEF OnTheWay
    <3> QED BY Zenon, <1>3, <3>1, <3>2 DEF Replace
  <2>3. n \notin notes'
    BY Zenon, <1>1, <1>8, <2>2 DEF OnTheWay
  <2>4. c \notin WakeUps'
    BY Zenon, <2>3, WakeUpGone
  <2>5. \A i \in Dispatchers : \A x \in queue'[i] : x \in queue[i] \/ d = WakeUp("item", i, x)
    BY Zenon, <1>6, TopologyAssumption
  <2> HIDE DEF c, d
  <2>6. WakeUps' \subseteq WakeUps \union {d}
    BY Zenon, <1>1, <2>2, <2>5, WakeUpAdded
  <2>7. d.what.run = c.what.run /\ d.what.no = c.what.no
    BY Zenon, <1>4, <1>5, <1>8
  <2> QED BY Zenon, <1>1, <2>1, <2>4, <2>6, <2>7, WakeUpMoved
<1> QED BY Zenon, <1>7, <1>8
\* ... or publishes, and only the peers receive it.
LEMMA PublishedTo ==
  ASSUME ShapeOK, NEW n, Publish(n), NEW j \in Instances, NEW m \in inbox'[j]
  PROVE  m \in inbox[j] \/ (j # n.at /\ Broadcasts(n) /\ m = [run |-> n.run, no |-> n.no])
<1> DEFINE peers == IF Broadcasts(n) THEN {k \in Instances \ {n.at} : phase[k] # "down"} ELSE {}
           msg == [run |-> n.run, no |-> n.no]
<1>1. PICK J \in IF Lossy THEN SUBSET peers ELSE {peers} :
        inbox' = [k \in Instances |-> IF k \in J THEN inbox[k] \union {msg} ELSE inbox[k]]
  BY Zenon DEF Publish
<1>2. J \subseteq peers
  BY Zenon
<1> HIDE DEF msg
<1>3. m \in inbox[j] \/ (j \in J /\ m = msg)
  BY Zenon, <1>1
<1>4. j \in J => j # n.at /\ Broadcasts(n)
  BY Zenon, <1>2
<1> QED BY Zenon, <1>3, <1>4 DEF msg

LEMMA OneRequestPublishes ==
  ASSUME \A i, j \in Dispatchers : i = j, ShapeOK, OnlyRequests, OneWakeUp, WakeUpsCurrent,
         NEW n \in notes, NotifyCross(n) \/ NotifyPublish(n)
  PROVE  OneWakeUp' /\ WakeUpsCurrent'
<1>1. UNCHANGED <<status, waitNo, queue, tasks>> /\ Publish(n)
  BY Zenon DEF NotifyCross, NotifyPublish, dbVars
<1>2. notes' = notes \ {n}
  BY Zenon, <1>1 DEF Publish
<1>3. n.by \in {"request", "bus"}
  BY Zenon DEF OnlyRequests
<1>4. CASE n.at \in Dispatchers \/ n.by = "bus" \/ Dispatchers = {}
  <2>1. ~Broadcasts(n) \/ n.at \in Dispatchers \/ Dispatchers = {}
    BY Zenon, <1>4 DEF Broadcasts
  <2>2. ASSUME NEW i \in Dispatchers, NEW m \in inbox'[i] PROVE m \in inbox[i]
    <3>1. i \in Instances /\ (~Broadcasts(n) \/ i = n.at)
      BY Zenon, <2>1, TopologyAssumption
    <3> QED BY Zenon, <1>1, <3>1, PublishedTo
  <2>3. WakeUps' \subseteq WakeUps
    BY Zenon, <1>1, <1>2, <2>2, WakeUpsShrink
  <2> QED BY Zenon, <1>1, <2>3, WakeUpsKept
<1>5. CASE n.at \notin Dispatchers /\ n.by = "request" /\ Dispatchers # {}
  <2>1. PICK i \in Dispatchers : TRUE
    BY Zenon, <1>5
  <2> DEFINE msg == [run |-> n.run, no |-> n.no]
             c == WakeUp("note", n.at, n)
             d == WakeUp("message", i, msg)
  <2>2. c \in WakeUps
    BY Zenon, <1>5, WakeUpMembers DEF OnTheWay
  <2>3. c \notin WakeUps'
    BY Zenon, <1>2, WakeUpGone
  <2>4. msg.run = n.run /\ msg.no = n.no /\ c.what = n /\ d.what = msg
    BY Zenon DEF WakeUp
  <2>5. ASSUME NEW j \in Dispatchers, NEW m \in inbox'[j] PROVE m \in inbox[j] \/ d = WakeUp("message", j, m)
    <3>1. j = i /\ j \in Instances
      BY Zenon, TopologyAssumption
    <3>2. m \in inbox[j] \/ m = msg
      BY Zenon, <1>1, <3>1, PublishedTo
    <3> HIDE DEF msg
    <3> QED BY Zenon, <3>1, <3>2
  <2> HIDE DEF c, d, msg
  <2>6. WakeUps' \subseteq WakeUps \union {d}
    BY Zenon, <1>1, <1>2, <2>5, WakeUpAdded
  <2>7. d.what.run = c.what.run /\ d.what.no = c.what.no
    BY Zenon, <2>4
  <2> QED BY Zenon, <1>1, <2>2, <2>3, <2>6, <2>7, WakeUpMoved
<1> QED BY Zenon, <1>3, <1>4, <1>5

LEMMA OneRequestNote ==
  ASSUME \A i, j \in Dispatchers : i = j, ShapeOK, OnlyRequests, OneWakeUp, WakeUpsCurrent, HeldOnce,
         NEW n \in notes, NoteStep(n)
  PROVE  OneWakeUp' /\ WakeUpsCurrent' /\ HeldOnce'
<1>1. UNCHANGED <<status, waitNo, tasks>>
  BY Zenon DEF NoteStep, NotifyMatch, NotifyDelete, NotifyCross, NotifyPublish, dbVars
<1>2. HeldOnce'
  BY Zenon, <1>1, HeldKept
<1>3. CASE NotifyDelete(n)
  <2>1. UNCHANGED <<queue, inbox>> /\ n.pc = "delete"
    BY Zenon, <1>3 DEF NotifyDelete
  <2>2. CASE notes' = Replace(notes, n, NoteAt(n, "publish"))
    <3>1. "publish" # n.pc /\ \A i \in Dispatchers : queue'[i] = queue[i]
      BY Zenon, <2>1
    <3> QED BY Zenon, <1>1, <1>2, <2>1, <2>2, <3>1, NoteGoesOn
  <2>3. CASE notes' = notes \ {n}
    <3>1. WakeUps' \subseteq WakeUps
      BY Zenon, <1>1, <2>1, <2>3, WakeUpsShrink
    <3> QED BY Zenon, <1>1, <1>2, <3>1, WakeUpsKept
  <2> QED BY Zenon, <1>3, <2>2, <2>3 DEF NotifyDelete
<1> QED BY Zenon, <1>2, <1>3, OneRequestMatches, OneRequestPublishes DEF NoteStep
\* The wait that a wake-up is for has been asked for.
LEMMA WakeUpAsked ==
  ASSUME CallbacksAsked, NEW c \in WakeUps
  PROVE  Asked(c.what.run, c.what.no)
<1>1. ASSUME NEW n \in notes, c = WakeUp("note", n.at, n) PROVE Asked(c.what.run, c.what.no)
  <2>1. c.what = n
    BY Zenon, <1>1 DEF WakeUp
  <2> QED BY Zenon, <2>1 DEF CallbacksAsked
<1>2. ASSUME NEW i \in Dispatchers, NEW m \in inbox[i], c = WakeUp("message", i, m)
      PROVE  Asked(c.what.run, c.what.no)
  <2>1. c.what = m
    BY Zenon, <1>2 DEF WakeUp
  <2> QED BY Zenon, <2>1, TopologyAssumption DEF CallbacksAsked
<1>3. ASSUME NEW i \in Dispatchers, NEW q \in queue[i], c = WakeUp("item", i, q)
      PROVE  Asked(c.what.run, c.what.no)
  <2>1. c.what = q
    BY Zenon, <1>3 DEF WakeUp
  <2> QED BY Zenon, <2>1, TopologyAssumption DEF CallbacksAsked
<1>4. ASSUME NEW t \in tasks, t.pc \in {"begin", "claim"}, c = WakeUp("task", t.at, t)
      PROVE  Asked(c.what.run, c.what.no)
  <2>1. c.what = t
    BY Zenon, <1>4 DEF WakeUp
  <2> QED BY Zenon, <1>4, <2>1 DEF CallbacksAsked, Claiming
<1> QED BY Zenon, <1>1, <1>2, <1>3, <1>4, WakeUpCases

\* The only request for a wait finds no wake-up of the run under way.
LEMMA OneRequestRoutes ==
  ASSUME MaxPublishes = 1, AskedInv, OnlyRequests, OneWakeUp, WakeUpsCurrent, HeldOnce,
         NEW i \in Instances, NEW r \in Runs, RouteEvent(i, r)
  PROVE  OneWakeUp' /\ WakeUpsCurrent' /\ HeldOnce'
<1> DEFINE n == [at |-> i, run |-> r, no |-> waitNo[r], pc |-> "match", by |-> "request"]
           d == WakeUp("note", n.at, n)
<1>1. /\ UNCHANGED <<status, waitNo, inbox, queue, tasks>> /\ status[r] = "waiting"
      /\ published[r][waitNo[r]] < 1
      /\ notes' = notes \union {n}
  BY Zenon DEF RouteEvent, dbVars
<1>2. ASSUME NEW c \in WakeUps, c.what.run = r PROVE FALSE
  <2>1. Asked(r, waitNo[r]) /\ events[r] = 0
    BY Zenon, <1>2, WakeUpAsked DEF AskedInv, WakeUpsCurrent, OnlyRequests
  <2>2. published[r][waitNo[r]] > 0 /\ waitNo[r] \in 1..MaxWaits
    <3>1. waitNo[r] \in 1..waitNo[r] /\ waitNo[r] \in 0..MaxWaits /\ published[r][waitNo[r]] > 0
      BY <2>1 DEF Asked, AskedInv, ShapeOK, WaitNos
    <3> QED BY <3>1, BoundsAssumption
  <2>3. published[r][waitNo[r]] \in Nat
    BY Zenon, <2>2 DEF AskedInv, CountsOK
  <2> QED BY <1>1, <2>2, <2>3
<1>3. n.run = r /\ n.no = waitNo[r] /\ d.what = n
  BY Zenon DEF WakeUp
<1> HIDE DEF n
<1>4. \A x \in notes' : x \in notes \/ d = WakeUp("note", x.at, x)
  BY Zenon, <1>1
<1> HIDE DEF d
<1>5. WakeUps' \subseteq WakeUps \union {d}
  BY Zenon, <1>1, <1>4, WakeUpAdded
<1>6. d.what.run = r /\ d.what.no = waitNo[r]
  BY Zenon, <1>3
<1>7. ASSUME NEW a \in WakeUps', NEW b \in WakeUps', a.what.run = b.what.run PROVE a = b
  <2>1. CASE a \in WakeUps /\ b \in WakeUps
    BY Zenon, <1>7, <2>1 DEF OneWakeUp
  <2> QED BY Zenon, <1>2, <1>5, <1>6, <1>7, <2>1
<1>8. ASSUME NEW a \in WakeUps' PROVE status'[a.what.run] = "waiting" /\ a.what.no = waitNo'[a.what.run]
  <2>1. CASE a \in WakeUps
    BY Zenon, <1>1, <2>1 DEF WakeUpsCurrent
  <2>2. CASE a = d
    BY Zenon, <1>1, <1>6, <2>2
  <2> QED BY Zenon, <1>5, <2>1, <2>2
<1>9. HeldOnce'
  BY Zenon, <1>1, HeldKept
<1> QED BY Zenon, <1>7, <1>8, <1>9 DEF OneWakeUp, WakeUpsCurrent

\* A message that a dispatching instance handles becomes a notification there.
LEMMA OneRequestHandles ==
  ASSUME ShapeOK, OneWakeUp, WakeUpsCurrent, HeldOnce, NEW i \in Instances, NEW m \in inbox[i],
         HandleMessage(i, m)
  PROVE  OneWakeUp' /\ WakeUpsCurrent' /\ HeldOnce'
<1> DEFINE n == [at |-> i, run |-> m.run, no |-> m.no, pc |-> "match", by |-> "bus"]
           c == WakeUp("message", i, m)
           d == WakeUp("note", n.at, n)
<1>1. /\ UNCHANGED <<status, waitNo, queue, tasks>> /\ notes' = notes \union {n}
      /\ inbox' = [inbox EXCEPT ![i] = @ \ {m}]
  BY Zenon DEF HandleMessage, dbVars
<1>2. n.at = i /\ n.by = "bus" /\ n.run = m.run /\ n.no = m.no /\ c.what = m /\ d.what = n
  BY Zenon DEF WakeUp
<1> HIDE DEF n
<1>3. m \notin inbox'[i] /\ \A j \in Instances : \A x \in inbox'[j] : x \in inbox[j]
  <2>1. inbox \in [Instances -> SUBSET Waits]
    BY Zenon DEF ShapeOK
  <2> QED BY Zenon, <1>1, <2>1
<1>4. \A x \in notes' : x \in notes \/ d = WakeUp("note", x.at, x)
  BY Zenon, <1>1
<1>5. HeldOnce'
  BY Zenon, <1>1, HeldKept
<1>6. CASE i \in Dispatchers
  <2>1. c \in WakeUps
    BY Zenon, <1>6, WakeUpMembers
  <2>2. c \notin WakeUps'
    BY Zenon, <1>3, <1>6, WakeUpGone
  <2> HIDE DEF c, d
  <2>3. WakeUps' \subseteq WakeUps \union {d}
    BY Zenon, <1>1, <1>3, <1>4, WakeUpAdded, TopologyAssumption
  <2>4. d.what.run = c.what.run /\ d.what.no = c.what.no
    BY Zenon, <1>2
  <2> QED BY Zenon, <1>1, <1>5, <2>1, <2>2, <2>3, <2>4, WakeUpMoved
<1>7. CASE i \notin Dispatchers
  <2>1. \A x \in notes' : OnTheWay(x) => x \in notes
    BY Zenon, <1>1, <1>2, <1>7 DEF OnTheWay
  <2>2. WakeUps' \subseteq WakeUps
    BY Zenon, <1>1, <1>3, <2>1, WakeUpsShrink, TopologyAssumption
  <2> QED BY Zenon, <1>1, <1>5, <2>2, WakeUpsKept
<1> QED BY Zenon, <1>6, <1>7
\* A queued callback that is dispatched becomes a thread.
LEMMA OneRequestDispatches ==
  ASSUME ShapeOK, OneWakeUp, WakeUpsCurrent, HeldOnce, NEW i \in Instances, NEW q \in queue[i], Dispatch(i, q)
  PROVE  OneWakeUp' /\ WakeUpsCurrent' /\ HeldOnce'
<1> DEFINE t == [at |-> i, run |-> q.run, kind |-> q.kind, no |-> q.no, pc |-> "begin"]
           c == WakeUp("item", i, q)
           d == WakeUp("task", t.at, t)
<1>1. /\ UNCHANGED <<status, waitNo, inbox, notes>> /\ tasks' = tasks \union {t} /\ i \in Dispatchers
      /\ queue' = [queue EXCEPT ![i] = @ \ {q}]
  BY Zenon DEF Dispatch, dbVars
<1>2. t.pc = "begin" /\ t.run = q.run /\ t.no = q.no /\ c.what = q /\ d.what = t
  BY Zenon DEF WakeUp
<1> HIDE DEF t
<1>3. q \notin queue'[i] /\ \A j \in Instances : \A x \in queue'[j] : x \in queue[j]
  <2>1. queue \in [Instances -> SUBSET Items]
    BY Zenon DEF ShapeOK
  <2> QED BY Zenon, <1>1, <2>1
<1>4. \A x \in tasks' : x \in tasks \/ d = WakeUp("task", x.at, x)
  BY Zenon, <1>1
<1>5. \A x \in tasks' : Past(x) => x \in tasks
  BY Zenon, <1>1, <1>2 DEF Past
<1>6. HeldOnce'
  BY Zenon, <1>1, <1>5, HeldKept
<1>7. c \in WakeUps
  BY Zenon, <1>1, WakeUpMembers
<1>8. c \notin WakeUps'
  BY Zenon, <1>1, <1>3, WakeUpGone
<1> HIDE DEF c, d
<1>9. WakeUps' \subseteq WakeUps \union {d}
  BY Zenon, <1>1, <1>3, <1>4, WakeUpAdded, TopologyAssumption
<1>10. d.what.run = c.what.run /\ d.what.no = c.what.no
  BY Zenon, <1>2
<1> QED BY Zenon, <1>1, <1>6, <1>7, <1>8, <1>9, <1>10, WakeUpMoved

\* A run that starts is executed by one thread and has no wake-up under way.
LEMMA OneRequestStarts ==
  ASSUME ShapeOK, OneWakeUp, WakeUpsCurrent, HeldOnce, NEW i \in Instances, NEW r \in Runs, Start(i, r)
  PROVE  OneWakeUp' /\ WakeUpsCurrent' /\ HeldOnce'
<1> DEFINE u == [at |-> i, run |-> r, kind |-> "runner", no |-> 0, pc |-> "exec"]
<1>1. /\ UNCHANGED <<waitNo, queue, inbox, notes>> /\ status[r] = "absent"
      /\ status' = [status EXCEPT ![r] = "running"] /\ tasks' = tasks \union {u}
  BY Zenon DEF Start
<1>2. u.run = r /\ u.pc = "exec"
  BY Zenon
<1> HIDE DEF u
<1>3. \A x \in tasks' : x.pc \in {"begin", "claim"} => x \in tasks
  BY Zenon, <1>1, <1>2
<1>4. WakeUps' \subseteq WakeUps
  BY Zenon, <1>1, <1>3, WakeUpsShrink
<1>5. \A e \in WakeUps' : e.what.run # r
  <2>1. status[r] # "waiting"
    BY Zenon, <1>1
  <2> QED BY Zenon, <1>4, <2>1, WaitingOrHeld
<1>6. status'[r] = "running" /\ \A x \in Runs : x # r => status'[x] = status[x]
  <2>1. status \in [Runs -> Statuses]
    BY Zenon DEF ShapeOK, Statuses
  <2> QED BY Zenon, <1>1, <2>1
<1>7. OneWakeUp' /\ WakeUpsCurrent'
  BY Zenon, <1>1, <1>4, <1>5, <1>6, WakeUpsOfOthers
<1>8. ASSUME NEW x \in tasks', Past(x) PROVE x = u \/ (x \in tasks /\ x.run # u.run)
  <2>1. ASSUME x \in tasks, x.run = r PROVE FALSE
    <3>1. status[r] \in {"running", "executing"}
      BY Zenon, <1>8, <2>1 DEF HeldOnce
    <3> QED BY Zenon, <1>1, <3>1
  <2> QED BY Zenon, <1>1, <1>2, <2>1
<1>9. HeldOnce'
  BY <1>2, <1>6, <1>8, HeldBy
<1> QED BY Zenon, <1>7, <1>9

\* The other steps of an instance add no wake-up and no thread past its claim.
LEMMA OneRequestQuiet ==
  ASSUME ShapeOK, OneWakeUp, WakeUpsCurrent, HeldOnce, NEW i \in Instances,
         \/ StartupRead(i) \/ OrphanRead(i) \/ StartupDone(i) \/ CleanupRead(i) \/ Crash(i)
         \/ \E s \in snap[i] : Rehydrate(i, s)
         \/ \E r \in evict[i] : CleanupEvict(i, r)
  PROVE  OneWakeUp' /\ WakeUpsCurrent' /\ HeldOnce'
<1>1. ASSUME UNCHANGED <<status, waitNo>>, \A n \in notes' : n \in notes,
             \A j \in Instances : \A m \in inbox'[j] : m \in inbox[j],
             \A j \in Instances : \A q \in queue'[j] : q \in queue[j],
             \A t \in tasks' : t \in tasks \/ t.pc = "persist"
      PROVE  OneWakeUp' /\ WakeUpsCurrent' /\ HeldOnce'
  <2>1. \A t \in tasks' : Past(t) => t \in tasks
    BY Zenon, <1>1 DEF Past
  <2>2. WakeUps' \subseteq WakeUps
    BY Zenon, <1>1, WakeUpsShrink, TopologyAssumption
  <2> QED BY Zenon, <1>1, <2>1, <2>2, WakeUpsKept, HeldKept
<1>2. CASE \/ StartupRead(i) \/ OrphanRead(i) \/ StartupDone(i) \/ CleanupRead(i)
           \/ \E r \in evict[i] : CleanupEvict(i, r)
  <2>1. UNCHANGED <<status, waitNo, notes, inbox, queue, tasks>>
    BY Zenon, <1>2 DEF StartupRead, OrphanRead, StartupDone, CleanupRead, CleanupEvict, dbVars
  <2> QED BY Zenon, <1>1, <2>1
<1>3. ASSUME NEW s \in snap[i], Rehydrate(i, s) PROVE OneWakeUp' /\ WakeUpsCurrent' /\ HeldOnce'
  <2>1. UNCHANGED <<status, waitNo, notes, inbox, queue>>
    BY Zenon, <1>3 DEF Rehydrate, dbVars
  <2>2. ASSUME NEW t \in tasks', t \notin tasks PROVE t.pc = "persist"
    <3>1. t = [at |-> i, run |-> s.run, kind |-> "rehydrated", no |-> s.no, pc |-> "persist"]
      BY Zenon, <1>3, <2>2 DEF Rehydrate
    <3> QED BY Zenon, <3>1
  <2> QED BY Zenon, <1>1, <2>1, <2>2
<1>4. CASE Crash(i)
  <2>1. UNCHANGED <<status, waitNo>> /\ (\A n \in notes' : n \in notes) /\ (\A t \in tasks' : t \in tasks)
    BY Zenon, <1>4 DEF Crash, dbVars
  <2>2. queue \in [Instances -> SUBSET Items] /\ inbox \in [Instances -> SUBSET Waits]
    BY Zenon DEF ShapeOK
  <2>3. \A j \in Instances : \A m \in inbox'[j] : m \in inbox[j]
    BY Zenon, <1>4, <2>2 DEF Crash
  <2>4. \A j \in Instances : \A q \in queue'[j] : q \in queue[j]
    BY Zenon, <1>4, <2>2 DEF Crash
  <2> QED BY Zenon, <1>1, <2>1, <2>3, <2>4
<1> QED BY Zenon, <1>2, <1>3, <1>4
\* Without SystemEvents nothing is emitted and the watchdog has no cause to act.
LEMMA NothingEmitted ==
  ASSUME MaxEvents = 0, AskedInv, OnlyRequests
  PROVE  /\ \A r \in Runs, no \in 1..MaxWaits : ~SystemEventPersisted(r, no)
         /\ \A i \in Instances, r \in Runs : ~Watchdog(i, r)
<1>1. ~(0 < 0) /\ ~(0 > 0)
  OBVIOUS
<1>2. ASSUME NEW r \in Runs, NEW no, SystemEventPersisted(r, no) PROVE FALSE
  BY Zenon, <1>1, <1>2 DEF SystemEventPersisted, OnlyRequests
<1>3. ASSUME NEW i \in Instances, NEW r \in Runs, Watchdog(i, r) PROVE FALSE
  <2>1. events[r] > 0
    BY Zenon, <1>3 DEF Watchdog, AskedInv, CallbacksAsked
  <2> QED BY Zenon, <1>1, <2>1 DEF OnlyRequests
<1> QED BY Zenon, <1>2, <1>3

LEMMA OnlyRequestsStep ==
  ASSUME MaxEvents = 0, AskedInv, OnlyRequests, [Next]_vars
  PROVE  OnlyRequests'
<1>1. ASSUME UNCHANGED events, \A n \in notes' : n \in notes \/ n.by \in {"request", "bus"}
      PROVE  OnlyRequests'
  BY Zenon, <1>1 DEF OnlyRequests
<1>2. ASSUME NEW n \in notes, NoteStep(n) PROVE OnlyRequests'
  <2>1. n.by \in {"request", "bus"} /\ UNCHANGED events
    BY Zenon, <1>2 DEF OnlyRequests, NoteStep, NotifyMatch, NotifyDelete, NotifyCross, NotifyPublish, bounds
  <2>2. ASSUME NEW pc, notes' = Replace(notes, n, NoteAt(n, pc)) PROVE OnlyRequests'
    <3>1. NoteAt(n, pc).by = n.by
      BY Zenon DEF NoteAt
    <3>2. \A m \in notes' : m \in notes \/ m = NoteAt(n, pc)
      BY Zenon, <2>2 DEF Replace
    <3> QED BY Zenon, <1>1, <2>1, <3>1, <3>2
  <2>3. notes' = notes \ {n} \/ \E pc \in {"delete", "cross", "publish"} : notes' = Replace(notes, n, NoteAt(n, pc))
    BY Zenon, <1>2 DEF NoteStep, NotifyMatch, NotifyDelete, NotifyCross, NotifyPublish, Publish
  <2> QED BY Zenon, <1>1, <2>1, <2>2, <2>3
<1>3. ASSUME NEW i \in Instances, NEW r \in Runs, RouteEvent(i, r) PROVE OnlyRequests'
  <2> DEFINE n == [at |-> i, run |-> r, no |-> waitNo[r], pc |-> "match", by |-> "request"]
  <2>1. UNCHANGED events /\ notes' = notes \union {n}
    BY Zenon, <1>3 DEF RouteEvent
  <2>2. n.by = "request"
    BY Zenon
  <2> HIDE DEF n
  <2> QED BY Zenon, <1>1, <2>1, <2>2
<1>4. ASSUME NEW i \in Instances, NEW m \in inbox[i], HandleMessage(i, m) PROVE OnlyRequests'
  <2> DEFINE n == [at |-> i, run |-> m.run, no |-> m.no, pc |-> "match", by |-> "bus"]
  <2>1. UNCHANGED events /\ notes' = notes \union {n}
    BY Zenon, <1>4 DEF HandleMessage, bounds
  <2>2. n.by = "bus"
    BY Zenon
  <2> HIDE DEF n
  <2> QED BY Zenon, <1>1, <2>1, <2>2
<1>5. ASSUME UNCHANGED events, \A n \in notes' : n \in notes PROVE OnlyRequests'
  BY Zenon, <1>1, <1>5
<1>6. ASSUME NEW t \in tasks, TaskStep(t) PROVE OnlyRequests'
  BY Zenon, <1>5, <1>6 DEF TaskStep, Wait, Finish, RehydratedClaim, ReadStatus, RunnerClaim,
     RegisterInsert, PersistRead, PersistWrite, bounds
<1>7. ASSUME NEW i \in Instances,
             \/ StartupRead(i) \/ OrphanRead(i) \/ StartupDone(i) \/ CleanupRead(i) \/ Crash(i)
             \/ \E s \in snap[i] : Rehydrate(i, s)
             \/ \E r \in evict[i] : CleanupEvict(i, r)
             \/ \E q \in queue[i] : Dispatch(i, q)
             \/ \E r \in Runs : Start(i, r)
      PROVE  OnlyRequests'
  BY Zenon, <1>5, <1>7 DEF StartupRead, OrphanRead, StartupDone, CleanupRead, Crash, Rehydrate, CleanupEvict,
     Dispatch, Start, bounds
<1>8. ASSUME UNCHANGED vars PROVE OnlyRequests'
  BY Zenon, <1>5, <1>8 DEF vars
<1> QED BY Zenon, <1>2, <1>3, <1>4, <1>6, <1>7, <1>8, NothingEmitted DEF Next, WorkerEvent, EmitSystemEvent

LEMMA OneRequestStep ==
  ASSUME \A i, j \in Dispatchers : i = j, MaxPublishes = 1, MaxEvents = 0,
         AskedInv, OneRequestInv, [Next]_vars
  PROVE  OneRequestInv'
<1>0. ShapeOK /\ OnlyRequests /\ OneWakeUp /\ WakeUpsCurrent /\ HeldOnce
  BY Zenon DEF AskedInv, OneRequestInv
<1> DEFINE Kept == OneWakeUp' /\ WakeUpsCurrent' /\ HeldOnce'
<1>1. ASSUME UNCHANGED vars PROVE Kept
  <2>1. UNCHANGED <<status, waitNo, notes, inbox, queue, tasks>>
    BY Zenon, <1>1 DEF vars
  <2>2. WakeUps' \subseteq WakeUps
    BY Zenon, <2>1, WakeUpsShrink
  <2> QED BY Zenon, <1>0, <2>1, <2>2, WakeUpsKept, HeldKept
<1>2. Kept
  BY Zenon, <1>0, <1>1, OneRequestTask, OneRequestNote, OneRequestRoutes, OneRequestHandles, OneRequestDispatches,
     OneRequestStarts, OneRequestQuiet, NothingEmitted DEF Next, WorkerEvent, EmitSystemEvent
<1> QED BY Zenon, <1>0, <1>2, OnlyRequestsStep DEF OneRequestInv

LEMMA OneRequestInit ==
  ASSUME Init
  PROVE  OneRequestInv
<1>1. /\ notes = {} /\ tasks = {} /\ \A i \in Instances : inbox[i] = {} /\ queue[i] = {}
      /\ \A r \in Runs : events[r] = 0
  BY Zenon DEF Init
<1>2. ASSUME NEW c \in WakeUps PROVE FALSE
  BY Zenon, <1>1, WakeUpCases, TopologyAssumption
<1> QED BY Zenon, <1>1, <1>2 DEF OneRequestInv, OnlyRequests, OneWakeUp, WakeUpsCurrent, HeldOnce

\* A deployment with one dispatching instance in which a wait is requested at most
\* once and nothing else wakes runs: whatever the number of runs, waits and
\* instances, the crashes and the messages lost.
LEMMA OneRequestInvariant ==
  ASSUME \A i, j \in Dispatchers : i = j, MaxPublishes = 1, MaxEvents = 0
  PROVE  Spec => [](AskedInv /\ OneRequestInv)
<1>1. Init => OneRequestInv
  BY Zenon, OneRequestInit
<1>2. AskedInv /\ OneRequestInv /\ [Next]_vars => OneRequestInv'
  BY Zenon, OneRequestStep
<1> QED BY <1>1, <1>2, AskedInvariant, PTL DEF Spec
LEMMA HeldOnceExecutes ==
  ASSUME OneRequestInv
  PROVE  AtMostOneRunner
<1>0. OneWakeUp /\ WakeUpsCurrent /\ HeldOnce
  BY Zenon DEF OneRequestInv
<1> SUFFICES ASSUME NEW r \in Runs
             PROVE  /\ Cardinality(Executing(r)) <= 1
                    /\ Executing(r) # {} => \A t \in tasks : t.run = r => ~AboutToExecute(t)
  BY Zenon DEF AtMostOneRunner
<1>1. CASE Executing(r) = {}
  BY <1>1, FS_EmptySet
<1>2. CASE Executing(r) # {}
  <2>1. PICK t \in tasks : t.run = r /\ t.pc = "exec"
    BY Zenon, <1>2 DEF Executing
  <2>2. Executing(r) = {t}
    BY Zenon, <1>0, <2>1 DEF Executing, HeldOnce, Past
  <2>3. Cardinality(Executing(r)) = 1
    BY Zenon, <2>2, FS_Singleton
  <2>4. status[r] # "waiting"
    BY Zenon, <1>0, <2>1 DEF HeldOnce, Past
  <2>5. ASSUME NEW u \in tasks, u.run = r PROVE ~AboutToExecute(u)
    <3>1. u.pc \notin {"begin", "claim"}
      BY Zenon, <1>0, <2>4, <2>5, ThreadIsWakeUp
    <3>2. u.pc # "read"
      BY Zenon, <1>0, <2>1, <2>5 DEF HeldOnce, Past
    <3> QED BY Zenon, <3>1, <3>2 DEF AboutToExecute
  <2>6. 1 <= 1
    OBVIOUS
  <2> QED BY Zenon, <2>3, <2>5, <2>6
<1> QED BY Zenon, <1>1, <1>2

\* With one dispatching instance, one request per wait and no SystemEvent, a run is
\* executed by one thread at a time, however often it waits and whatever crashes,
\* restarts or is lost: the wake-up of a request reaches a claim once or not at all.
THEOREM OneRequestOneRunner ==
  ASSUME \A i, j \in Dispatchers : i = j, MaxPublishes = 1, MaxEvents = 0
  PROVE  Spec => []AtMostOneRunner
<1>1. OneRequestInv => AtMostOneRunner
  BY Zenon, HeldOnceExecutes
<1> QED BY <1>1, OneRequestInvariant, PTL

\* In the same deployments a claim answers the request for that very wait: no
\* callback of an earlier wait is still on its way when the run waits again.
THEOREM OneRequestAnswered ==
  ASSUME \A i, j \in Dispatchers : i = j, MaxPublishes = 1, MaxEvents = 0
  PROVE  Spec => ClaimIsRequested
<1>1. OneRequestInv => CallbacksCurrent
  <2> SUFFICES ASSUME OneRequestInv, NEW t \in tasks, t.pc \in {"begin", "claim"} PROVE t.no = waitNo[t.run]
    BY Zenon DEF CallbacksCurrent
  <2>1. WakeUp("task", t.at, t) \in WakeUps
    BY Zenon, WakeUpMembers
  <2>2. WakeUp("task", t.at, t).what = t
    BY Zenon DEF WakeUp
  <2> QED BY Zenon, <2>1, <2>2 DEF OneRequestInv, WakeUpsCurrent
<1> QED BY <1>1, OneRequestInvariant, ClaimsRequested, PTL

=============================================================================
