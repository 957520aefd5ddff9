-------------------------- MODULE FlowRecoveryProofs --------------------------
(***************************************************************************)
(* Proofs about FlowRecovery, for any number of runs, any timeouts and     *)
(* thresholds, any number of crashes and of recovery jobs at once.         *)
(*                                                                         *)
(* RecoveredStays is not inductive: the scans write rows they selected     *)
(* earlier.  What makes it so is RunOK, which says of each run             *)
(*   - while its row is new or "running" it has never waited, so nothing   *)
(*     that waiting leaves behind (callback, backup row, a place in one of *)
(*     the other jobs' selections) can reach it,                           *)
(*   - while a thread executes it its row is younger than the threshold,   *)
(*   - once selected as stuck it has neither thread nor callback, and its  *)
(*     row is "running" or already "failed".                               *)
(***************************************************************************)
EXTENDS FlowRecovery, TLAPS

Unwaited(r) ==
    status[r] \in {"new", "running"} =>
        /\ at[r] \in {"none", "node"}
        /\ status[r] = "new" => at[r] = "none"
        /\ callback[r] = "none" /\ tail[r] = "none" /\ backup[r] = NoRow
        /\ r \notin expired /\ r \notin overdue /\ r \notin scanWaits

Young(r) == status[r] = "running" /\ at[r] # "none" => age[r] < StuckAfter

Gone(r) == at[r] = "none" /\ callback[r] = "none"

Selected(r) ==
    r \in stuck \/ r \in scanStuck => Gone(r) /\ status[r] \in {"running", "failed"}

Kept(r) == r \in recovered => Gone(r) /\ status[r] = "failed"

RunOK(r) ==
    /\ Unwaited(r) /\ Young(r) /\ Selected(r) /\ Kept(r)
    /\ r \in queued => callback[r] # "none" /\ process = "up"

RecoveryInv == TypeOK /\ \A r \in Runs : RunOK(r)

\* Every step keeps the types.
LEMMA TypeStep == TypeOK /\ [Next]_vars => TypeOK'
<1> SUFFICES ASSUME TypeOK, [Next]_vars PROVE TypeOK'
  OBVIOUS
<1> USE RecoveryAssumption
<1>1. ASSUME NEW r \in Runs, Start(r) PROVE TypeOK'
  BY <1>1 DEF TypeOK, Start, Write, Statuses, rows, threads, registry, scans
<1>2. ASSUME NEW r \in Runs, NodeStep(r) PROVE TypeOK'
  <2>1. CASE Advance(r)
    BY <2>1 DEF TypeOK, Advance, Write, Statuses, rows, threads, registry, scans
  <2>2. CASE Finish(r)
    BY <2>2 DEF TypeOK, Finish, Write, Statuses, Ended, rows, threads, registry, scans
  <2>3. CASE Dies(r)
    BY <2>3 DEF TypeOK, Dies, rows, threads, registry, scans
  <2>4. CASE Wait(r)
    BY <2>4 DEF TypeOK, Wait, Write, Statuses, rows, threads, registry, scans
  <2> QED BY <1>2, <2>1, <2>2, <2>3, <2>4 DEF NodeStep
<1>3. ASSUME NEW r \in Runs, ThreadStep(r) PROVE TypeOK'
  <2>1. CASE Register(r)
    BY <2>1 DEF TypeOK, Register, rows, threads, registry, scans
  <2>2. CASE PersistEntry(r)
    BY <2>2 DEF TypeOK, PersistEntry, rows, threads, registry, scans
  <2>3. CASE PersistMerge(r)
    <3>1. Left(r) \in 0..Horizon \cup {NoRow}
      BY DEF TypeOK, Left
    <3>2. backup' \in [Runs -> 0..Horizon \cup {NoRow}]
      BY <2>3, <3>1 DEF TypeOK, PersistMerge
    <3> QED BY <2>3, <3>2 DEF TypeOK, PersistMerge, rows, threads, registry, scans
  <2>4. CASE Resume(r)
    BY <2>4 DEF TypeOK, Resume, rows, threads, registry, scans
  <2>5. CASE Claim(r)
    BY <2>5 DEF TypeOK, Claim, Write, Statuses, rows, threads, registry, scans
  <2> QED BY <1>3, <2>1, <2>2, <2>3, <2>4, <2>5 DEF ThreadStep
<1>4. ASSUME NEW r \in Runs, Event(r) PROVE TypeOK'
  BY <1>4 DEF TypeOK, Event, rows, threads, registry, scans
<1>5. ASSUME NEW b, FailBatch(b)
      PROVE status' \in [Runs -> Statuses] /\ age' \in [Runs -> 0..Horizon]
  BY <1>5 DEF FailBatch, TypeOK, Statuses, Ended, rows
<1>6. CASE ExpiryJobs
  <2>1. CASE ExpireSelect
    BY <2>1 DEF TypeOK, ExpireSelect, ExpiredWaits, rows, threads, registry, scans
  <2>2. CASE ExpireCommit
    BY <2>2, <1>5 DEF TypeOK, ExpireCommit, threads, registry
  <2>3. CASE OverdueSelect
    BY <2>3 DEF TypeOK, OverdueSelect, OverdueRows, rows, threads, registry, scans
  <2>4. CASE OverdueCommit
    BY <2>4, <1>5 DEF TypeOK, OverdueCommit, threads, registry
  <2>5. CASE StuckSelect
    BY <2>5 DEF TypeOK, StuckSelect, StuckRuns, rows, threads, registry, scans
  <2>6. CASE StuckCommit
    BY <2>6, <1>5 DEF TypeOK, StuckCommit, threads, registry
  <2> QED BY <1>6, <2>1, <2>2, <2>3, <2>4, <2>5, <2>6 DEF ExpiryJobs
<1>7. CASE Watchdog
  <2>1. CASE ScanSelect
    BY <2>1 DEF TypeOK, ScanSelect, StuckRuns, LateWaits, rows, threads, registry
  <2>2. ASSUME NEW r \in Runs, ScanStuck(r) PROVE TypeOK'
    BY <2>2 DEF TypeOK, ScanStuck, Write, Statuses, Ended, rows, threads, registry
  <2>3. ASSUME NEW r \in Runs, ScanWait(r) PROVE TypeOK'
    BY <2>3 DEF TypeOK, ScanWait, Write, Statuses, Ended, rows, threads, registry
  <2> QED BY <1>7, <2>1, <2>2, <2>3 DEF Watchdog
<1>8. CASE Crash
  BY <1>8 DEF TypeOK, Crash, rows
<1>9. CASE Restart
  BY <1>9 DEF TypeOK, Restart, StuckRuns, LateWaits, rows, threads, registry
<1>10. CASE Rehydrate
  <2>1. ASSUME NEW r \in Runs PROVE Left(r) \in 0..Horizon \cup {NoRow}
    BY DEF TypeOK, Left
  <2>2. backup' \in [Runs -> 0..Horizon \cup {NoRow}]
    BY <1>10, <2>1 DEF TypeOK, Rehydrate
  <2> QED BY <1>10, <2>2 DEF TypeOK, Rehydrate, rows, threads, registry, scans
<1>11. CASE Tick
  <2>1. age' \in [Runs -> 0..Horizon]
    BY <1>11 DEF TypeOK, Tick, Older
  <2>2. backup' \in [Runs -> 0..Horizon \cup {NoRow}]
    BY <1>11 DEF TypeOK, Tick, Nearer
  <2> QED BY <1>11, <2>1, <2>2 DEF TypeOK, Tick, threads, registry, scans
<1>12. CASE UNCHANGED vars
  BY <1>12 DEF TypeOK, vars, rows, threads, registry, scans
<1> QED
  BY <1>1, <1>2, <1>3, <1>4, <1>6, <1>7, <1>8, <1>9, <1>10, <1>11, <1>12 DEF Next

\* Every step keeps what RunOK says of each run.
LEMMA RunStep == RecoveryInv /\ [Next]_vars => \A x \in Runs : RunOK(x)'
<1> SUFFICES ASSUME RecoveryInv, [Next]_vars, NEW x \in Runs PROVE RunOK(x)'
  OBVIOUS
<1> USE RecoveryAssumption DEF RecoveryInv, RunOK, Unwaited, Young, Selected, Kept, Gone
<1>1. ASSUME NEW r \in Runs, Start(r) PROVE RunOK(x)'
  BY <1>1 DEF TypeOK, Start, Write, registry, scans
<1>2. ASSUME NEW r \in Runs, NodeStep(r) PROVE RunOK(x)'
  <2>1. CASE Advance(r)
    BY <2>1 DEF TypeOK, Advance, Executes, Write, registry, scans
  <2>2. CASE Finish(r)
    BY <2>2 DEF TypeOK, Finish, Executes, Write, registry, scans
  <2>3. CASE Dies(r)
    BY <2>3 DEF TypeOK, Dies, Executes, rows, registry, scans
  <2>4. CASE Wait(r)
    BY <2>4 DEF TypeOK, Wait, Executes, Write, registry, scans
  <2> QED BY <1>2, <2>1, <2>2, <2>3, <2>4 DEF NodeStep
<1>3. ASSUME NEW r \in Runs, ThreadStep(r) PROVE RunOK(x)'
  <2>1. CASE Register(r)
    BY <2>1 DEF TypeOK, Register, rows, scans
  <2>2. CASE PersistEntry(r)
    BY <2>2 DEF TypeOK, PersistEntry, rows, registry, scans
  <2>3. CASE PersistMerge(r)
    BY <2>3 DEF TypeOK, PersistMerge, rows, registry, scans
  <2>4. CASE Resume(r)
    BY <2>4 DEF TypeOK, Resume, rows, scans
  <2>5. CASE Claim(r)
    BY <2>5 DEF TypeOK, Claim, Write, rows, registry, scans
  <2> QED BY <1>3, <2>1, <2>2, <2>3, <2>4, <2>5 DEF ThreadStep
<1>4. ASSUME NEW r \in Runs, Event(r) PROVE RunOK(x)'
  BY <1>4 DEF TypeOK, Event, rows, threads, scans
<1>5. CASE ExpiryJobs
  <2>1. CASE ExpireSelect
    BY <2>1 DEF TypeOK, ExpireSelect, ExpiredWaits, rows, threads, registry
  <2>2. CASE ExpireCommit
    BY <2>2 DEF TypeOK, ExpireCommit, FailBatch, rows, threads, registry
  <2>3. CASE OverdueSelect
    BY <2>3 DEF TypeOK, OverdueSelect, OverdueRows, rows, threads, registry
  <2>4. CASE OverdueCommit
    BY <2>4 DEF TypeOK, OverdueCommit, FailBatch, rows, threads, registry
  <2>5. CASE StuckSelect
    BY <2>5 DEF TypeOK, StuckSelect, StuckRuns, rows, threads, registry
  <2>6. CASE StuckCommit
    BY <2>6 DEF TypeOK, StuckCommit, FailBatch, rows, threads, registry
  <2> QED BY <1>5, <2>1, <2>2, <2>3, <2>4, <2>5, <2>6 DEF ExpiryJobs
<1>6. CASE Watchdog
  <2>1. CASE ScanSelect
    BY <2>1 DEF TypeOK, ScanSelect, StuckRuns, LateWaits, rows, threads, registry
  <2>2. ASSUME NEW r \in Runs, ScanStuck(r) PROVE RunOK(x)'
    BY <2>2 DEF TypeOK, ScanStuck, Write, rows, threads, registry
  <2>3. ASSUME NEW r \in Runs, ScanWait(r) PROVE RunOK(x)'
    BY <2>3 DEF TypeOK, ScanWait, Write, rows, threads, registry
  <2> QED BY <1>6, <2>1, <2>2, <2>3 DEF Watchdog
<1>7. CASE Crash
  BY <1>7 DEF TypeOK, Crash, rows
<1>8. CASE Restart
  BY <1>8 DEF TypeOK, Restart, StuckRuns, LateWaits, rows, threads, registry
<1>9. CASE Rehydrate
  <2>1. UNCHANGED <<rows, threads, queued, scans, recovered>> /\ x \notin queued
    BY <1>9 DEF Rehydrate
  <2>2. status[x] # "waiting" => callback'[x] = "none" /\ backup'[x] = backup[x]
    BY <1>9 DEF Rehydrate
  <2> QED BY <2>1, <2>2 DEF TypeOK, rows, threads, scans
<1>10. CASE Tick
  <2>1. status' = status /\ at' = at /\ callback' = callback /\ tail' = tail
    BY <1>10 DEF Tick, threads, registry
  <2>2. backup[x] = NoRow => backup'[x] = NoRow
    BY <1>10 DEF TypeOK, Tick, Nearer
  <2>3. Young(x)'
    BY <1>10, <2>1 DEF TypeOK, Tick, Timely, Older
  <2> QED BY <1>10, <2>1, <2>2, <2>3 DEF TypeOK, Tick, registry, scans
<1>11. CASE UNCHANGED vars
  BY <1>11 DEF TypeOK, vars, rows, threads, registry, scans
<1> QED
  BY <1>1, <1>2, <1>3, <1>4, <1>5, <1>6, <1>7, <1>8, <1>9, <1>10, <1>11 DEF Next

\* RecoveryInv is an invariant.
LEMMA RecoveryInvariant == Spec => []RecoveryInv
<1>1. Init => RecoveryInv
  BY RecoveryAssumption DEF Init, RecoveryInv, TypeOK, Statuses, RunOK,
     Unwaited, Young, Selected, Kept, Gone
<1>2. RecoveryInv /\ [Next]_vars => RecoveryInv'
  BY TypeStep, RunStep DEF RecoveryInv
<1> QED BY <1>1, <1>2, PTL DEF Spec

\* A run failed as stuck stays failed, without thread or callback, although the
\* scans of recovery_jobs.py and stuck_run_service.py write rows they have
\* selected earlier.
THEOREM RecoveredForGood == Spec => [](TypeOK /\ RecoveredStays)
<1>1. RecoveryInv => TypeOK /\ RecoveredStays
  BY DEF RecoveryInv, TypeOK, RunOK, Kept, Gone, RecoveredStays
<1> QED BY <1>1, RecoveryInvariant, PTL

\* The rows, threads, callbacks and scans of the recovery keep their types.
THEOREM RecoveryTypes == Spec => []TypeOK
BY RecoveredForGood, PTL

\* A run that has ended and has neither thread nor callback is never executed
\* again: no job, event, restart or rehydration revives it.
THEOREM OverForGood == Spec => OverStaysOver
<1>1. RecoveryInv /\ [Next]_vars => [\A r \in Runs : Over(r) => Over(r)']_vars
  <2> SUFFICES ASSUME RecoveryInv, Next, NEW x \in Runs, Over(x) PROVE Over(x)'
    BY DEF vars
  <2> USE DEF RecoveryInv, RunOK, Over, Ended
  <2>1. ASSUME NEW r \in Runs, Start(r) \/ Event(r) PROVE Over(x)'
    BY <2>1 DEF TypeOK, Start, Event, Write, rows, threads, registry
  <2>2. ASSUME NEW r \in Runs, NodeStep(r) PROVE Over(x)'
    BY <2>2 DEF TypeOK, NodeStep, Advance, Finish, Dies, Wait, Executes, Write,
       rows, registry
  <2>3. ASSUME NEW r \in Runs, ThreadStep(r) PROVE Over(x)'
    BY <2>3 DEF TypeOK, ThreadStep, Register, PersistEntry, PersistMerge, Resume,
       Claim, Write, rows, registry
  <2>4. CASE ExpiryJobs
    BY <2>4 DEF TypeOK, ExpiryJobs, ExpireSelect, ExpireCommit, OverdueSelect,
       OverdueCommit, StuckSelect, StuckCommit, FailBatch, rows, threads, registry
  <2>5. CASE Watchdog
    BY <2>5 DEF TypeOK, Watchdog, ScanSelect, ScanStuck, ScanWait, Write,
       rows, threads, registry
  <2>6. CASE Crash \/ Restart \/ Rehydrate \/ Tick
    BY <2>6 DEF TypeOK, Crash, Restart, Rehydrate, Tick, rows, threads, registry
  <2> QED BY <2>1, <2>2, <2>3, <2>4, <2>5, <2>6 DEF Next
<1> QED BY <1>1, RecoveryInvariant, PTL DEF Spec, OverStaysOver

===============================================================================
