------------------------ MODULE CircuitBreakerProofs ------------------------
(* What holds of the breaker for any number of callers, any threshold and any
   recovery timeout. *)
EXTENDS CircuitBreaker, TLAPS

BreakerInv == TypeOK /\ HalfOpenFlag /\ TripsAtThreshold

\* The part of the invariant about counts, times and phases, and the part
\* about the Boolean flag: each is inductive on its own.
CountInv ==
    /\ state \in {"CLOSED", "OPEN", "HALF_OPEN"}
    /\ failureCount \in Nat
    /\ sinceOpened \in NotOpened .. RecoveryTimeout
    /\ phase \in [Callers -> Phases]
    /\ TripsAtThreshold

FlagInv == halfOpenInFlight \in BOOLEAN /\ HalfOpenFlag

LEMMA BreakerInit == Init => CountInv /\ FlagInv
<1> SUFFICES ASSUME Init PROVE CountInv /\ FlagInv
  OBVIOUS
<1>1. CountInv
  BY ThresholdAssumption, TimeoutAssumption, SMT
     DEF Init, CountInv, TripsAtThreshold, NotOpened, Phases
<1>2. FlagInv
  BY Zenon DEF Init, FlagInv, HalfOpenFlag
<1> QED
  BY <1>1, <1>2

LEMMA CountStep == CountInv /\ [Next]_vars => CountInv'
<1> SUFFICES ASSUME CountInv, [Next]_vars
             PROVE  CountInv'
  OBVIOUS
<1> USE ThresholdAssumption, TimeoutAssumption
        DEF CountInv, TripsAtThreshold, NotOpened, Phases
<1>1. CASE Tick
  BY <1>1 DEF Tick
<1>2. CASE Reset
  BY <1>2 DEF Reset, TransitionTo
<1>3. ASSUME NEW c \in Callers, EnterClosed(c)
      PROVE  CountInv'
  BY <1>3 DEF EnterClosed
<1>4. ASSUME NEW c \in Callers, EnterProbe(c)
      PROVE  CountInv'
  BY <1>4 DEF EnterProbe, TransitionTo
<1>5. ASSUME NEW c \in Callers, RecordSuccess(c)
      PROVE  CountInv'
  BY <1>5 DEF RecordSuccess, TransitionTo
<1>6. ASSUME NEW c \in Callers, RecordFailure(c)
      PROVE  CountInv'
  BY <1>6 DEF RecordFailure, TransitionTo
<1>7. ASSUME NEW c \in Callers, Cancel(c)
      PROVE  CountInv'
  BY <1>7 DEF Cancel
<1>8. CASE UNCHANGED vars
  BY <1>8 DEF vars
<1> QED
  BY <1>1, <1>2, <1>3, <1>4, <1>5, <1>6, <1>7, <1>8 DEF Next, Finish

\* Every step either leaves state and flag alone or sets both by TransitionTo.
LEMMA FlagStep == FlagInv /\ [Next]_vars => FlagInv'
<1> SUFFICES ASSUME FlagInv, [Next]_vars
             PROVE  FlagInv'
  OBVIOUS
<1>1. ASSUME NEW new, NEW count, TransitionTo(new, count)
      PROVE  FlagInv'
  BY <1>1, Zenon DEF TransitionTo, FlagInv, HalfOpenFlag
<1>2. ASSUME UNCHANGED <<state, halfOpenInFlight>>
      PROVE  FlagInv'
  BY <1>2, Zenon DEF FlagInv, HalfOpenFlag
<1>3. ASSUME Next
      PROVE  \/ \E new, count : TransitionTo(new, count)
             \/ UNCHANGED <<state, halfOpenInFlight>>
  BY <1>3, Zenon
     DEF Next, Finish, Tick, Reset, EnterClosed, EnterProbe, RecordSuccess,
         RecordFailure, Cancel
<1>4. CASE UNCHANGED vars
  BY <1>2, <1>4, Zenon DEF vars
<1> QED
  BY <1>1, <1>2, <1>3, <1>4, Zenon

\* The breaker's fields stay well typed and consistent: the in-flight flag is
\* set exactly while half-open, and the failure count is below the threshold
\* exactly while closed, however late outcomes are recorded or calls cancelled.
THEOREM BreakerConsistent == Spec => [](TypeOK /\ HalfOpenFlag /\ TripsAtThreshold)
<1>1. CountInv /\ FlagInv => TypeOK /\ HalfOpenFlag /\ TripsAtThreshold
  BY Zenon DEF CountInv, FlagInv, TypeOK
<1> QED
  BY <1>1, BreakerInit, CountStep, FlagStep, PTL DEF Spec

\* The fields of CircuitBreaker keep their types: the failure count is never negative
\* and the time since the opening stays within the recovery timeout.
THEOREM BreakerTypes == Spec => []TypeOK
BY BreakerConsistent, PTL

\* Without cancellation a half-open circuit always has a probe out whose
\* outcome will move it on, whatever older calls record meanwhile.
THEOREM HalfOpenProbeOut ==
    ASSUME AsyncCallers = {}
    PROVE  Spec => []HalfOpenHasProbe
<1>1. Init => HalfOpenHasProbe
  BY DEF Init, HalfOpenHasProbe
<1>2. BreakerInv /\ HalfOpenHasProbe /\ [Next]_vars => HalfOpenHasProbe'
  <2> SUFFICES ASSUME BreakerInv, HalfOpenHasProbe, [Next]_vars
               PROVE  HalfOpenHasProbe'
    OBVIOUS
  <2> USE DEF BreakerInv, TypeOK, HalfOpenHasProbe, Phases
  <2>1. CASE Tick
    BY <2>1 DEF Tick
  <2>2. CASE Reset
    BY <2>2 DEF Reset, TransitionTo
  <2>3. ASSUME NEW c \in Callers, EnterClosed(c)
        PROVE  HalfOpenHasProbe'
    BY <2>3 DEF EnterClosed
  <2>4. ASSUME NEW c \in Callers, EnterProbe(c)
        PROVE  HalfOpenHasProbe'
    BY <2>4 DEF EnterProbe, TransitionTo
  <2>5. ASSUME NEW c \in Callers, RecordSuccess(c)
        PROVE  HalfOpenHasProbe'
    BY <2>5 DEF RecordSuccess, TransitionTo
  <2>6. ASSUME NEW c \in Callers, RecordFailure(c)
        PROVE  HalfOpenHasProbe'
    BY <2>6 DEF RecordFailure, TransitionTo
  <2>7. ASSUME NEW c \in Callers, Cancel(c)
        PROVE  FALSE
    BY <2>7 DEF Cancel
  <2>8. CASE UNCHANGED vars
    BY <2>8 DEF vars
  <2> QED
    BY <2>1, <2>2, <2>3, <2>4, <2>5, <2>6, <2>7, <2>8 DEF Next, Finish
<1>3. Spec => []BreakerInv
  BY BreakerConsistent, PTL DEF BreakerInv
<1> QED
  BY <1>1, <1>2, <1>3, PTL DEF Spec

\* No call passes a circuit that is not closed before the recovery timeout
\* has run out since it last opened.
THEOREM ProbesWaitForTimeout == Spec => ProbeOnlyAfterTimeout
<1> DEFINE Admission ==
      \A c \in Callers :
         phase[c] = "idle" /\ phase'[c] # "idle" /\ state # "CLOSED"
            => state = "OPEN" /\ sinceOpened = RecoveryTimeout
<1>1. BreakerInv /\ [Next]_vars => [Admission]_vars
  <2> SUFFICES ASSUME BreakerInv, Next, NEW d \in Callers,
                      phase[d] = "idle", phase'[d] # "idle", state # "CLOSED"
               PROVE  state = "OPEN" /\ sinceOpened = RecoveryTimeout
    OBVIOUS
  <2> USE TimeoutAssumption DEF BreakerInv, TypeOK
  <2>1. ASSUME NEW c \in Callers, EnterProbe(c)
        PROVE  state = "OPEN" /\ sinceOpened = RecoveryTimeout
    BY <2>1 DEF EnterProbe, NotOpened
  <2>2. ASSUME NEW c \in Callers, Finish(c) \/ Cancel(c)
        PROVE  FALSE
    BY <2>2 DEF Finish, Cancel, RecordSuccess, RecordFailure
  <2> QED
    BY <2>1, <2>2 DEF Next, Tick, Reset, EnterClosed
<1>2. Spec => []BreakerInv
  BY BreakerConsistent, PTL DEF BreakerInv
<1>3. Spec => [][Admission]_vars
  BY <1>1, <1>2, PTL DEF Spec
<1> QED
  BY <1>3 DEF ProbeOnlyAfterTimeout
=============================================================================
