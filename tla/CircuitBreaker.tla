--------------------------- MODULE CircuitBreaker ---------------------------
(* The breaker of AINDY/kernel/circuit_breaker.py that guards the AI
   providers.  Each caller is a thread or task inside call() / async_call():
   it enters under the lock, runs the protected function with the lock
   released, and records the outcome under the lock.  Between the two the
   breaker can be moved by other callers, so an outcome may be recorded in a
   state the call was never admitted in. *)
EXTENDS Integers

CONSTANTS Callers,           \* threads and tasks that share one breaker
          AsyncCallers,      \* those that use async_call and can be cancelled
          FailureThreshold,  \* failure_threshold
          RecoveryTimeout    \* recovery_timeout_secs, in clock ticks

ASSUME CallersAssumption == AsyncCallers \subseteq Callers
ASSUME ThresholdAssumption == FailureThreshold \in Nat \ {0}
ASSUME TimeoutAssumption == RecoveryTimeout \in Nat

VARIABLES state,             \* self._state
          failureCount,      \* self._failure_count
          sinceOpened,       \* now - self._opened_at, NotOpened when it is None
          halfOpenInFlight,  \* self._half_open_in_flight
          phase              \* the caller's local "phase", "idle" outside a call

vars == <<state, failureCount, sinceOpened, halfOpenInFlight, phase>>

\* self._opened_at is None.
NotOpened == -1

Phases == {"idle", "closed", "half_open"}

Init ==
    /\ state = "CLOSED"
    /\ failureCount = 0
    /\ sinceOpened = NotOpened
    /\ halfOpenInFlight = FALSE
    /\ phase = [c \in Callers |-> "idle"]

\* Only the comparison with the timeout is ever made, so the age stops there.
Tick ==
    /\ sinceOpened # NotOpened
    /\ sinceOpened < RecoveryTimeout
    /\ sinceOpened' = sinceOpened + 1
    /\ UNCHANGED <<state, failureCount, halfOpenInFlight, phase>>

\* Mutant: the in-flight flag survives the end of the probe.
TransitionToAs_keepFlag(new, count) ==
    /\ state' = new
    /\ failureCount' = IF new = "CLOSED" THEN 0 ELSE count
    /\ sinceOpened' = CASE new = "CLOSED" -> NotOpened
                        [] new = "OPEN" -> 0
                        [] OTHER -> sinceOpened
    /\ halfOpenInFlight' = (new = "HALF_OPEN" \/ halfOpenInFlight)

\* count is the failure count the caller of _transition_to has just stored; a
\* transition to HALF_OPEN comes with the flag _enter_call sets after it.
TransitionTo(new, count) ==
    /\ state' = new
    /\ failureCount' = IF new = "CLOSED" THEN 0 ELSE count
    /\ sinceOpened' = CASE new = "CLOSED" -> NotOpened
                        [] new = "OPEN" -> 0
                        [] OTHER -> sinceOpened
    /\ halfOpenInFlight' = (new = "HALF_OPEN")

EnterClosed(c) ==
    /\ phase[c] = "idle"
    /\ state = "CLOSED"
    /\ phase' = [phase EXCEPT ![c] = "closed"]
    /\ UNCHANGED <<state, failureCount, sinceOpened, halfOpenInFlight>>

\* Mutant: the recovery timeout is not compared.
EnterProbeAs_early(c) ==
    /\ phase[c] = "idle"
    /\ state = "OPEN"
    /\ phase' = [phase EXCEPT ![c] = "half_open"]
    /\ TransitionTo("HALF_OPEN", failureCount)

\* A call that finds the circuit open and not yet due, or half-open with the
\* probe out, raises CircuitOpenError and changes nothing.  The last branch of
\* _enter_call (half-open and no probe out) is covered by HalfOpenFlag below:
\* no reachable state takes it.
EnterProbe(c) ==
    /\ phase[c] = "idle"
    /\ state = "OPEN"
    /\ sinceOpened >= RecoveryTimeout
    /\ phase' = [phase EXCEPT ![c] = "half_open"]
    /\ TransitionTo("HALF_OPEN", failureCount)

\* Mutant: a success takes one failure back instead of all of them.
RecordSuccessAs_decrement(c) ==
    /\ phase[c] # "idle"
    /\ IF phase[c] = "half_open" \/ state # "CLOSED"
         THEN TransitionTo("CLOSED", failureCount)
         ELSE /\ failureCount' = failureCount - 1
              /\ UNCHANGED <<state, sinceOpened, halfOpenInFlight>>
    /\ phase' = [phase EXCEPT ![c] = "idle"]

RecordSuccess(c) ==
    /\ phase[c] # "idle"
    /\ IF phase[c] = "half_open" \/ state # "CLOSED"
         THEN TransitionTo("CLOSED", failureCount)
         ELSE /\ failureCount' = 0
              /\ UNCHANGED <<state, sinceOpened, halfOpenInFlight>>
    /\ phase' = [phase EXCEPT ![c] = "idle"]

\* Mutant: one failure more than the threshold is needed.
RecordFailureAs_offByOne(c) ==
    /\ phase[c] # "idle"
    /\ IF phase[c] = "half_open" \/ state = "HALF_OPEN"
         THEN TransitionTo("OPEN", FailureThreshold)
         ELSE IF failureCount + 1 > FailureThreshold
           THEN TransitionTo("OPEN", failureCount + 1)
           ELSE /\ failureCount' = failureCount + 1
                /\ UNCHANGED <<state, sinceOpened, halfOpenInFlight>>
    /\ phase' = [phase EXCEPT ![c] = "idle"]

\* Mutant: the outcome of a probe is not treated apart.
RecordFailureAs_ignoreProbe(c) ==
    /\ phase[c] # "idle"
    /\ IF failureCount + 1 >= FailureThreshold /\ state = "CLOSED"
         THEN TransitionTo("OPEN", failureCount + 1)
         ELSE /\ failureCount' = failureCount + 1
              /\ UNCHANGED <<state, sinceOpened, halfOpenInFlight>>
    /\ phase' = [phase EXCEPT ![c] = "idle"]

RecordFailure(c) ==
    /\ phase[c] # "idle"
    /\ IF phase[c] = "half_open" \/ state = "HALF_OPEN"
         THEN TransitionTo("OPEN", FailureThreshold)
         ELSE IF failureCount + 1 >= FailureThreshold
           THEN TransitionTo("OPEN", failureCount + 1)
           ELSE /\ failureCount' = failureCount + 1
                /\ UNCHANGED <<state, sinceOpened, halfOpenInFlight>>
    /\ phase' = [phase EXCEPT ![c] = "idle"]

\* asyncio.CancelledError is not an Exception: async_call records nothing.
Cancel(c) ==
    /\ c \in AsyncCallers
    /\ phase[c] # "idle"
    /\ phase' = [phase EXCEPT ![c] = "idle"]
    /\ UNCHANGED <<state, failureCount, sinceOpened, halfOpenInFlight>>

Reset ==
    /\ TransitionTo("CLOSED", failureCount)
    /\ UNCHANGED phase

Finish(c) == RecordSuccess(c) \/ RecordFailure(c)

Next ==
    \/ Tick
    \/ Reset
    \/ \E c \in Callers :
          EnterClosed(c) \/ EnterProbe(c) \/ Finish(c) \/ Cancel(c)

Spec == Init /\ [][Next]_vars

\* Every protected call returns: the provider clients set a request timeout.
FairSpec == Spec /\ \A c \in Callers : WF_vars(Finish(c))

-----------------------------------------------------------------------------
\* Every field keeps the type __init__ gives it; the failure count never
\* goes below zero.
TypeOK ==
    /\ state \in {"CLOSED", "OPEN", "HALF_OPEN"}
    /\ failureCount \in Nat
    /\ sinceOpened \in NotOpened .. RecoveryTimeout
    /\ halfOpenInFlight \in BOOLEAN
    /\ phase \in [Callers -> Phases]

\* The in-flight flag is set exactly while the circuit is half-open, so
\* _enter_call never takes its last branch and never admits a second probe
\* of the same half-open period.
HalfOpenFlag == halfOpenInFlight <=> state = "HALF_OPEN"

\* A closed circuit has failed fewer times in a row than the threshold, and
\* an open or half-open one has reached it and knows when it opened: the
\* breaker neither misses the failure that should trip it nor gets stuck open
\* with no time to count from.
TripsAtThreshold ==
    /\ state = "CLOSED" => failureCount < FailureThreshold /\ sinceOpened = NotOpened
    /\ state # "CLOSED" => failureCount >= FailureThreshold /\ sinceOpened # NotOpened

\* While half-open some probe is still out, so the circuit will be moved on:
\* whatever late outcomes of older calls have arrived in between.
HalfOpenHasProbe ==
    state = "HALF_OPEN" => \E c \in Callers : phase[c] = "half_open"

\* A call is let through a circuit that is not closed only when the recovery
\* timeout has passed since it last opened.
ProbeOnlyAfterTimeout ==
    [][\A c \in Callers :
          phase[c] = "idle" /\ phase'[c] # "idle" /\ state # "CLOSED"
             => state = "OPEN" /\ sinceOpened = RecoveryTimeout]_vars

\* The circuit a thread probes does not stay half-open: the probe's outcome is
\* recorded, whatever late outcomes, resets and cancellations come in between.
ThreadProbeEnds ==
    \A c \in Callers \ AsyncCallers :
       state = "HALF_OPEN" /\ phase[c] = "half_open" ~> state # "HALF_OPEN"
=============================================================================
