--------------------------- MODULE SchedulerLease ---------------------------
(***************************************************************************)
(* The background_task_leases row that elects the one process whose        *)
(* APScheduler runs: acquired once at startup, refreshed by a job of that  *)
(* APScheduler, released on shutdown.                                      *)
(*                                                                         *)
(* Time is counted from events: left is the time until expires_at, and     *)
(* since is the time since a process last acquired or refreshed.  An API   *)
(* process releases the lease and stops its scheduler later; a worker      *)
(* process (StopsFirst) stops its scheduler before it releases.            *)
(***************************************************************************)
EXTENDS Naturals, FiniteSets

CONSTANTS
  Processes,   \* API and worker processes of the deployment
  StopsFirst,  \* the worker processes among them
  IdOf,        \* _get_instance_id() of each process
  NoOwner,     \* the row does not exist yet
  TTL,         \* _BACKGROUND_LEASE_TTL_SECONDS, in steps of the clock
  MaxGap,      \* longest time between two refreshes when Timely
  Timely       \* whether refreshes and releases happen within MaxGap

ASSUME ProcessAssumption == StopsFirst \subseteq Processes /\ DOMAIN IdOf = Processes
ASSUME NoOwnerAssumption == \A p \in Processes : IdOf[p] # NoOwner
ASSUME TimeAssumption == TTL \in Nat /\ MaxGap \in Nat /\ MaxGap < TTL /\ Timely \in BOOLEAN

VARIABLES
  owner,    \* lease.owner_id
  left,     \* lease.expires_at - now, 0 once expired
  pc,       \* where each process is in its life
  running,  \* processes whose APScheduler runs
  since     \* time since the process last acquired or refreshed the lease

vars == <<owner, left, pc, running, since>>

Ids == {IdOf[p] : p \in Processes} \union {NoOwner}
Pcs == {"down", "won", "leader", "follower", "stopped", "releasing", "released", "exited"}
\* Processes that count on the lease being theirs.
Holding == {p \in Processes : pc[p] \in {"won", "leader", "stopped", "releasing"}}
Goto(p, l) == pc' = [pc EXCEPT ![p] = l]

Init ==
  /\ owner = NoOwner
  /\ left = 0
  /\ pc = [p \in Processes |-> "down"]
  /\ running = {}
  /\ since = [p \in Processes |-> 0]

\* Mutant: an unexpired lease of another owner is taken over.
AcquireAs_ignoreExpiry(p) ==
  /\ pc[p] \in {"down", "exited"}
  /\ owner' = IdOf[p]
  /\ left' = TTL
  /\ Goto(p, "won")
  /\ since' = [since EXCEPT ![p] = 0]
  /\ UNCHANGED running

\* _acquire_background_lease, under SELECT ... FOR UPDATE, as the system.startup
\* handler of a starting process: an unexpired lease of another owner makes it
\* a follower, which never tries again.
Acquire(p) ==
  /\ pc[p] \in {"down", "exited"}
  /\ IF left > 0 /\ owner # IdOf[p]
     THEN Goto(p, "follower") /\ UNCHANGED <<owner, left>>
     ELSE Goto(p, "won") /\ owner' = IdOf[p] /\ left' = TTL
  /\ since' = [since EXCEPT ![p] = 0]
  /\ UNCHANGED running

\* scheduler_service.start(), on the process that won.
StartScheduler(p) ==
  /\ pc[p] = "won"
  /\ Goto(p, "leader")
  /\ running' = running \union {p}
  /\ UNCHANGED <<owner, left, since>>

\* Mutant: the owner of the row is not compared.
HeartbeatAs_anyOwner(p) ==
  /\ p \in running
  /\ left' = TTL
  /\ since' = [since EXCEPT ![p] = 0]
  /\ UNCHANGED <<owner, pc, running>>

\* Mutant: the expiry is moved on from where it was, not from now.
HeartbeatAs_additive(p) ==
  /\ p \in running
  /\ left' = IF owner = IdOf[p] THEN left + TTL ELSE left
  /\ since' = [since EXCEPT ![p] = 0]
  /\ UNCHANGED <<owner, pc, running>>

\* _heartbeat_lease_job: refreshes a lease that is still its own, expired or
\* not; a lost lease is logged and the scheduler keeps running.
Heartbeat(p) ==
  /\ p \in running
  /\ left' = IF owner = IdOf[p] THEN TTL ELSE left
  /\ since' = [since EXCEPT ![p] = 0]
  /\ UNCHANGED <<owner, pc, running>>

\* scheduler_service.stop(): before the release in a worker, after it in an
\* API process.
StopScheduler(p) ==
  /\ \/ p \in StopsFirst /\ pc[p] = "leader" /\ Goto(p, "stopped")
     \/ pc[p] = "released" /\ Goto(p, "exited")
  /\ running' = running \ {p}
  /\ UNCHANGED <<owner, left, since>>

\* Mutant: the owner of the row is not compared.
ReleaseReadAs_anyOwner(p) ==
  /\ pc[p] = "stopped" \/ (p \notin StopsFirst /\ pc[p] \in {"leader", "follower"})
  /\ Goto(p, "releasing")
  /\ UNCHANGED <<owner, left, running, since>>

\* _release_background_lease reads the row without a lock.  An API process
\* calls it whatever its role is.
ReleaseRead(p) ==
  /\ pc[p] = "stopped" \/ (p \notin StopsFirst /\ pc[p] \in {"leader", "follower"})
  /\ Goto(p, IF owner = IdOf[p] THEN "releasing"
             ELSE IF p \in running THEN "released" ELSE "exited")
  /\ UNCHANGED <<owner, left, running, since>>

\* Mutant: the row is found to be its own and never updated.
ReleaseWriteAs_noCommit(p) ==
  /\ pc[p] = "releasing"
  /\ Goto(p, IF p \in running THEN "released" ELSE "exited")
  /\ UNCHANGED <<owner, left, running, since>>

\* ... and expires it.
ReleaseWrite(p) ==
  /\ pc[p] = "releasing"
  /\ left' = 0
  /\ Goto(p, IF p \in running THEN "released" ELSE "exited")
  /\ UNCHANGED <<owner, running, since>>

\* A worker that never led exits without a release.
Exit(p) ==
  /\ p \in StopsFirst
  /\ pc[p] = "follower"
  /\ Goto(p, "exited")
  /\ UNCHANGED <<owner, left, running, since>>

Crash(p) ==
  /\ pc[p] \notin {"down", "exited"}
  /\ Goto(p, "down")
  /\ running' = running \ {p}
  /\ UNCHANGED <<owner, left, since>>

\* Time passes; when Timely, not beyond MaxGap without a refresh.
Tick ==
  /\ Timely => \A p \in Holding : since[p] < MaxGap
  /\ left' = IF left > 0 THEN left - 1 ELSE 0
  /\ since' = [p \in Processes |->
       IF p \in Holding /\ since[p] < MaxGap THEN since[p] + 1 ELSE since[p]]
  /\ UNCHANGED <<owner, pc, running>>

Next ==
  \/ \E p \in Processes :
       \/ Acquire(p) \/ StartScheduler(p) \/ Heartbeat(p) \/ StopScheduler(p)
       \/ ReleaseRead(p) \/ ReleaseWrite(p) \/ Exit(p) \/ Crash(p)
  \/ Tick

Spec == Init /\ [][Next]_vars
FairSpec == Spec /\ WF_vars(Tick)

-----------------------------------------------------------------------------
\* Every variable stays within the values the code stores in it.
TypeOK ==
  /\ owner \in Ids
  /\ left \in 0..TTL
  /\ pc \in [Processes -> Pcs]
  /\ running \subseteq Processes
  /\ since \in [Processes -> 0..MaxGap]

\* "Only one process runs background jobs": at most one APScheduler runs.
OneScheduler == Cardinality(running) <= 1

\* At most one process runs its scheduler as the leader and is not shutting
\* down, whichever way the processes of the deployment shut down.
OneLeader == Cardinality({p \in Processes : pc[p] = "leader"}) <= 1

\* The lease implements a lock: the processes that count on it are its holders,
\* from winning the row to having released it.
Lock == INSTANCE LeaderLock WITH holders <- Holding

\* A process wins the lease only when no process counts on it any more, so that
\* leadership never passes from one process to the next in one step, and neither
\* a follower nor a release that comes late takes it from its holder.
ImplementsLock == Lock!Spec

\* After a worker's graceful shutdown no unexpired lease is left in its name,
\* so the next process to start takes over at once.
ReleasedOnExit ==
  \A p \in StopsFirst : pc[p] = "exited" /\ owner = IdOf[p] => left = 0

\* The lease of a process that is gone runs out, unless it comes back or the
\* lease changes hands: nobody else keeps it alive.
DeadLeaseExpires ==
  \A p \in Processes :
    (owner = IdOf[p] /\ pc[p] \in {"down", "exited"})
      ~> (left = 0 \/ owner # IdOf[p] \/ pc[p] \notin {"down", "exited"})

=============================================================================
