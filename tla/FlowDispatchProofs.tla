------------------------- MODULE FlowDispatchProofs -------------------------
(***************************************************************************)
(* The counters of ResourceManager match the slots, exactly until          *)
(* something raises, and a node starts only below the limit.               *)
(***************************************************************************)
EXTENDS FlowDispatchQueues

-----------------------------------------------------------------------------
(* The counters match the slots *)

Hold(pc) == IF pc \in HoldingPcs THEN 1 ELSE 0

LEMMA HoldersFinite ==
  ASSUME NEW t
  PROVE  IsFiniteSet(Holders(t)) /\ Cardinality(Holders(t)) \in Nat
<1>1. IsFiniteSet(Units)
  BY Zenon, UnitsAssumption, FS_Union DEF Units
<1>2. IsFiniteSet(Holders(t))
  BY Zenon, <1>1, FS_Subset DEF Holders
<1> QED BY <1>2, FS_CardinalityType

\* A unit moves: the slots of its tenant change by its own.
LEMMA HoldersMove ==
  ASSUME TypeOK, NEW u \in Units, NEW pc \in Pcs, Goto(u, pc), NEW t \in Tenants
  PROVE  Cardinality(Holders(t)') = Cardinality(Holders(t))
                                    + (IF t = Tenant(u) THEN Hold(pc) - Hold(at[u]) ELSE 0)
<1>0. at \in [Units -> Pcs] /\ at' = [at EXCEPT ![u] = pc]
  BY DEF TypeOK, Goto
<1>1. IsFiniteSet(Holders(t)) /\ Cardinality(Holders(t)) \in Nat
  BY HoldersFinite
<1>2. Hold(pc) \in 0..1 /\ Hold(at[u]) \in 0..1
  BY DEF Hold
<1>3. CASE t # Tenant(u)
  <2>1. Holders(t)' = Holders(t)
    BY Zenon, <1>0, <1>3 DEF Holders, Tenant
  <2> QED BY <1>1, <1>3, <2>1
<1>4. CASE t = Tenant(u) /\ pc \in HoldingPcs
  <2>1. Holders(t)' = Holders(t) \union {u}
    BY <1>0, <1>4 DEF Holders, Tenant
  <2>2. u \in Holders(t) <=> at[u] \in HoldingPcs
    BY <1>4 DEF Holders, Tenant
  <2>3. Cardinality(Holders(t) \union {u})
          = IF u \in Holders(t) THEN Cardinality(Holders(t)) ELSE Cardinality(Holders(t)) + 1
    BY Zenon, <1>1, FS_AddElement
  <2> QED BY <1>1, <1>4, <2>1, <2>2, <2>3 DEF Hold
<1>5. CASE t = Tenant(u) /\ pc \notin HoldingPcs
  <2>1. Holders(t)' = Holders(t) \ {u}
    BY <1>0, <1>5 DEF Holders, Tenant
  <2>2. u \in Holders(t) <=> at[u] \in HoldingPcs
    BY <1>5 DEF Holders, Tenant
  <2>3. Cardinality(Holders(t) \ {u})
          = IF u \in Holders(t) THEN Cardinality(Holders(t)) - 1 ELSE Cardinality(Holders(t))
    BY Zenon, <1>1, FS_RemoveElement
  <2> QED BY <1>1, <1>5, <2>1, <2>2, <2>3 DEF Hold
<1> QED BY Zenon, <1>3, <1>4, <1>5

\* A unit moves, the counter changes by a and the lost slots by n.
LEMMA SlotsMove ==
  ASSUME TypeOK, SlotsCovered, NEW u \in Units, NEW pc \in Pcs, Goto(u, pc),
         NEW a \in Int, NEW n \in Nat,
         active' = Plus(active, Tenant(u), a), lost' = Plus(lost, Tenant(u), n),
         a <= Hold(pc) - Hold(at[u]), Hold(pc) - Hold(at[u]) <= a + n
  PROVE  SlotsCovered'
<1> SUFFICES ASSUME NEW t \in Tenants
             PROVE  /\ active'[t] <= Cardinality(Holders(t)')
                    /\ Cardinality(Holders(t)') <= active'[t] + lost'[t]
  BY Zenon DEF SlotsCovered
<1>1. /\ active \in [Tenants -> Int] /\ lost \in [Tenants -> Nat]
      /\ Cardinality(Holders(t)) \in Nat
  BY HoldersFinite DEF TypeOK
<1>2. /\ active[t] <= Cardinality(Holders(t))
      /\ Cardinality(Holders(t)) <= active[t] + lost[t]
  BY DEF SlotsCovered
<1>3. Cardinality(Holders(t)') = Cardinality(Holders(t))
                                 + (IF t = Tenant(u) THEN Hold(pc) - Hold(at[u]) ELSE 0)
  BY HoldersMove
<1>4. Hold(pc) \in 0..1 /\ Hold(at[u]) \in 0..1
  BY DEF Hold
<1>5. CASE t = Tenant(u)
  <2>1. active'[t] = active[t] + a /\ lost'[t] = lost[t] + n
    BY Zenon, <1>1, <1>5 DEF Plus
  <2> QED BY <1>1, <1>2, <1>3, <1>4, <1>5, <2>1
<1>6. CASE t # Tenant(u)
  <2>1. active'[t] = active[t] /\ lost'[t] = lost[t]
    BY Zenon, <1>1, <1>6 DEF Plus
  <2> QED BY <1>1, <1>2, <1>3, <1>6, <2>1
<1> QED BY Zenon, <1>5, <1>6

\* A unit keeps its slot, or keeps having none.
LEMMA SlotsKept ==
  ASSUME TypeOK, SlotsCovered, NEW u \in Units, NEW pc \in Pcs, Goto(u, pc),
         UNCHANGED <<active, lost>>, pc \in HoldingPcs <=> at[u] \in HoldingPcs
  PROVE  SlotsCovered'
<1>1. Hold(pc) - Hold(at[u]) = 0
  BY DEF Hold
<1>2. active' = Plus(active, Tenant(u), 0) /\ lost' = Plus(lost, Tenant(u), 0)
  BY DEF TypeOK, Plus
<1> QED BY <1>1, <1>2, SlotsMove

\* Nobody moves into or out of a slot, and the counters stay.
LEMMA SlotsFrame ==
  ASSUME SlotsCovered, UNCHANGED <<active, lost>>, \A t \in Tenants : Holders(t)' = Holders(t)
  PROVE  SlotsCovered'
BY Zenon DEF SlotsCovered

\* The units that the floor at zero forgets cover the counter it overwrites.
LEMMA FloorSum ==
  \A a \in Int, c \in Nat, l \in Nat :
     a <= c /\ c <= a + l => 0 <= c /\ c <= 0 + (l + IF a > 0 THEN a ELSE 0)
OBVIOUS

\* Steps of the runners, the requests and mark_completed.
LEMMA SlotsUnit ==
  ASSUME TypeOK, SlotsCovered, NEW u \in Units,
         \/ u \in Runs /\ (Start(u) \/ StartUncounted(u) \/ Event(u) \/ Runner(u))
         \/ Completion(u)
         \/ u \in Requests /\ (Admit(u) \/ Pipeline(u))
  PROVE  SlotsCovered'
<1>0. Tenant(u) \in Tenants /\ active \in [Tenants -> Int] /\ lost \in [Tenants -> Nat]
  BY Zenon, Constants DEF TypeOK
<1>h. /\ \A pc \in HoldingPcs : pc \in Pcs /\ Hold(pc) = 1
      /\ \A pc \in {"floor", "tell", "close", "new", "admitted", "done"} :
           pc \in Pcs /\ pc \notin HoldingPcs /\ Hold(pc) = 0
  BY Zenon DEF Pcs, RunnerPcs, HoldingPcs, Hold
<1>1. CASE Start(u) \/ Begin(u)
  <2>1. active' = Plus(active, Tenant(u), 1) /\ lost' = lost
    BY <1>1 DEF Start, Begin
  <2>2. lost' = Plus(lost, Tenant(u), 0)
    BY <1>0, <2>1 DEF Plus
  <2>3. \E pc \in HoldingPcs : Goto(u, pc)
    BY Zenon, <1>1 DEF Start, Begin, HoldingPcs
  <2>4. Hold(at[u]) = 0
    BY Zenon, <1>1, <1>h DEF Start, Begin, At
  <2> QED BY SMTT(40), <1>h, <2>1, <2>2, <2>3, <2>4, SlotsMove
<1>2. CASE StartUncounted(u) \/ FinalizeFails(u)
  <2>1. lost' = Plus(lost, Tenant(u), 1) /\ active' = active
    BY <1>2 DEF StartUncounted, FinalizeFails
  <2>2. active' = Plus(active, Tenant(u), 0)
    BY <1>0, <2>1 DEF Plus
  <2>3. \E pc \in HoldingPcs : Goto(u, pc)
    BY Zenon, <1>2 DEF StartUncounted, FinalizeFails, HoldingPcs
  <2>4. Hold(at[u]) = 0
    BY <1>2, <1>h DEF StartUncounted, FinalizeFails, At
  <2> QED BY SMTT(40), <1>h, <2>1, <2>2, <2>3, <2>4, SlotsMove
<1>3. CASE \/ Event(u) \/ CheckPass(u) \/ CheckRefused(u) \/ Park(u) \/ QuotaPass(u)
           \/ QuotaFails(u) \/ NextNode(u) \/ Wait(u) \/ Fail(u) \/ Succeed(u) \/ Handoff(u)
           \/ EnqueueResume(u) \/ ReadCount(u) \/ Serve(u)
  <2>1. UNCHANGED <<active, lost>>
    BY ZenonT(40), <1>3 DEF Event, CheckPass, CheckRefused, Park, QuotaPass, QuotaFails, NextNode, Wait,
       Fail, Succeed, Handoff, EnqueueResume, ReadCount, Serve, counters
  <2>2. at[u] \in HoldingPcs
    BY ZenonT(40), <1>3 DEF Event, CheckPass, CheckRefused, Park, QuotaPass, QuotaFails, NextNode, Wait,
       Fail, Succeed, Handoff, EnqueueResume, ReadCount, Serve, At, HoldingPcs
  <2>3. \E pc \in HoldingPcs : Goto(u, pc)
    BY <1>3 DEF Event, CheckPass, CheckRefused, Park, QuotaPass, QuotaFails, NextNode, Wait,
       Fail, Succeed, Handoff, EnqueueResume, ReadCount, Serve, HoldingPcs
  <2> QED BY Zenon, <1>h, <2>1, <2>2, <2>3, SlotsKept
<1>4. CASE Close(u) \/ Admit(u)
  <2>1. UNCHANGED <<active, lost>>
    BY Zenon, <1>4 DEF Close, Admit, counters
  <2>2. at[u] \notin HoldingPcs /\ \E pc \in Pcs \ HoldingPcs : Goto(u, pc)
    BY <1>4, <1>h DEF Close, Admit, At
  <2> QED BY <2>1, <2>2, SlotsKept
<1>5. CASE RunnerRaises(u)
  <2>1. UNCHANGED <<active, lost>>
    BY <1>5 DEF RunnerRaises, counters
  <2>2. CASE at[u] = "close"
    <3>1. Goto(u, "done") /\ "done" \in Pcs \ HoldingPcs /\ "close" \notin HoldingPcs
      BY Zenon, <1>5, <1>h, <2>2 DEF RunnerRaises, At
    <3> QED BY Zenon, <2>1, <2>2, <3>1, SlotsKept
  <2>3. CASE at[u] # "close"
    <3>1. Goto(u, "leaked") /\ "leaked" \in Pcs /\ "leaked" \in HoldingPcs
      BY Zenon, <1>5, <1>h, <2>3 DEF RunnerRaises, At, HoldingPcs
    <3>2. at[u] \in HoldingPcs
      BY <1>5, <2>3 DEF RunnerRaises, MayRaise, HoldingPcs
    <3> QED BY Zenon, <2>1, <3>1, <3>2, SlotsKept
  <2> QED BY Zenon, <2>2, <2>3
<1>6. After(u) \in Pcs /\ After(u) \notin HoldingPcs /\ Hold(After(u)) = 0
  BY <1>h DEF After
<1>7. CASE Decr(u)
  <2>1. active' = Plus(active, Tenant(u), -1) /\ lost' = lost
    BY Zenon, <1>0, <1>7 DEF Decr, Plus
  <2>2. lost' = Plus(lost, Tenant(u), 0)
    BY <1>0, <2>1 DEF Plus
  <2>3. Goto(u, "floor") \/ Goto(u, "tell") \/ Goto(u, After(u))
    BY <1>7 DEF Decr
  <2>4. \E pc \in Pcs : Goto(u, pc) /\ Hold(pc) = 0
    BY <1>6, <1>h, <2>3
  <2>5. Hold(at[u]) = 1
    BY Zenon, <1>7, <1>h DEF Decr, At, HoldingPcs
  <2> QED BY <2>1, <2>2, <2>4, <2>5, SlotsMove
<1>8. CASE Floor(u)
  <2> DEFINE n == IF active[Tenant(u)] > 0 THEN active[Tenant(u)] ELSE 0
  <2>1. active' = [active EXCEPT ![Tenant(u)] = 0] /\ lost' = Plus(lost, Tenant(u), n)
    BY <1>8 DEF Floor
  <2>2. at[u] = "floor" /\ (Goto(u, "tell") \/ Goto(u, After(u)))
    BY Zenon, <1>8 DEF Floor, At
  <2>3. PICK pc \in Pcs : Goto(u, pc) /\ Hold(pc) = 0
    BY Zenon, <1>6, <1>h, <2>2
  <2>4. Hold(at[u]) = 0
    BY Zenon, <1>h, <2>2
  <2> SUFFICES ASSUME NEW t \in Tenants
               PROVE  /\ active'[t] <= Cardinality(Holders(t)')
                      /\ Cardinality(Holders(t)') <= active'[t] + lost'[t]
    BY DEF SlotsCovered
  <2>5. Cardinality(Holders(t)) \in Nat /\ active[t] \in Int /\ lost[t] \in Nat
    BY Zenon, <1>0, HoldersFinite
  <2>6. /\ active[t] <= Cardinality(Holders(t))
        /\ Cardinality(Holders(t)) <= active[t] + lost[t]
    BY Zenon DEF SlotsCovered
  <2>7. Cardinality(Holders(t)') = Cardinality(Holders(t))
    <3>1. Cardinality(Holders(t)') = Cardinality(Holders(t))
                                     + (IF t = Tenant(u) THEN Hold(pc) - Hold(at[u]) ELSE 0)
      BY Zenon, <2>3, HoldersMove
    <3> QED BY SMTT(40), <2>3, <2>4, <2>5, <3>1
  <2>8. CASE t = Tenant(u)
    <3>1. active'[t] = 0 /\ lost'[t] = lost[t] + n
      BY Zenon, <1>0, <2>1, <2>8 DEF Plus
    <3>2. 0 <= Cardinality(Holders(t)) /\ Cardinality(Holders(t)) <= 0 + (lost[t] + n)
      BY Zenon, <2>5, <2>6, <2>8, FloorSum
    <3> QED BY Zenon, <2>7, <3>1, <3>2
  <2>9. CASE t # Tenant(u)
    <3>1. active'[t] = active[t] /\ lost'[t] = lost[t]
      BY Zenon, <1>0, <2>1, <2>9 DEF Plus
    <3> QED BY Zenon, <2>5, <2>6, <2>7, <3>1
  <2> QED BY Zenon, <2>8, <2>9
<1>9. CASE Tell(u)
  <2>1. \A v \in Units : at'[v] \in HoldingPcs <=> at[v] \in HoldingPcs
    <3>1. SUFFICES ASSUME NEW v \in Units
                   PROVE at'[v] \in HoldingPcs <=> at[v] \in HoldingPcs
      BY Zenon
    <3>2. CASE v = u
      <4>1. at'[v] = After(u) /\ at[v] = "tell"
        BY Zenon, <1>9, <3>2 DEF Tell, At
      <4> QED BY <1>6, <1>h, <4>1
    <3>3. CASE v # u
      <4>1. at'[v] = at[v] \/ (at[v] = "parked" /\ at'[v] = "waking")
        BY <1>9, <3>3 DEF Tell
      <4> QED BY <4>1 DEF HoldingPcs
    <3> QED BY <3>2, <3>3
  <2>2. UNCHANGED <<active, lost>>
    BY Zenon, <1>9 DEF Tell, counters
  <2>3. \A t \in Tenants : Holders(t)' = Holders(t)
    BY <2>1 DEF Holders
  <2> QED BY Zenon, <2>2, <2>3, SlotsFrame
<1> QED
  BY Zenon, <1>1, <1>2, <1>3, <1>4, <1>5, <1>7, <1>8, <1>9 DEF Runner, Completion, Pipeline

\* Steps of the scheduler: a run is dispatched with the slot it waited with.
LEMMA SlotsScheduler ==
  ASSUME TypeOK, HasItem, QueuedOnce, SlotsCovered, Scheduler
  PROVE  SlotsCovered'
<1> DEFINE x == sched.item
<1>0. sched \in Scheds /\ active \in [Tenants -> Int] /\ lost \in [Tenants -> Nat]
  BY DEF TypeOK
<1>h. /\ "check" \in Pcs /\ "queued" \in Pcs /\ "leaked" \in Pcs /\ "done" \in Pcs
      /\ "check" \in HoldingPcs /\ "queued" \in HoldingPcs /\ "leaked" \in HoldingPcs
      /\ "exec" \in HoldingPcs /\ "done" \notin HoldingPcs /\ "close" \notin HoldingPcs
  BY DEF Pcs, RunnerPcs, HoldingPcs
<1>q. ASSUME sched.pc = "have", x \in Runs
      PROVE  at[x] = "queued"
  <2>1. InHand(x) = 1
    BY <1>q DEF InHand
  <2>2. Held(x) >= 1
    BY <1>q, <2>1, HeldParts
  <2>3. Held(x) = IF at[x] = "queued" THEN 1 ELSE 0
    BY <1>q DEF QueuedOnce
  <2> QED BY <2>2, <2>3
<1>1. CASE Cycle \/ Dequeue \/ Skip \/ Defer \/ Return \/ LoopEnd \/ Flush \/ CycleEnd
  <2>1. UNCHANGED <<at, active, lost>>
    BY Zenon, <1>1 DEF Cycle, Dequeue, Skip, Defer, Return, LoopEnd, Flush, CycleEnd, counters
  <2> QED BY <2>1, SlotsFrame DEF Holders
<1>2. CASE Dispatch
  <2>1. sched.pc = "have" /\ x \in Runs
    BY <1>2 DEF Dispatch, HasItem
  <2>2. Goto(x, "check") /\ UNCHANGED <<active, lost>>
    BY <1>2 DEF Dispatch, counters
  <2> QED BY <1>h, <1>q, <2>1, <2>2, SlotsKept, Constants
<1>3. CASE DispatchRetried \/ DispatchDropped
  <2>1. x \in Runs /\ x \in Units
    BY Zenon, <1>0, <1>3, SchedFields, Constants DEF DispatchRetried, DispatchDropped
  <2>2. at[x] = "close" \/ at[x] \in HoldingPcs
    <3>1. sched.pc = "have" \/ MayRaise(x)
      BY <1>3 DEF DispatchRetried, DispatchDropped, Raised
    <3> QED BY <1>h, <1>q, <2>1, <3>1 DEF MayRaise
  <2>3. CASE DispatchDropped /\ at[x] = "close"
    <3>1. Goto(x, "done") /\ UNCHANGED <<active, lost>>
      BY Zenon, <2>3 DEF DispatchDropped, At, counters
    <3> QED BY Zenon, <1>h, <2>1, <2>3, <3>1, SlotsKept
  <2>4. CASE DispatchDropped /\ at[x] # "close"
    <3>1. Goto(x, "leaked") /\ UNCHANGED <<active, lost>>
      BY Zenon, <2>4 DEF DispatchDropped, At, counters
    <3> QED BY Zenon, <1>h, <2>1, <2>2, <2>4, <3>1, SlotsKept
  <2>5. CASE DispatchRetried /\ at[x] # "close"
    <3>1. Goto(x, "queued") /\ UNCHANGED <<active, lost>>
      BY Zenon, <2>5 DEF DispatchRetried, At
    <3> QED BY <1>h, <2>1, <2>2, <2>5, <3>1, SlotsKept
  <2>6. CASE DispatchRetried /\ at[x] = "close"
    <3>1. Goto(x, "queued") /\ active' = active /\ lost' = Plus(lost, Tenant(x), 1)
      BY <2>6 DEF DispatchRetried, At
    <3>2. active' = Plus(active, Tenant(x), 0)
      BY <1>0, <3>1 DEF Plus
    <3>3. Hold("queued") = 1 /\ Hold(at[x]) = 0
      BY <1>h, <2>6 DEF Hold
    <3> QED BY <1>h, <2>1, <3>1, <3>2, <3>3, SlotsMove
  <2> QED BY <1>3, <2>3, <2>4, <2>5, <2>6
<1> QED BY Zenon, <1>1, <1>2, <1>3 DEF Scheduler

-----------------------------------------------------------------------------
(* The theorems *)

\* The inductive invariant: SlotsCovered needs QueuesInv, for an item in the
\* tick's hands is a run that is queued and holds a slot.
DispatchInv == QueuesInv /\ SlotsCovered

LEMMA DispatchInit == Init => DispatchInv
<1> SUFFICES ASSUME Init PROVE DispatchInv
  OBVIOUS
<1>1. QueuesInv
  BY Zenon, QueuesInit
<1>2. SlotsCovered
  <2> SUFFICES ASSUME NEW t \in Tenants
               PROVE  /\ active[t] <= Cardinality(Holders(t))
                      /\ Cardinality(Holders(t)) <= active[t] + lost[t]
    BY DEF SlotsCovered
  <2>1. Holders(t) = {}
    BY Zenon DEF Init, Holders, HoldingPcs
  <2>2. Cardinality(Holders(t)) = 0 /\ active[t] = 0 /\ lost[t] = 0
    BY <2>1, FS_EmptySet DEF Init
  <2> QED BY <2>2
<1> QED BY Zenon, <1>1, <1>2 DEF DispatchInv

LEMMA DispatchStep == DispatchInv /\ [Next]_vars => DispatchInv'
<1> SUFFICES ASSUME DispatchInv, [Next]_vars PROVE DispatchInv'
  OBVIOUS
<1>0. TypeOK /\ HasItem /\ QueuedOnce /\ SlotsCovered
  BY Zenon DEF DispatchInv, QueuesInv
<1>1. QueuesInv'
  BY Zenon, QueuesStep DEF DispatchInv
<1>2. SlotsCovered'
  <2>1. CASE UNCHANGED vars
    BY <1>0, <2>1, SlotsFrame DEF vars, counters, Holders
  <2>2. CASE Scheduler
    BY Zenon, <1>0, <2>2, SlotsScheduler
  <2>3. ASSUME NEW u \in Units,
               \/ u \in Runs /\ (Start(u) \/ StartUncounted(u) \/ Event(u) \/ Runner(u))
               \/ Completion(u)
               \/ u \in Requests /\ (Admit(u) \/ Pipeline(u))
        PROVE  SlotsCovered'
    BY Zenon, <1>0, <2>3, SlotsUnit
  <2> QED BY Zenon, <2>1, <2>2, <2>3, Constants DEF Next
<1> QED BY Zenon, <1>1, <1>2 DEF DispatchInv

\* A run begins a node only by passing check_quota.
LEMMA StartsByQuota ==
  ASSUME TypeOK, HasItem, [Next]_vars, NEW r \in Runs, Starts(r)
  PROVE  QuotaPass(r)
<1>0. at \in [Units -> Pcs] /\ r \in Units /\ at[r] # "exec" /\ at'[r] = "exec"
  BY Constants DEF TypeOK, Starts
<1>1. CASE UNCHANGED vars
  BY <1>0, <1>1 DEF vars
<1>2. CASE Scheduler
  <2>1. at' # at
    BY <1>0
  <2>2. Dispatch \/ DispatchRetried \/ DispatchDropped
    BY <1>2, <2>1 DEF Scheduler, Cycle, Dequeue, Skip, Defer, Return, LoopEnd, Flush, CycleEnd
  <2>3. \E pc \in {"check", "queued", "done", "leaked"} : Goto(sched.item, pc)
    BY <2>2 DEF Dispatch, DispatchRetried, DispatchDropped
  <2> QED BY <1>0, <2>3 DEF Goto
<1>3. ASSUME NEW u \in Units,
             \/ u \in Runs /\ (Start(u) \/ StartUncounted(u) \/ Event(u) \/ Runner(u))
             \/ Completion(u)
             \/ u \in Requests /\ (Admit(u) \/ Pipeline(u))
      PROVE  QuotaPass(r)
  <2>1. CASE u \in Runs /\ QuotaPass(u)
    <3>1. at' = [at EXCEPT ![u] = "exec"]
      BY <2>1 DEF QuotaPass, Goto
    <3>2. u = r
      BY <1>0, <3>1
    <3> QED BY <2>1, <3>2
  <2>2. CASE Tell(u)
    BY <1>0, <2>2 DEF Tell, After
  <2>3. CASE ~(u \in Runs /\ QuotaPass(u)) /\ ~Tell(u)
    <3>1. \E pc \in Pcs \ {"exec"} : Goto(u, pc)
      BY Zenon, <1>3, <2>3 DEF Start, StartUncounted, Event, Runner, Completion, Admit, Pipeline,
         CheckPass, CheckRefused, Park, QuotaFails, NextNode, Wait, Fail, Succeed,
         Handoff, Close, FinalizeFails, RunnerRaises, EnqueueResume, ReadCount, Decr, Floor,
         Begin, Serve, After, Pcs, HoldingPcs, RunnerPcs
    <3> QED BY Zenon, <1>0, <3>1 DEF Goto
  <2> QED BY <2>1, <2>2, <2>3
<1> QED BY Zenon, <1>1, <1>2, <1>3, Constants DEF Next

\* A node that starts finds a slot to spare.
LEMMA StartBelowLimit ==
  ASSUME DispatchInv, [Next]_vars, NEW r \in Runs \ untracked, Starts(r)
  PROVE  Cardinality(Holders(Tenant(r))) < Max + lost[Tenant(r)]
<1> DEFINE t == Tenant(r)
<1>1. t \in Tenants
  BY Zenon, Constants
<1>2. /\ Cardinality(Holders(t)) <= active[t] + lost[t] /\ active[t] \in Int
      /\ lost[t] \in Nat /\ Cardinality(Holders(t)) \in Nat
  BY <1>1, HoldersFinite DEF DispatchInv, QueuesInv, SlotsCovered, TypeOK
<1>3. QuotaPass(r)
  BY StartsByQuota DEF DispatchInv, QueuesInv
<1>4. active[t] < Max
  BY <1>3 DEF QuotaPass, CanExecute
<1> QED BY SMTT(40), <1>2, <1>4, LimitsAssumption

\* Tracked runs of a tenant inside a node.
Executing(t) == {r \in Runs \ untracked : TenantOf[r] = t /\ at[r] = "exec"}

\* Fewer nodes than the limit are executed at a time, but for lost slots.
NodesBelowLimit == \A t \in Tenants : Cardinality(Executing(t)) < Max + lost[t]

LEMMA NodesStep == DispatchInv /\ NodesBelowLimit /\ [Next]_vars => NodesBelowLimit'
<1> SUFFICES ASSUME DispatchInv, NodesBelowLimit, [Next]_vars, NEW t \in Tenants
             PROVE  Cardinality(Executing(t)') < Max + lost'[t]
  BY DEF NodesBelowLimit
<1>0. TypeOK /\ TypeOK'
  BY DispatchStep DEF DispatchInv, QueuesInv
<1>1. lost[t] \in Nat /\ lost'[t] \in Nat /\ lost[t] <= lost'[t]
  <2>1. lost \in [Tenants -> Nat] /\ lost' \in [Tenants -> Nat]
    BY Zenon, <1>0 DEF TypeOK
  <2>2. lost' = lost \/ \E v \in Tenants, n \in Nat : lost' = Plus(lost, v, n)
    <3>1. CASE UNCHANGED vars
      BY Zenon, <3>1 DEF vars, counters
    <3>2. CASE Scheduler
      <4>1. lost' = lost \/ (sched.item \in Runs /\ lost' = Plus(lost, Tenant(sched.item), 1))
        <5>1. CASE DispatchRetried
          <6>1. sched.item \in Runs
            BY Zenon, <1>0, <5>1, SchedFields DEF DispatchRetried, TypeOK
          <6> QED BY Zenon, <5>1, <6>1 DEF DispatchRetried
        <5>2. CASE ~DispatchRetried
          BY Zenon, <3>2, <5>2 DEF Scheduler, Cycle, Dequeue, Skip, Defer, Dispatch, Return,
             DispatchDropped, LoopEnd, Flush, CycleEnd, counters
        <5> QED BY <5>1, <5>2
      <4> QED BY Zenon, <4>1, Constants
    <3>3. ASSUME NEW u \in Units,
                 \/ u \in Runs /\ (Start(u) \/ StartUncounted(u) \/ Event(u) \/ Runner(u))
                 \/ Completion(u)
                 \/ u \in Requests /\ (Admit(u) \/ Pipeline(u))
          PROVE  lost' = lost \/ \E v \in Tenants, n \in Nat : lost' = Plus(lost, v, n)
      <4>1. Tenant(u) \in Tenants /\ active[Tenant(u)] \in Int
        BY Zenon, <1>0, Constants DEF TypeOK
      <4>2. CASE StartUncounted(u) \/ FinalizeFails(u)
        <5>1. lost' = Plus(lost, Tenant(u), 1)
          BY Zenon, <4>2 DEF StartUncounted, FinalizeFails
        <5> QED BY Zenon, <4>1, <5>1
      <4>3. CASE Floor(u)
        <5> DEFINE n == IF active[Tenant(u)] > 0 THEN active[Tenant(u)] ELSE 0
        <5>1. lost' = Plus(lost, Tenant(u), n)
          BY <4>3 DEF Floor
        <5>2. n \in Nat
          BY <4>1
        <5> QED BY Zenon, <4>1, <5>1, <5>2
      <4>4. CASE ~(StartUncounted(u) \/ FinalizeFails(u) \/ Floor(u))
        BY Zenon, <3>3, <4>4 DEF Start, Event, Runner, Completion, Admit, Pipeline, CheckPass,
           CheckRefused, Park, QuotaPass, QuotaFails, NextNode, Wait, Fail, Succeed, Handoff,
           Close, RunnerRaises, EnqueueResume, ReadCount, Decr, Tell, Begin, Serve, counters
      <4> QED BY Zenon, <4>2, <4>3, <4>4
    <3> QED BY Zenon, <3>1, <3>2, <3>3, Constants DEF Next
  <2> QED BY <2>1, <2>2 DEF Plus
<1>2. IsFiniteSet(Executing(t)) /\ IsFiniteSet(Holders(t))
  <2>1. IsFiniteSet(Executing(t))
    BY UnitsAssumption, FS_Subset DEF Executing
  <2> QED BY Zenon, <2>1, HoldersFinite
<1>3. untracked \subseteq untracked'
  <2>1. untracked' = untracked \/ \E r : untracked' = untracked \union {r}
    BY Zenon DEF Next, vars, rows, Scheduler, Cycle, Dequeue, Skip, Defer, Dispatch, Return,
       DispatchRetried, DispatchDropped, LoopEnd, Flush, CycleEnd, Start, StartUncounted,
       Event, Runner, Completion, Admit, Pipeline, CheckPass, CheckRefused, Park, QuotaPass,
       QuotaFails, NextNode, Wait, Fail, Succeed, Handoff, Close, FinalizeFails, RunnerRaises,
       EnqueueResume, ReadCount, Decr, Floor, Tell, Begin, Serve
  <2> QED BY Zenon, <2>1
<1>4. CASE \E r \in Runs \ untracked : Tenant(r) = t /\ Starts(r)
  <2>1. PICK r \in Runs \ untracked : Tenant(r) = t /\ Starts(r)
    BY <1>4
  <2>2. Cardinality(Holders(t)) < Max + lost[t]
    BY <2>1, StartBelowLimit
  <2>3. QuotaPass(r)
    BY Zenon, <2>1, StartsByQuota DEF DispatchInv, QueuesInv
  <2>4. Executing(t)' \subseteq Holders(t)
    <3>1. at[r] \in HoldingPcs /\ at' = [at EXCEPT ![r] = "exec"] /\ at \in [Units -> Pcs]
      BY <1>0, <2>3 DEF QuotaPass, At, Goto, TypeOK, HoldingPcs
    <3> QED BY Zenon, <3>1, Constants DEF Executing, Holders, HoldingPcs
  <2>5. Cardinality(Executing(t)') <= Cardinality(Holders(t))
    BY Zenon, <1>2, <2>4, FS_Subset
  <2>6. Cardinality(Executing(t)') \in Nat /\ Cardinality(Holders(t)) \in Nat
    BY Zenon, <1>2, <2>4, FS_Subset, FS_CardinalityType
  <2> QED BY SMTT(40), <1>1, <2>2, <2>5, <2>6, LimitsAssumption
<1>5. CASE ~\E r \in Runs \ untracked : Tenant(r) = t /\ Starts(r)
  <2>1. Executing(t)' \subseteq Executing(t)
    BY <1>3, <1>5 DEF Executing, Starts, Tenant
  <2>2. Cardinality(Executing(t)') <= Cardinality(Executing(t))
    BY Zenon, <1>2, <2>1, FS_Subset
  <2>3. Cardinality(Executing(t)') \in Nat /\ Cardinality(Executing(t)) \in Nat
    BY <1>2, <2>1, FS_Subset, FS_CardinalityType
  <2>4. Cardinality(Executing(t)) < Max + lost[t]
    BY DEF NodesBelowLimit
  <2> QED BY SMTT(40), <1>1, <2>2, <2>3, <2>4, LimitsAssumption
<1> QED BY Zenon, <1>4, <1>5

LEMMA DispatchInvariant == Spec => []DispatchInv
BY DispatchInit, DispatchStep, PTL DEF Spec

\* A node is started only while fewer than MAX_CONCURRENT_PER_TENANT slots of its
\* tenant are held, but for lost ones.
THEOREM NodesNeedSlots == Spec => NodeNeedsSlot
<1>1. DispatchInv /\ [Next]_vars
        => [\A r \in Runs \ untracked :
              Starts(r) => Cardinality(Holders(Tenant(r))) < Max + lost[Tenant(r)]]_vars
  BY StartBelowLimit
<1> QED BY <1>1, DispatchInvariant, PTL DEF Spec, NodeNeedsSlot

\* At no time are MAX_CONCURRENT_PER_TENANT or more nodes of a tenant's tracked
\* runs executed, however runs, requests and ticks interleave, but for lost slots.
THEOREM NodesBounded == Spec => []NodesBelowLimit
<1>1. Init => NodesBelowLimit
  <2> SUFFICES ASSUME Init, NEW t \in Tenants
               PROVE  Cardinality(Executing(t)) < Max + lost[t]
    BY Zenon DEF NodesBelowLimit
  <2>1. Executing(t) = {}
    BY Zenon, Constants DEF Init, Executing
  <2>2. Cardinality(Executing(t)) = 0 /\ lost[t] = 0
    BY <2>1, FS_EmptySet DEF Init
  <2> QED BY <2>2, LimitsAssumption
<1> QED BY <1>1, NodesStep, DispatchInvariant, PTL DEF Spec

-----------------------------------------------------------------------------
(* Without a fault the counters are exact *)

\* What CountsExact needs to be inductive: no slot is lost and no counter has
\* fallen below zero, and every run that executes has its snapshot.
NoLoss ==
  faults = 0 =>
    /\ \A t \in Tenants : lost[t] = 0
    /\ \A u \in Units : at[u] # "floor"
    /\ untracked = {}

\* Faults are only counted up.
LEMMA FaultsGrow ==
  ASSUME TypeOK, [Next]_vars
  PROVE  faults' = faults \/ Fault
BY Zenon DEF Next, vars, Scheduler, Cycle, Dequeue, Skip, Defer, Dispatch, Return,
   DispatchRetried, DispatchDropped, LoopEnd, Flush, CycleEnd, Start, StartUncounted,
   Event, Runner, Completion, Admit, Pipeline, CheckPass, CheckRefused, Park, QuotaPass,
   QuotaFails, NextNode, Wait, Fail, Succeed, Handoff, Close, FinalizeFails, RunnerRaises,
   EnqueueResume, ReadCount, Decr, Floor, Tell, Begin, Serve

\* A unit that holds a slot is counted while no slot is lost.
LEMMA HolderCounted ==
  ASSUME TypeOK, SlotsCovered, NEW u \in Units, at[u] \in HoldingPcs, lost[Tenant(u)] = 0
  PROVE  active[Tenant(u)] \in Int /\ active[Tenant(u)] >= 1
<1> DEFINE t == Tenant(u)
<1>1. t \in Tenants /\ active[t] \in Int
  BY Zenon, Constants DEF TypeOK
<1>2. u \in Holders(t)
  BY Zenon DEF Holders, Tenant
<1>3. IsFiniteSet(Holders(t)) /\ Cardinality(Holders(t)) \in Nat
  BY HoldersFinite
<1>4. Cardinality(Holders(t)) # 0
  BY Zenon, <1>2, <1>3, FS_EmptySet
<1>5. Cardinality(Holders(t)) <= active[t] + lost[t]
  BY Zenon, <1>1 DEF SlotsCovered
<1> QED BY <1>1, <1>3, <1>4, <1>5

LEMMA NoLossStep == DispatchInv /\ NoLoss /\ [Next]_vars => NoLoss'
<1> SUFFICES ASSUME DispatchInv, NoLoss, [Next]_vars, faults' = 0
             PROVE  /\ \A t \in Tenants : lost'[t] = 0
                    /\ \A u \in Units : at'[u] # "floor"
                    /\ untracked' = {}
  BY Zenon DEF NoLoss
<1>0. TypeOK /\ SlotsCovered /\ at \in [Units -> Pcs]
  BY Zenon DEF DispatchInv, QueuesInv, TypeOK
<1>1. ~Fault
  BY <1>0 DEF Fault, TypeOK
<1>2. faults = 0
  BY Zenon, <1>0, <1>1, FaultsGrow
<1>3. /\ \A t \in Tenants : lost[t] = 0
      /\ \A u \in Units : at[u] # "floor"
      /\ untracked = {}
  BY Zenon, <1>2 DEF NoLoss
<1>4. CASE UNCHANGED vars
  BY Zenon, <1>3, <1>4 DEF vars, counters, rows
<1>5. CASE Scheduler
  <2>1. UNCHANGED <<lost, untracked>>
    BY Zenon, <1>1, <1>5 DEF Scheduler, Cycle, Dequeue, Skip, Defer, Dispatch, Return,
       DispatchRetried, DispatchDropped, LoopEnd, Flush, CycleEnd, counters, rows
  <2>2. at' = at \/ Goto(sched.item, "check")
    BY Zenon, <1>1, <1>5 DEF Scheduler, Cycle, Dequeue, Skip, Defer, Dispatch, Return,
       DispatchRetried, DispatchDropped, LoopEnd, Flush, CycleEnd
  <2>3. \A u \in Units : at'[u] # "floor"
    BY <1>0, <1>3, <2>2 DEF Goto
  <2> QED BY Zenon, <1>3, <2>1, <2>3
<1>6. ASSUME NEW u \in Units,
             \/ u \in Runs /\ (Start(u) \/ StartUncounted(u) \/ Event(u) \/ Runner(u))
             \/ Completion(u)
             \/ u \in Requests /\ (Admit(u) \/ Pipeline(u))
      PROVE  /\ \A t \in Tenants : lost'[t] = 0
             /\ \A v \in Units : at'[v] # "floor"
             /\ untracked' = {}
  <2>1. ~Floor(u)
    BY Zenon, <1>3 DEF Floor, At
  <2>2. UNCHANGED <<lost, untracked>>
    BY Zenon, <1>1, <1>6, <2>1 DEF Start, StartUncounted, Event, Runner, Completion, Admit,
       Pipeline, CheckPass, CheckRefused, Park, QuotaPass, QuotaFails, NextNode, Wait, Fail,
       Succeed, Handoff, Close, FinalizeFails, RunnerRaises, EnqueueResume, ReadCount, Decr,
       Tell, Begin, Serve, counters, rows
  <2>3. \A v \in Units : at'[v] # "floor"
    <3>1. CASE Tell(u)
      BY Zenon, <1>3, <3>1 DEF Tell, After
    <3>2. CASE Decr(u)
      <4>1. at[u] \in HoldingPcs /\ lost[Tenant(u)] = 0
        BY Zenon, <1>3, <3>2, Constants DEF Decr, At, HoldingPcs
      <4>2. active[Tenant(u)] \in Int /\ active[Tenant(u)] >= 1
        BY Zenon, <1>0, <4>1, HolderCounted
      <4>3. \E pc \in {"tell", "new", "close"} : Goto(u, pc)
        BY <3>2, <4>2 DEF Decr, After
      <4> QED BY <1>0, <1>3, <4>3 DEF Goto
    <3>3. CASE ~Tell(u) /\ ~Decr(u)
      <4>1. \E pc \in Pcs \ {"floor"} : Goto(u, pc)
        BY Zenon, <1>6, <2>1, <3>3 DEF Start, StartUncounted, Event, Runner, Completion,
           Admit, Pipeline, CheckPass, CheckRefused, Park, QuotaPass, QuotaFails, NextNode,
           Wait, Fail, Succeed, Handoff, Close, FinalizeFails, RunnerRaises, EnqueueResume,
           ReadCount, Begin, Serve, Pcs, HoldingPcs, RunnerPcs
      <4> QED BY Zenon, <1>0, <1>3, <4>1 DEF Goto
    <3> QED BY Zenon, <3>1, <3>2, <3>3
  <2> QED BY Zenon, <1>3, <2>2, <2>3
<1> QED BY Zenon, <1>4, <1>5, <1>6, Constants DEF Next

LEMMA NoLossInvariant == Spec => []NoLoss
<1>1. Init => NoLoss
  BY Zenon DEF Init, NoLoss
<1> QED BY <1>1, NoLossStep, DispatchInvariant, PTL DEF Spec

\* Whatever the deployment's tenants, runs, requests, limits and faults: the counter
\* of a tenant never exceeds the slots its runs and requests hold, falls short of them
\* only by slots that were given back twice or erased by an underflow reset, and is
\* exact until a database or pool operation raises.
THEOREM CountersMatchSlots == Spec => []SlotsMatch
<1>1. DispatchInv /\ NoLoss => CountsExact
  <2> SUFFICES ASSUME DispatchInv, NoLoss, faults = 0, NEW t \in Tenants
               PROVE  active[t] = Cardinality(Holders(t))
    BY Zenon DEF CountsExact
  <2>1. /\ active[t] \in Int /\ Cardinality(Holders(t)) \in Nat
        /\ active[t] <= Cardinality(Holders(t))
        /\ Cardinality(Holders(t)) <= active[t] + lost[t]
    BY HoldersFinite DEF DispatchInv, QueuesInv, TypeOK, SlotsCovered
  <2>2. lost[t] = 0
    BY Zenon DEF NoLoss
  <2> QED BY <2>1, <2>2
<1>2. DispatchInv /\ NoLoss => SlotsMatch
  BY Zenon, <1>1 DEF DispatchInv, SlotsMatch
<1> QED BY <1>2, DispatchInvariant, NoLossInvariant, PTL

\* Until a database or pool operation raises, every tenant executes fewer nodes at
\* a time than MAX_CONCURRENT_PER_TENANT.
THEOREM NodesBoundedExactly ==
  Spec => [](faults = 0 =>
               \A t \in Tenants :
                 Cardinality({r \in Runs : TenantOf[r] = t /\ at[r] = "exec"}) < Max)
<1>1. NodesBelowLimit /\ NoLoss /\ faults = 0 =>
        \A t \in Tenants :
          Cardinality({r \in Runs : TenantOf[r] = t /\ at[r] = "exec"}) < Max
  <2> SUFFICES ASSUME NodesBelowLimit, NoLoss, faults = 0, NEW t \in Tenants
               PROVE  Cardinality({r \in Runs : TenantOf[r] = t /\ at[r] = "exec"}) < Max
    OBVIOUS
  <2>1. lost[t] = 0 /\ untracked = {}
    BY Zenon DEF NoLoss
  <2>2. Executing(t) = {r \in Runs : TenantOf[r] = t /\ at[r] = "exec"}
    BY Zenon, <2>1 DEF Executing
  <2>3. Cardinality(Executing(t)) < Max + lost[t]
    BY Zenon DEF NodesBelowLimit
  <2>4. Max + lost[t] = Max
    BY <2>1, LimitsAssumption
  <2> QED BY Zenon, <2>2, <2>3, <2>4
<1> QED BY <1>1, NodesBounded, NoLossInvariant, PTL

=============================================================================
