----------------------------- MODULE JobLedger -----------------------------
(***************************************************************************)
(* What the job queue promises about a job, with no list, hash or message: *)
(* an accepted job is taken by one worker at a time and at most Limit      *)
(* times, and once it is over nothing happens to it any more.  A worker    *)
(* that is lost while it holds a job takes the job with it: the job is     *)
(* held by nobody, and stays so.                                           *)
(***************************************************************************)
EXTENDS Naturals

CONSTANTS Jobs, Workers, Limit

VARIABLES
  phase,    \* of each job: "new", "open", "held" or "over"
  holders,  \* workers that execute the job
  taken     \* how often it was taken

ledger == <<phase, holders, taken>>

Init ==
  /\ phase = [j \in Jobs |-> "new"]
  /\ holders = [j \in Jobs |-> {}]
  /\ taken = [j \in Jobs |-> 0]

\* The job waits for a worker.
Accept(j) ==
  /\ phase[j] = "new"
  /\ phase' = [phase EXCEPT ![j] = "open"]
  /\ UNCHANGED <<holders, taken>>

\* A job that nobody executes is refused or dropped.
Withdraw(j) ==
  /\ phase[j] \in {"new", "open"}
  /\ holders[j] = {}
  /\ phase' = [phase EXCEPT ![j] = "over"]
  /\ UNCHANGED <<holders, taken>>

Take(w, j) ==
  /\ phase[j] = "open"
  /\ holders[j] = {}
  /\ taken[j] < Limit
  /\ phase' = [phase EXCEPT ![j] = "held"]
  /\ holders' = [holders EXCEPT ![j] = {w}]
  /\ taken' = [taken EXCEPT ![j] = @ + 1]

\* Its only holder gives the job back, ends it or is lost.
Leave(w, j, next) ==
  /\ phase[j] = "held"
  /\ holders[j] = {w}
  /\ phase' = [phase EXCEPT ![j] = next]
  /\ holders' = [holders EXCEPT ![j] = {}]
  /\ UNCHANGED taken

Next ==
  \E j \in Jobs :
    \/ Accept(j) \/ Withdraw(j)
    \/ \E w \in Workers : \/ Take(w, j)
                          \/ \E next \in {"open", "over", "held"} : Leave(w, j, next)

Spec == Init /\ [][Next]_ledger

=============================================================================
