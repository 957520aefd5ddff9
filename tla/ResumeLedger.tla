---------------------------- MODULE ResumeLedger ----------------------------
(***************************************************************************)
(* What WAIT/RESUME promises about a flow run, with no mechanism: a run    *)
(* opens a wait, and whoever resumes the run consumes that open wait.  No  *)
(* resume is granted without an open wait to pay for it.                   *)
(***************************************************************************)
EXTENDS Naturals

CONSTANT Runs

VARIABLES
  open,    \* 1 while the run has an unconsumed wait, else 0
  waits,   \* waits the run has opened
  claims   \* resumes granted

ledger == <<open, waits, claims>>

Init ==
  /\ open \in [Runs -> {0, 1}]
  /\ waits = open
  /\ claims = [r \in Runs |-> 0]

\* The run opens a new wait (in place of one still open, if there is one).
Post(r) ==
  /\ open' = [open EXCEPT ![r] = 1]
  /\ waits' = [waits EXCEPT ![r] = @ + 1]
  /\ UNCHANGED claims

\* A resume consumes the open wait.
Claim(r) ==
  /\ open[r] = 1
  /\ open' = [open EXCEPT ![r] = 0]
  /\ claims' = [claims EXCEPT ![r] = @ + 1]
  /\ UNCHANGED waits

\* The run ends without its wait having been consumed.
Abandon(r) ==
  /\ open[r] = 1
  /\ open' = [open EXCEPT ![r] = 0]
  /\ UNCHANGED <<waits, claims>>

Next == \E r \in Runs : Post(r) \/ Claim(r) \/ Abandon(r)

Spec == Init /\ [][Next]_ledger
=============================================================================
