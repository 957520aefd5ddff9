---------------------------- MODULE MCFlowRecovery ----------------------------
(***************************************************************************)
(* Two runs, whose deadlines are the wait timeout; the row of the second   *)
(* is one the recovery jobs cannot write.                                  *)
(***************************************************************************)
EXTENDS FlowRecovery

CONSTANTS r1, r2

MCRuns == {r1, r2}
MCBad == {r2}
MCTimeout == [r \in MCRuns |-> 1]

===============================================================================
