--------------------------- MODULE MCFlowDispatch ---------------------------
(* A run and a client of one tenant, a run of another, at the same priority. *)
EXTENDS FlowDispatch

CONSTANTS a1, b1, q1, A, B

MCRuns == {a1, b1}
MCRequests == {q1}
MCTenants == {A, B}
MCTenantOf == [u \in MCRuns \union MCRequests |-> IF u = b1 THEN B ELSE A]
MCPriorityOf == [r \in MCRuns |-> 2]

=============================================================================
