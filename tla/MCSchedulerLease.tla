-------------------------- MODULE MCSchedulerLease --------------------------
EXTENDS SchedulerLease

CONSTANTS p1, p2, p3

\* INSTANCE_ID is set on every process.
OwnIds == [p \in Processes |-> p]

=============================================================================
