----------------------------- MODULE LeaderLock -----------------------------
(***************************************************************************)
(* What the background task lease promises, with no clock and no row: a    *)
(* lock.  A process takes it when nobody counts on it, and between two     *)
(* holders there is a moment with none.                                    *)
(***************************************************************************)
CONSTANT Processes

VARIABLE holders   \* processes that count on the lease being theirs

Init == holders = {}

Take(p) == holders = {} /\ holders' = {p}

\* The holder releases the lease, or crashes.
Drop(p) == p \in holders /\ holders' = holders \ {p}

Next == \E p \in Processes : Take(p) \/ Drop(p)

Spec == Init /\ [][Next]_holders
=============================================================================
