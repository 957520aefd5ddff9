----------------------------- MODULE MCJobQueue -----------------------------
(* Instances of JobQueue: one worker or two, one job or two. *)
EXTENDS JobQueue

CONSTANTS w1, w2, j1, j2

OneWorker == {w1}
TwoWorkers == {w1, w2}
OneJob == {j1}
TwoJobs == {j1, j2}

=============================================================================
