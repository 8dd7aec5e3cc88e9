----------------------------- MODULE MCJobQueue -----------------------------
(* TLC instances of JobQueue. *)
EXTENDS JobQueue, TLC

CONSTANTS j1, j2, j3, b1, e1, e2, w1, w2

ThreeJobs == {j1, j2, j3}
TwoJobs == {j1, j2}
OneBook == {b1}
TwoCalls == {e1, e2}
TwoConsumers == {w1, w2}

\* Faults that stop no consumer, neither its process nor its channel, and after
\* which no message is where its sender does not expect it.
OrderlyFaults == {"publishError", "enqueuerDies", "storeError"}

\* Faults that take no message from an active job.
KeepingFaults == {"publishError", "lostConfirm", "storeError", "storeReplyLost", "workerCrash"}

Symmetry == Permutations(ThreeJobs) \cup Permutations(TwoCalls) \cup Permutations(TwoConsumers)
=============================================================================
