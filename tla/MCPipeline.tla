----------------------------- MODULE MCPipeline -----------------------------
(* Instances of Pipeline for TLC: each environment is a scenario of its own. *)
EXTENDS Pipeline

OneMsg == 1..1
ThreeMsgs == 1..3

Environment(ops, kinds, n, m) ==
    [operations |-> ops, faults |-> kinds, msgs |-> 1..n, retries |-> m]

\* Everything users ask for and every kind of fault, over two generations; and
\* reprocessing and deleting, over three, without lost replies and stops.
Everything ==
    {Environment({"update", "reprocess", "delete"}, FaultKinds, 2, 1),
     Environment({"reprocess", "delete"}, {"enqueueError", "statusError"}, 3, 2)}

\* An upload that may be deleted: with every fault but the loss of the report
\* that a run failed; and with no more than refused calls.
OneUpload ==
    {Environment({"delete"}, FaultKinds \ {"statusError"}, 1, 1),
     Environment({"delete"}, {"enqueueError"}, 1, 2)}

FaultlessReprocess == {Environment({"reprocess"}, {}, 2, 2)}
FaultlessUpdate == {Environment({"update", "delete"}, {}, 1, 2)}
=============================================================================
