----------------------------- MODULE MCServices -----------------------------
(***************************************************************************)
(* The eval center and the books for TLC, with their workers.  Each        *)
(* behaviour follows one scenario; the other component stays in its        *)
(* initial state, so that the run is the sum of the state spaces.          *)
(***************************************************************************)
EXTENDS EvalRuns, BookUploads

VARIABLE scenario
Scenarios == {"evalRequests", "evalRuns", "uploads", "deletions"}

serviceVars == <<evalVars, bookVars, scenario>>

Init == scenario \in Scenarios /\ EvalRunsInit /\ BookUploadsInit

\* Two requests at a time that create runs for one key; or one request at a time of any
\* kind, for two keys, with no record marked failed.
EvalStep ==
    /\ scenario \in {"evalRequests", "evalRuns"}
    /\ EvalRunsNext
    /\ IF scenario = "evalRequests"
       THEN \A c \in EvalCalls : \/ evalCall'[c].pc = "idle"
                                 \/ evalCall'[c].key = "k1" /\ dataset' = dataset
       ELSE /\ Cardinality({c \in EvalCalls : evalCall'[c].pc # "idle"}) <= 1
            /\ \A k \in EvalKeys : evalRecord'[k].state # "failed"
    /\ UNCHANGED <<bookVars, scenario>>

\* Two uploads at a time; or two requests of any kind about one book.
BookStep ==
    /\ scenario \in {"uploads", "deletions"}
    /\ BookUploadsNext
    /\ IF scenario = "uploads"
       THEN \A c \in BookCalls : bookCall'[c].pc \notin {"write", "markDeleted", "requeue"}
       ELSE \A c \in BookCalls : bookCall'[c].book <= 1
    /\ UNCHANGED <<evalVars, scenario>>

Next == EvalStep \/ BookStep

\* The eval worker and the cleanup worker are goroutines with a ticker.
Fairness ==
    /\ WF_serviceVars(WorkerStep /\ UNCHANGED <<bookVars, scenario>>)
    /\ WF_serviceVars(CleanerStep /\ UNCHANGED <<evalVars, scenario>>)

Spec == Init /\ [][Next]_serviceVars /\ Fairness
=============================================================================
