---------------------------- MODULE ExclusiveJobs ----------------------------
(***************************************************************************)
(* What the handlers of ingest and indexer rely on: a resource has one job *)
(* that is accepted, worked on by one handler at a time, as often as it    *)
(* takes, and ended while nobody works on it. Pipeline is written on top   *)
(* of this: its Accept, Deliver, WorkerCrash and Finish are these steps.   *)
(***************************************************************************)
CONSTANTS
    Resources,    \* resource ids (books)
    Consumers     \* those who run handlers

VARIABLES
    active,       \* whether a resource has an active job
    handlers      \* the consumers whose handler works on the resource

vars == <<active, handlers>>

Init ==
    /\ active = [r \in Resources |-> FALSE]
    /\ handlers = [r \in Resources |-> {}]

Accept(r) ==
    /\ ~ active[r]
    /\ handlers[r] = {}
    /\ active' = [active EXCEPT ![r] = TRUE]
    /\ UNCHANGED handlers

Begin(r, w) ==
    /\ active[r]
    /\ handlers[r] = {}
    /\ handlers' = [handlers EXCEPT ![r] = {w}]
    /\ UNCHANGED active

\* The handler returns, or its process stops: the job stays active.
Return(r, w) ==
    /\ handlers[r] = {w}
    /\ handlers' = [handlers EXCEPT ![r] = {}]
    /\ UNCHANGED active

End(r) ==
    /\ active[r]
    /\ handlers[r] = {}
    /\ active' = [active EXCEPT ![r] = FALSE]
    /\ UNCHANGED handlers

Next ==
    \E r \in Resources :
        \/ Accept(r) \/ End(r)
        \/ \E w \in Consumers : Begin(r, w) \/ Return(r, w)

Spec == Init /\ [][Next]_vars
=============================================================================
