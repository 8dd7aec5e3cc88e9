------------------------------ MODULE EvalRuns ------------------------------
(***************************************************************************)
(* The eval center of the auth service: evaluation runs over a dataset,    *)
(* created once per idempotency key, executed by the worker that polls for *)
(* queued runs, cancelled and listed by administrators; the dataset is     *)
(* archived or deleted.                                                    *)
(*                                                                         *)
(* A step is one statement on the database.  SaveEvalRun writes the whole  *)
(* row its caller read before.  The evaluation itself, which reads files   *)
(* and the search indexes, is a step that succeeds or fails.               *)
(***************************************************************************)
EXTENDS Naturals, FiniteSets, Idempotency

CONSTANTS
    EvalKeys,        \* idempotency keys
    Fingerprints,    \* dataset, modes and parameters of a request, hashed
    Runs,            \* run ids: numbers, in the order of created_at
    EvalCalls,       \* admin requests in progress
    MaxStops         \* bound: how often the worker breaks off a run

ASSUME EvalRunsAssumption ==
    Runs \subseteq Nat \ {0} /\ "none" \notin Fingerprints /\ MaxStops \in Nat

VARIABLES
    evalRecord,      \* the idempotency records
    run,             \* eval_run_models
    dataset,         \* eval_dataset_models: the dataset of the runs
    evalCall,        \* the locals of each request
    worker,          \* the locals of the worker
    stops,           \* how often the worker broke off a run
    answered,        \* history: the runs each key was answered with
    retried          \* history: keys two requests took up again at the same time

evalVars == <<evalRecord, run, dataset, evalCall, worker, stops, answered, retried>>

RunStates == {"none", "queued", "running", "succeeded", "failed", "canceled"}
FinalStates == {"succeeded", "failed", "canceled"}
NoRunRow == [status |-> "none", print |-> "none"]
NoEvalCall == [pc |-> "idle", key |-> "none", print |-> "none", run |-> 0]
NoWork == [pc |-> "idle", run |-> 0, row |-> NoRunRow]

EvalRunsTypeOK ==
    /\ \A k \in EvalKeys : evalRecord[k].state \in RecordStates
    /\ run \in [Runs -> [status: RunStates, print: Fingerprints \cup {"none"}]]
    /\ dataset \in {"active", "archived", "gone"}
    /\ \A c \in EvalCalls : evalCall[c].run \in Runs \cup {0}
    /\ worker.run \in Runs \cup {0} /\ worker.row.status \in RunStates
    /\ stops \in 0 .. MaxStops
    /\ answered \in [EvalKeys -> SUBSET Runs] /\ retried \subseteq EvalKeys

-----------------------------------------------------------------------------
(* pkg/store: eval runs and datasets *)

SaveEvalRun(r, row) == run' = [run EXCEPT ![r] = row]
NewestOf(rs) == CHOOSE r \in rs : \A s \in rs : s <= r

\* Ordered by created_at descending, one per page.
ListEvalRuns(status) == {r \in Runs : run[r].status = status}
GetActiveEvalRunByFingerprint(f) ==
    {r \in Runs : run[r].print = f /\ run[r].status \in {"queued", "running"}}
Created == {r \in Runs : run[r].status # "none"}
CountEvalRunsByDataset == Cardinality(Created)
NextRun == {r \in Runs : run[r].status = "none" /\ \A s \in Runs : s < r => run[s].status # "none"}

-----------------------------------------------------------------------------
(* Creating a run *)

EvalAt(c, pc) == evalCall[c].pc = pc
EvalGo(c, pc) == evalCall' = [evalCall EXCEPT ![c].pc = pc]
EvalReturn(c) == evalCall' = [evalCall EXCEPT ![c] = NoEvalCall]
EvalAnswer(c, r) ==
    /\ answered' = [answered EXCEPT ![evalCall[c].key] = @ \cup {r}]
    /\ EvalReturn(c)

\* A database error, or a process that stops, at any step of a request.
EvalFail(c) ==
    /\ ~EvalAt(c, "idle")
    /\ EvalReturn(c)
    /\ UNCHANGED <<evalRecord, run, dataset, worker, answered, retried, stops>>

\* handleAdminEvalRuns, POST: the dataset must exist, archived or not.
AdminCreateEvalRun(c) ==
    \E k \in EvalKeys, f \in Fingerprints :
        /\ EvalAt(c, "idle") /\ dataset # "gone"
        /\ evalCall' = [evalCall EXCEPT ![c] = [pc |-> "look", key |-> k, print |-> f, run |-> 0]]
        /\ UNCHANGED <<evalRecord, run, dataset, worker, answered, retried, stops>>

\* GetIdempotencyRecord; a completed record answers with the run it names.
beginEvalIdempotency(c) ==
    LET rec == evalRecord[evalCall[c].key]
        verdict == FirstLook(rec, evalCall[c].print)
    IN  /\ EvalAt(c, "look")
        /\ \/ verdict \in {"insert", "retry"} /\ EvalGo(c, verdict) /\ UNCHANGED answered
           \/ verdict = "refused" /\ EvalReturn(c) /\ UNCHANGED answered
           \/ verdict = "replay" /\ EvalAnswer(c, rec.result)
        /\ UNCHANGED <<evalRecord, run, dataset, worker, retried, stops>>

\* As it would be without the unique index: a second insert replaces the first.
InsertAgain(c) ==
    /\ evalCall[c].pc \in {"insert", "retry"}
    /\ evalRecord' = [evalRecord EXCEPT ![evalCall[c].key] = Processing(evalCall[c].print)]
    /\ EvalGo(c, "active")
    /\ UNCHANGED <<run, dataset, worker, answered, retried, stops>>

\* A new record is inserted; one taken up again is updated by its id, whatever its state.
SaveEvalIdempotencyRecord(c) ==
    LET k == evalCall[c].key
        rec == evalRecord[k]
        f == evalCall[c].print
    IN  /\ evalCall[c].pc \in {"insert", "retry"}
        /\ \/ /\ EvalAt(c, "insert") => rec.state = "none"
              /\ evalRecord' = [evalRecord EXCEPT ![k] = Processing(f)]
              /\ EvalGo(c, "active")
              /\ retried' = IF EvalAt(c, "retry") /\ rec.state # "failed" THEN retried \cup {k} ELSE retried
              /\ UNCHANGED answered
           \/ /\ EvalAt(c, "insert") /\ rec.state # "none"
              /\ IF SecondLook(rec, f) = "replay" THEN EvalAnswer(c, rec.result)
                 ELSE EvalReturn(c) /\ UNCHANGED answered
              /\ UNCHANGED <<evalRecord, retried>>
        /\ UNCHANGED <<run, dataset, worker, stops>>

\* An active run of the same fingerprint is the answer.
FindActiveRun(c) ==
    LET active == GetActiveEvalRunByFingerprint(evalCall[c].print)
    IN  /\ EvalAt(c, "active")
        /\ IF active # {}
           THEN evalCall' = [evalCall EXCEPT ![c].pc = "complete", ![c].run = NewestOf(active)]
           ELSE EvalGo(c, "create")
        /\ UNCHANGED <<evalRecord, run, dataset, worker, answered, retried, stops>>

\* The run is inserted; an insert that returns an error, committed or not, marks the record
\* failed in a next statement.
CreateEvalRun(c) ==
    /\ EvalAt(c, "create")
    /\ \/ \E r \in NextRun :
            /\ SaveEvalRun(r, [status |-> "queued", print |-> evalCall[c].print])
            /\ \/ evalCall' = [evalCall EXCEPT ![c].pc = "complete", ![c].run = r]
               \/ EvalGo(c, "markFailed")
       \/ EvalGo(c, "markFailed") /\ UNCHANGED run
    /\ UNCHANGED <<evalRecord, dataset, worker, answered, retried, stops>>

\* The error of this statement is dropped: the run is the answer all the same.
completeEvalIdempotency(c) ==
    /\ EvalAt(c, "complete")
    /\ \/ evalRecord' = [evalRecord EXCEPT ![evalCall[c].key] = Completed(evalCall[c].print, evalCall[c].run)]
       \/ UNCHANGED evalRecord
    /\ EvalAnswer(c, evalCall[c].run)
    /\ UNCHANGED <<run, dataset, worker, retried, stops>>

markEvalIdempotencyFailed(c) ==
    /\ EvalAt(c, "markFailed")
    /\ evalRecord' = [evalRecord EXCEPT ![evalCall[c].key] = FailedRecord(evalCall[c].print)]
    /\ EvalReturn(c)
    /\ UNCHANGED <<run, dataset, worker, answered, retried, stops>>

-----------------------------------------------------------------------------
(* Cancelling a run, deleting the dataset *)

\* The row is read, and the whole of it written back as canceled.
AdminCancelEvalRun(c) ==
    \E r \in Runs :
        /\ EvalAt(c, "idle")
        /\ run[r].status \in {"queued", "running", "canceled"}
        /\ evalCall' = [evalCall EXCEPT ![c] = [NoEvalCall EXCEPT !.pc = "cancel", !.run = r,
                                                                  !.print = run[r].print]]
        /\ UNCHANGED <<evalRecord, run, dataset, worker, answered, retried, stops>>

SaveCanceledRun(c) ==
    /\ EvalAt(c, "cancel")
    /\ SaveEvalRun(evalCall[c].run, [status |-> "canceled", print |-> evalCall[c].print])
    /\ EvalReturn(c)
    /\ UNCHANGED <<evalRecord, dataset, worker, answered, retried, stops>>

\* A dataset with runs is archived, one without is deleted, files first.
AdminDeleteEvalDataset(c) ==
    /\ EvalAt(c, "idle") /\ dataset # "gone"
    /\ EvalGo(c, IF CountEvalRunsByDataset > 0 THEN "archive" ELSE "deleteDataset")
    /\ UNCHANGED <<evalRecord, run, dataset, worker, answered, retried, stops>>

RemoveEvalDataset(c) ==
    /\ evalCall[c].pc \in {"archive", "deleteDataset"}
    /\ dataset' = IF dataset = "gone" \/ EvalAt(c, "deleteDataset") THEN "gone" ELSE "archived"
    /\ EvalReturn(c)
    /\ UNCHANGED <<evalRecord, run, worker, answered, retried, stops>>

\* AdminUpdateEvalDataset reads the row; the upsert of it, with the status it is given,
\* brings a dataset deleted meanwhile back.
AdminUpdateEvalDataset(c) ==
    /\ EvalAt(c, "idle") /\ dataset # "gone"
    /\ EvalGo(c, "saveDataset")
    /\ UNCHANGED <<evalRecord, run, dataset, worker, answered, retried, stops>>

SaveEvalDataset(c) ==
    /\ EvalAt(c, "saveDataset")
    /\ dataset' \in {"active", "archived"}
    /\ EvalReturn(c)
    /\ UNCHANGED <<evalRecord, run, worker, answered, retried, stops>>

-----------------------------------------------------------------------------
(* The worker *)

WorkGo(pc, row) == worker' = [worker EXCEPT !.pc = pc, !.row = row]

TakeRun(r) ==
    /\ worker' = [pc |-> "check", run |-> r, row |-> run[r]]
    /\ UNCHANGED <<evalRecord, run, dataset, evalCall, answered, retried, stops>>

\* As it would be if the list were not filtered by status, or the newest run were listed
\* and its status looked at then.
TakeAnyRun ==
    LET listed == {r \in Runs : run[r].status \notin {"none", "canceled"}}
    IN  worker.pc = "idle" /\ listed # {} /\ TakeRun(NewestOf(listed))
TakeNewestRun ==
    /\ worker.pc = "idle" /\ Created # {}
    /\ run[NewestOf(Created)].status = "queued"
    /\ TakeRun(NewestOf(Created))

\* processNext: the newest queued run, as it is now.
processNext ==
    /\ worker.pc = "idle" /\ ListEvalRuns("queued") # {}
    /\ TakeRun(NewestOf(ListEvalRuns("queued")))

\* executeRun: a duplicate of a running run is canceled, otherwise this one is running.
executeRun ==
    LET active == GetActiveEvalRunByFingerprint(worker.row.print)
        duplicate == /\ active # {} /\ NewestOf(active) # worker.run
                     /\ run[NewestOf(active)].status = "running"
    IN  /\ worker.pc = "check"
        /\ IF duplicate
           THEN /\ SaveEvalRun(worker.run, [worker.row EXCEPT !.status = "canceled"])
                /\ worker' = NoWork
           ELSE /\ SaveEvalRun(worker.run, [worker.row EXCEPT !.status = "running"])
                /\ WorkGo("evaluate", [worker.row EXCEPT !.status = "running"])
        /\ UNCHANGED <<evalRecord, dataset, evalCall, answered, retried, stops>>

\* The dataset is loaded and evaluated: any of it may fail.
ExecuteCenterRun ==
    /\ worker.pc = "evaluate"
    /\ \/ dataset # "gone" /\ WorkGo("recheck", worker.row)
       \/ WorkGo("fail", worker.row)
    /\ UNCHANGED <<evalRecord, run, dataset, evalCall, answered, retried, stops>>

failRun ==
    /\ worker.pc = "fail"
    /\ SaveEvalRun(worker.run, [worker.row EXCEPT !.status = "failed"])
    /\ worker' = NoWork
    /\ UNCHANGED <<evalRecord, dataset, evalCall, answered, retried, stops>>

\* A run canceled meanwhile stays canceled.
RecheckRun ==
    /\ worker.pc = "recheck"
    /\ WorkGo("finish", [worker.row EXCEPT
                !.status = IF run[worker.run].status = "canceled" THEN "canceled" ELSE "succeeded"])
    /\ UNCHANGED <<evalRecord, run, dataset, evalCall, answered, retried, stops>>

FinishRun ==
    /\ worker.pc = "finish"
    /\ SaveEvalRun(worker.run, worker.row)
    /\ worker' = NoWork
    /\ UNCHANGED <<evalRecord, dataset, evalCall, answered, retried, stops>>

\* The service stops, or a statement fails: the run keeps the state it had.
WorkerStops ==
    /\ worker.pc # "idle" /\ stops < MaxStops
    /\ worker' = NoWork /\ stops' = stops + 1
    /\ UNCHANGED <<evalRecord, run, dataset, evalCall, answered, retried>>

-----------------------------------------------------------------------------
EvalRunsInit ==
    /\ evalRecord = [k \in EvalKeys |-> NoRecord]
    /\ run = [r \in Runs |-> NoRunRow]
    /\ dataset = "active"
    /\ evalCall = [c \in EvalCalls |-> NoEvalCall]
    /\ worker = NoWork /\ stops = 0
    /\ answered = [k \in EvalKeys |-> {}] /\ retried = {}

WorkerStep == processNext \/ executeRun \/ ExecuteCenterRun \/ failRun \/ RecheckRun \/ FinishRun

EvalRunsNext ==
    \/ WorkerStep \/ WorkerStops
    \/ \E c \in EvalCalls :
        \/ AdminCreateEvalRun(c) \/ beginEvalIdempotency(c) \/ SaveEvalIdempotencyRecord(c)
        \/ FindActiveRun(c) \/ CreateEvalRun(c) \/ completeEvalIdempotency(c)
        \/ markEvalIdempotencyFailed(c)
        \/ AdminCancelEvalRun(c) \/ SaveCanceledRun(c)
        \/ AdminDeleteEvalDataset(c) \/ RemoveEvalDataset(c) \/ AdminUpdateEvalDataset(c)
        \/ SaveEvalDataset(c) \/ EvalFail(c)

\* The worker is a goroutine with a ticker: it keeps taking steps.
EvalRunsFairness == WF_evalVars(WorkerStep)
EvalRunsSpec == EvalRunsInit /\ [][EvalRunsNext]_evalVars /\ EvalRunsFairness

-----------------------------------------------------------------------------
(* What the eval center promises *)

\* A key is answered with one run, in every interleaving of requests with that key and
\* whatever statements fail, unless two requests took the same failed record up again.
OneRunPerKey == \A k \in EvalKeys \ retried : Cardinality(answered[k]) <= 1

\* A run that ended keeps its result: only a cancellation that read the run before it
\* ended writes over it, and the worker never runs a run twice.
ResultKept ==
    [][\A r \in Runs : run[r].status \in {"succeeded", "failed"} /\ run'[r] # run[r]
            => \E c \in EvalCalls : EvalAt(c, "cancel") /\ evalCall[c].run = r]_evalVars

\* The worker takes the newest queued run, so that newer runs can keep an old one waiting
\* for ever; as long as none is created, every queued run is taken in the end, the old
\* ones behind runs that have ended too, also after the worker broke a run off.
QueuedRunIsTaken ==
    \A r, n \in Runs :
        run[r].status = "queued" /\ CountEvalRunsByDataset = n
            ~> run[r].status # "queued" \/ CountEvalRunsByDataset # n
=============================================================================
