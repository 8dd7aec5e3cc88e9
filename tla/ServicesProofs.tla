--------------------------- MODULE ServicesProofs ---------------------------
(* Proofs about EvalRuns and BookUploads for any number of keys, requests,    *)
(* runs and books, and however often the services stop: an idempotency key is *)
(* answered with one run and makes one book, a run that ended keeps its       *)
(* result, and a listed book has its file.                                    *)
EXTENDS EvalRuns, BookUploads, FiniteSetTheorems, WellFoundedInduction, TLAPS

-----------------------------------------------------------------------------
(* The first and the last of a set of ids, and sets of at most one element. *)

\* A set of numbers has a least element.
LEMMA LeastExists ==
    ASSUME NEW T \in SUBSET Nat, T # {}
    PROVE  \E x \in T : \A y \in T : x <= y
<1> DEFINE R == {ss \in Nat \X Nat : ss[1] < ss[2]}
<1>1. IsWellFoundedOn(R, Nat)
  BY NatLessThanWellFounded DEF OpToRel
<1> HIDE DEF R
<1>2. T \subseteq Nat
  OBVIOUS
<1>3. PICK x \in T : \A y \in T : ~ (<<y, x>> \in R)
  BY <1>1, <1>2, WFMin
<1>4. \A y \in T : ~ y < x
  BY <1>2, <1>3 DEF R
<1> QED BY <1>2, <1>4

\* NewestOf takes the greatest of a set of ids that has a bound.
LEMMA NewestExists ==
    ASSUME NEW rs \in SUBSET Nat, rs # {}, NEW n \in Nat, \A r \in rs : r <= n
    PROVE  NewestOf(rs) \in rs /\ \A s \in rs : s <= NewestOf(rs)
<1> DEFINE T == {n - r : r \in rs}
           Last(r) == \A s \in rs : s <= r
<1>1. T \in SUBSET Nat /\ T # {}
  <2>1. \A r \in rs : n - r \in Nat
    OBVIOUS
  <2> QED BY <2>1
<1>2. PICK x \in T : \A y \in T : x <= y
  <2> HIDE DEF T
  <2> QED BY <1>1, LeastExists
<1>3. PICK r \in rs : x = n - r
  BY <1>2
<1>4. \E m \in rs : Last(m)
  <2>1. ASSUME NEW s \in rs PROVE s <= r
    <3>1. n - s \in T /\ r \in Nat /\ s \in Nat
      OBVIOUS
    <3>2. x <= n - s
      BY <1>2, <3>1
    <3> QED BY <1>3, <3>1, <3>2
  <2> QED BY <2>1
<1>5. NewestOf(rs) = CHOOSE m \in rs : Last(m)
  BY DEF NewestOf
<1>6. NewestOf(rs) \in rs /\ Last(NewestOf(rs))
  <2> HIDE DEF Last
  <2> QED BY <1>4, <1>5
<1> QED BY <1>6

\* A set within one element counts one at most.
LEMMA AtMostOne ==
    ASSUME NEW S, NEW x, S \subseteq {x}
    PROVE  Cardinality(S) <= 1
<1>1. IsFiniteSet({x}) /\ Cardinality({x}) = 1
  BY FS_Singleton
<1>2. IsFiniteSet(S) /\ Cardinality(S) <= Cardinality({x})
  BY <1>1, FS_Subset
<1> QED BY <1>1, <1>2

-----------------------------------------------------------------------------
(* The eval center. *)

\* The shapes of the variables: a request and the worker have the locals their places rely on,
\* a completed record names a run, and the run ids in use have a bound.
EvalRecords ==
    {rec \in [state : RecordStates, hash : Fingerprints \cup {"none"}, result : Runs \cup {"none"}] :
        rec.state = "completed" => rec.result \in Runs}
RunRows == [status : RunStates, print : Fingerprints \cup {"none"}]
Requesting == {"look", "insert", "retry", "active", "create", "complete", "markFailed"}
EvalLocals ==
    {l \in [pc : Requesting \cup {"idle", "cancel", "archive", "deleteDataset", "saveDataset"}, key : EvalKeys \cup {"none"},
            print : Fingerprints \cup {"none"}, run : Runs \cup {0}] :
        /\ l.pc \in Requesting => l.key \in EvalKeys /\ l.print \in Fingerprints
        /\ l.pc \in {"complete", "cancel"} => l.run \in Runs}
WorkLocals ==
    {l \in [pc : {"idle", "check", "evaluate", "recheck", "fail", "finish"}, run : Runs \cup {0}, row : RunRows] :
        l.pc # "idle" => l.run \in Runs}
RunsBounded == \E n \in Nat : \A r \in Runs : run[r].status # "none" => r <= n
EvalTypes ==
    /\ evalRecord \in [EvalKeys -> EvalRecords]
    /\ run \in [Runs -> RunRows] /\ RunsBounded
    /\ dataset \in {"active", "archived", "gone"}
    /\ evalCall \in [EvalCalls -> EvalLocals]
    /\ worker \in WorkLocals
    /\ stops \in 0 .. MaxStops
    /\ answered \in [EvalKeys -> SUBSET Runs] /\ retried \subseteq EvalKeys

\* A request past its record is the only one of its key, the record says so, and the key was
\* not answered; a completed record names the answer.
Owns(c, k) == evalCall[c].pc \in {"active", "create", "complete", "markFailed"} /\ evalCall[c].key = k
OneAnswer(k) ==
    /\ \A c \in EvalCalls : Owns(c, k) => /\ evalRecord[k].state = "processing" /\ answered[k] = {}
                                          /\ \A d \in EvalCalls : Owns(d, k) => d = c
    /\ evalRecord[k].state \in {"none", "failed"} => answered[k] = {}
    /\ evalRecord[k].state = "completed" => answered[k] \subseteq {evalRecord[k].result}
    /\ \E r \in Runs \cup {0} : answered[k] \subseteq {r}
OneAnswers == \A k \in EvalKeys \ retried : OneAnswer(k)

\* The worker has a run that has not succeeded or failed.
WorksOn == worker.pc # "idle" => run[worker.run].status \in {"queued", "running", "canceled"}

\* A request goes on with its locals.
LEMMA EvalGoFacts ==
    ASSUME EvalTypes, NEW c \in EvalCalls, NEW pc, EvalGo(c, pc)
    PROVE  /\ evalCall'[c].pc = pc /\ evalCall'[c].key = evalCall[c].key
           /\ evalCall'[c].print = evalCall[c].print /\ evalCall'[c].run = evalCall[c].run
           /\ \A d \in EvalCalls : d # c => evalCall'[d] = evalCall[d]
           /\ evalCall[c].pc \in Requesting /\ pc \in Requesting \ {"complete"} => evalCall' \in [EvalCalls -> EvalLocals]
<1>1. PICK l : l = [evalCall[c] EXCEPT !.pc = pc]
  OBVIOUS
<1>2. evalCall' = [evalCall EXCEPT ![c] = l] /\ evalCall[c] \in EvalLocals
  BY <1>1 DEF EvalTypes, EvalGo
<1>3. l.pc = pc /\ l.key = evalCall[c].key /\ l.print = evalCall[c].print /\ l.run = evalCall[c].run
  BY <1>1, <1>2 DEF EvalLocals
<1>4. evalCall[c].pc \in Requesting /\ pc \in Requesting \ {"complete"} => l \in EvalLocals
  BY <1>1, <1>2 DEF EvalLocals, Requesting
<1> QED BY <1>2, <1>3, <1>4 DEF EvalTypes

\* A request ends.
LEMMA EvalReturnFacts ==
    ASSUME EvalTypes, NEW c \in EvalCalls, EvalReturn(c)
    PROVE  /\ evalCall' \in [EvalCalls -> EvalLocals] /\ evalCall'[c].pc = "idle"
           /\ \A d \in EvalCalls : d # c => evalCall'[d] = evalCall[d]
BY DEF EvalTypes, EvalLocals, EvalReturn, NoEvalCall, Requesting

\* A request that has found its run.
LEMMA EvalFoundFacts ==
    ASSUME EvalTypes, NEW c \in EvalCalls, NEW r \in Runs, evalCall[c].pc \in Requesting,
           evalCall' = [evalCall EXCEPT ![c].pc = "complete", ![c].run = r]
    PROVE  /\ evalCall' \in [EvalCalls -> EvalLocals]
           /\ evalCall'[c].pc = "complete" /\ evalCall'[c].key = evalCall[c].key
           /\ \A d \in EvalCalls : d # c => evalCall'[d] = evalCall[d]
BY ZenonT(30) DEF EvalTypes, EvalLocals, Requesting

\* A row is written: the ids in use keep a bound.
LEMMA SaveRunFacts ==
    ASSUME EvalTypes, NEW r \in Runs, NEW row \in RunRows, SaveEvalRun(r, row)
    PROVE  /\ run' \in [Runs -> RunRows] /\ RunsBounded'
           /\ run'[r] = row /\ \A s \in Runs : s # r => run'[s] = run[s]
<1>1. run' \in [Runs -> RunRows] /\ run'[r] = row /\ \A s \in Runs : s # r => run'[s] = run[s]
  BY DEF EvalTypes, SaveEvalRun
<1>2. PICK n \in Nat : \A s \in Runs : run[s].status # "none" => s <= n
  BY DEF EvalTypes, RunsBounded
<1>3. Runs \subseteq Nat /\ r \in Nat
  BY EvalRunsAssumption
<1>4. ASSUME NEW s \in Runs, run'[s].status # "none" PROVE s <= n + r
  <2>1. s = r \/ s <= n
    BY <1>1, <1>2, <1>4
  <2> QED BY <1>3, <2>1
<1>5. n + r \in Nat
  BY <1>3
<1> QED BY <1>1, <1>4, <1>5 DEF RunsBounded

\* The newest of the runs in use is one of them.
LEMMA NewestFacts ==
    ASSUME EvalTypes, NEW rs \in SUBSET Runs, rs # {}, \A r \in rs : run[r].status # "none"
    PROVE  NewestOf(rs) \in rs
<1>1. PICK n \in Nat : \A s \in Runs : run[s].status # "none" => s <= n
  BY DEF EvalTypes, RunsBounded
<1>2. rs \in SUBSET Nat /\ \A r \in rs : r <= n
  BY <1>1, EvalRunsAssumption
<1> QED BY <1>1, <1>2, NewestExists

\* What the first read of a record tells.
LEMMA FirstLookFacts ==
    ASSUME NEW rec, rec.state \in RecordStates, NEW h
    PROVE  /\ FirstLook(rec, h) \in {"insert", "retry", "refused", "replay"}
           /\ FirstLook(rec, h) = "insert" => rec.state = "none"
           /\ FirstLook(rec, h) = "retry" => rec.state = "failed"
           /\ FirstLook(rec, h) = "replay" => rec.state = "completed"
BY DEF FirstLook, RecordStates

\* Every step keeps the shapes.
LEMMA EvalTypesStep ==
    ASSUME EvalTypes, [EvalRunsNext]_evalVars
    PROVE  EvalTypes'
<1>1. /\ evalRecord \in [EvalKeys -> EvalRecords]
      /\ run \in [Runs -> RunRows] /\ RunsBounded
      /\ dataset \in {"active", "archived", "gone"}
      /\ evalCall \in [EvalCalls -> EvalLocals]
      /\ worker \in WorkLocals
      /\ stops \in 0 .. MaxStops
      /\ answered \in [EvalKeys -> SUBSET Runs] /\ retried \subseteq EvalKeys
      /\ \A c \in EvalCalls : evalCall[c] \in EvalLocals
  BY DEF EvalTypes
<1>2. NoWork \in WorkLocals /\ NoRunRow \in RunRows
  BY DEF NoWork, WorkLocals, NoRunRow, RunRows, RunStates
<1>r. UNCHANGED run => RunsBounded'
  BY <1>1 DEF RunsBounded
\* A request ends with its answer.
<1>a. ASSUME NEW c \in EvalCalls, NEW r \in Runs, EvalAnswer(c, r), evalCall[c].pc \in Requesting
      PROVE  answered' \in [EvalKeys -> SUBSET Runs] /\ evalCall' \in [EvalCalls -> EvalLocals]
  <2>1. evalCall[c].key \in EvalKeys
    BY <1>1, <1>a DEF EvalLocals
  <2> QED BY <1>1, <1>a, <2>1, EvalReturnFacts DEF EvalAnswer
<1>c. ASSUME evalCall' \in [EvalCalls -> EvalLocals], UNCHANGED <<evalRecord, run, dataset, worker, stops>>,
             answered' \in [EvalKeys -> SUBSET Runs], retried' \subseteq EvalKeys
      PROVE  EvalTypes'
  BY <1>1, <1>c, <1>r DEF EvalTypes
\* A request writes its record.
<1>k. ASSUME NEW c \in EvalCalls, evalCall[c].pc \in Requesting, NEW rec \in EvalRecords,
             evalRecord' \in {evalRecord, [evalRecord EXCEPT ![evalCall[c].key] = rec]},
             evalCall' \in [EvalCalls -> EvalLocals], UNCHANGED <<run, dataset, worker, stops>>,
             answered' \in [EvalKeys -> SUBSET Runs], retried' \subseteq EvalKeys
      PROVE  EvalTypes'
  BY <1>1, <1>k, <1>r DEF EvalTypes
<1>3. ASSUME NEW c \in EvalCalls, EvalFail(c) PROVE EvalTypes'
  BY <1>1, <1>3, <1>c, EvalReturnFacts DEF EvalFail
<1>4. ASSUME NEW c \in EvalCalls, AdminCreateEvalRun(c) PROVE EvalTypes'
  <2>1. PICK k \in EvalKeys, f \in Fingerprints :
          /\ evalCall' = [evalCall EXCEPT ![c] = [pc |-> "look", key |-> k, print |-> f, run |-> 0]]
          /\ UNCHANGED <<evalRecord, run, dataset, worker, answered, retried, stops>>
    BY <1>4 DEF AdminCreateEvalRun
  <2>2. [pc |-> "look", key |-> k, print |-> f, run |-> 0] \in EvalLocals
    BY DEF EvalLocals, Requesting
  <2> QED BY <1>1, <1>c, <2>1, <2>2
<1>5. ASSUME NEW c \in EvalCalls, beginEvalIdempotency(c) PROVE EvalTypes'
  <2> DEFINE rec == evalRecord[evalCall[c].key]
             verdict == FirstLook(rec, evalCall[c].print)
  <2>1. /\ evalCall[c].pc = "look" /\ UNCHANGED <<evalRecord, run, dataset, worker, retried, stops>>
        /\ \/ verdict \in {"insert", "retry"} /\ EvalGo(c, verdict) /\ UNCHANGED answered
           \/ verdict = "refused" /\ EvalReturn(c) /\ UNCHANGED answered
           \/ verdict = "replay" /\ EvalAnswer(c, rec.result)
    BY <1>5 DEF beginEvalIdempotency, EvalAt
  <2>2. rec \in EvalRecords
    BY <1>1, <2>1 DEF EvalLocals, Requesting
  <2>3. verdict = "replay" => rec.result \in Runs
    BY <2>2, FirstLookFacts DEF EvalRecords
  <2> HIDE DEF rec, verdict
  <2> QED BY <1>1, <1>a, <1>c, <2>1, <2>3, EvalGoFacts, EvalReturnFacts DEF Requesting
<1>6. ASSUME NEW c \in EvalCalls, SaveEvalIdempotencyRecord(c) PROVE EvalTypes'
  <2> DEFINE k == evalCall[c].key
             f == evalCall[c].print
  <2>1. evalCall[c].pc \in {"insert", "retry"} /\ UNCHANGED <<run, dataset, worker, stops>>
    BY <1>6 DEF SaveEvalIdempotencyRecord
  <2>2. k \in EvalKeys /\ f \in Fingerprints /\ evalRecord[k] \in EvalRecords
    BY <1>1, <2>1 DEF EvalLocals, Requesting
  <2>3. Processing(f) \in EvalRecords
    BY <2>2 DEF EvalRecords, Processing, RecordStates
  <2>4. CASE /\ evalRecord' = [evalRecord EXCEPT ![k] = Processing(f)] /\ EvalGo(c, "active")
             /\ retried' \in {retried, retried \cup {k}} /\ UNCHANGED answered
    BY <1>1, <1>k, <2>1, <2>2, <2>3, <2>4, EvalGoFacts DEF Requesting
  <2>5. CASE UNCHANGED <<evalRecord, answered, retried>> /\ EvalReturn(c)
    BY <1>1, <1>c, <2>1, <2>5, EvalReturnFacts
  <2>6. CASE UNCHANGED <<evalRecord, retried>> /\ SecondLook(evalRecord[k], f) = "replay" /\ EvalAnswer(c, evalRecord[k].result)
    <3>1. evalRecord[k].result \in Runs
      BY <2>2, <2>6 DEF SecondLook, EvalRecords
    <3> QED BY <1>1, <1>a, <1>c, <2>1, <2>6, <3>1 DEF Requesting
  <2> QED BY <1>6, <2>4, <2>5, <2>6 DEF SaveEvalIdempotencyRecord
<1>7. ASSUME NEW c \in EvalCalls, FindActiveRun(c) PROVE EvalTypes'
  <2> DEFINE active == GetActiveEvalRunByFingerprint(evalCall[c].print)
  <2>1. /\ evalCall[c].pc = "active" /\ UNCHANGED <<evalRecord, run, dataset, worker, answered, retried, stops>>
        /\ IF active # {} THEN evalCall' = [evalCall EXCEPT ![c].pc = "complete", ![c].run = NewestOf(active)]
                          ELSE EvalGo(c, "create")
    BY <1>7 DEF FindActiveRun, EvalAt
  <2>2. active # {} => NewestOf(active) \in Runs
    <3>1. active \in SUBSET Runs /\ \A r \in active : run[r].status # "none"
      BY DEF GetActiveEvalRunByFingerprint
    <3> HIDE DEF active
    <3> QED BY <3>1, NewestFacts
  <2> HIDE DEF active
  <2> QED BY <1>1, <1>c, <2>1, <2>2, EvalGoFacts, EvalFoundFacts DEF Requesting
<1>8. ASSUME NEW c \in EvalCalls, CreateEvalRun(c) PROVE EvalTypes'
  <2>1. evalCall[c].pc = "create" /\ UNCHANGED <<evalRecord, dataset, worker, answered, retried, stops>>
    BY <1>8 DEF CreateEvalRun, EvalAt
  <2>2. CASE EvalGo(c, "markFailed") /\ UNCHANGED run
    BY <1>1, <1>c, <2>1, <2>2, EvalGoFacts DEF Requesting
  <2>3. CASE \E r \in NextRun : /\ SaveEvalRun(r, [status |-> "queued", print |-> evalCall[c].print])
                                /\ \/ evalCall' = [evalCall EXCEPT ![c].pc = "complete", ![c].run = r]
                                   \/ EvalGo(c, "markFailed")
    <3>1. PICK r \in Runs : /\ SaveEvalRun(r, [status |-> "queued", print |-> evalCall[c].print])
                            /\ \/ evalCall' = [evalCall EXCEPT ![c].pc = "complete", ![c].run = r]
                               \/ EvalGo(c, "markFailed")
      BY <2>3 DEF NextRun
    <3>2. [status |-> "queued", print |-> evalCall[c].print] \in RunRows
      BY <1>1 DEF EvalLocals, RunRows, RunStates
    <3>3. run' \in [Runs -> RunRows] /\ RunsBounded'
      BY <3>1, <3>2, SaveRunFacts
    <3>4. evalCall' \in [EvalCalls -> EvalLocals]
      <4>1. CASE evalCall' = [evalCall EXCEPT ![c].pc = "complete", ![c].run = r]
        BY <2>1, <4>1, EvalFoundFacts DEF Requesting
      <4>2. CASE EvalGo(c, "markFailed")
        BY <1>1, <2>1, <4>2, EvalGoFacts DEF Requesting
      <4> QED BY <3>1, <4>1, <4>2
    <3> QED BY <1>1, <2>1, <3>3, <3>4 DEF EvalTypes
  <2> QED BY <1>8, <2>2, <2>3 DEF CreateEvalRun
<1>9. ASSUME NEW c \in EvalCalls, completeEvalIdempotency(c) PROVE EvalTypes'
  <2>1. /\ evalCall[c].pc = "complete" /\ UNCHANGED <<run, dataset, worker, retried, stops>>
        /\ EvalAnswer(c, evalCall[c].run)
        /\ evalRecord' \in {evalRecord, [evalRecord EXCEPT ![evalCall[c].key] = Completed(evalCall[c].print, evalCall[c].run)]}
    BY <1>9 DEF completeEvalIdempotency, EvalAt
  <2>2. evalCall[c].run \in Runs /\ evalCall[c].print \in Fingerprints
    BY <1>1, <2>1 DEF EvalLocals, Requesting
  <2>3. Completed(evalCall[c].print, evalCall[c].run) \in EvalRecords
    BY <2>2 DEF EvalRecords, Completed, RecordStates
  <2> QED BY <1>1, <1>a, <1>k, <2>1, <2>2, <2>3 DEF Requesting
<1>10. ASSUME NEW c \in EvalCalls, markEvalIdempotencyFailed(c) PROVE EvalTypes'
  <2>1. FailedRecord(evalCall[c].print) \in EvalRecords
    BY <1>1 DEF EvalLocals, EvalRecords, FailedRecord, RecordStates
  <2> QED BY <1>1, <1>10, <1>k, <2>1, EvalReturnFacts DEF markEvalIdempotencyFailed, EvalAt, Requesting
<1>11. ASSUME NEW c \in EvalCalls, AdminCancelEvalRun(c) \/ AdminDeleteEvalDataset(c) \/ AdminUpdateEvalDataset(c) PROVE EvalTypes'
  <2>1. CASE AdminCancelEvalRun(c)
    <3>1. PICK r \in Runs :
            /\ evalCall' = [evalCall EXCEPT ![c] = [NoEvalCall EXCEPT !.pc = "cancel", !.run = r, !.print = run[r].print]]
            /\ UNCHANGED <<evalRecord, run, dataset, worker, answered, retried, stops>>
      BY <2>1 DEF AdminCancelEvalRun
    <3>2. PICK l : l = [NoEvalCall EXCEPT !.pc = "cancel", !.run = r, !.print = run[r].print]
      OBVIOUS
    <3>3. l \in EvalLocals
      BY <1>1, <3>2 DEF EvalLocals, NoEvalCall, RunRows, Requesting
    <3> QED BY <1>1, <1>c, <3>1, <3>2, <3>3
  <2>2. CASE AdminDeleteEvalDataset(c)
    <3>1. PICK pc \in {"archive", "deleteDataset"} : EvalGo(c, pc)
      BY <2>2 DEF AdminDeleteEvalDataset
    <3>2. evalCall' \in [EvalCalls -> EvalLocals]
      BY <1>1, <3>1 DEF EvalGo, EvalLocals, Requesting
    <3> QED BY <1>1, <1>c, <2>2, <3>2 DEF AdminDeleteEvalDataset
  <2>3. CASE AdminUpdateEvalDataset(c)
    <3>1. evalCall' \in [EvalCalls -> EvalLocals]
      BY <1>1, <2>3 DEF AdminUpdateEvalDataset, EvalGo, EvalLocals, Requesting
    <3> QED BY <1>1, <1>c, <2>3, <3>1 DEF AdminUpdateEvalDataset
  <2> QED BY <1>11, <2>1, <2>2, <2>3
<1>12. ASSUME NEW c \in EvalCalls, SaveCanceledRun(c) \/ RemoveEvalDataset(c) \/ SaveEvalDataset(c) PROVE EvalTypes'
  <2>1. CASE SaveCanceledRun(c)
    <3>1. evalCall[c].run \in Runs /\ [status |-> "canceled", print |-> evalCall[c].print] \in RunRows
      BY <1>1, <2>1 DEF SaveCanceledRun, EvalAt, EvalLocals, RunRows, RunStates
    <3>2. run' \in [Runs -> RunRows] /\ RunsBounded'
      BY <2>1, <3>1, SaveRunFacts DEF SaveCanceledRun
    <3> QED BY <1>1, <2>1, <3>2, EvalReturnFacts DEF SaveCanceledRun, EvalTypes
  <2>2. CASE RemoveEvalDataset(c)
    BY <1>1, <1>r, <2>2, EvalReturnFacts DEF RemoveEvalDataset, EvalTypes
  <2>3. CASE SaveEvalDataset(c)
    BY <1>1, <1>r, <2>3, EvalReturnFacts DEF SaveEvalDataset, EvalTypes
  <2> QED BY <1>12, <2>1, <2>2, <2>3
<1>13. ASSUME worker' \in WorkLocals, UNCHANGED <<evalRecord, dataset, evalCall, answered, retried>>, stops' \in 0 .. MaxStops,
              run' \in [Runs -> RunRows], RunsBounded'
       PROVE  EvalTypes'
  BY <1>1, <1>13 DEF EvalTypes
<1>14. ASSUME processNext PROVE EvalTypes'
  <2> DEFINE queued == ListEvalRuns("queued")
  <2>1. /\ queued # {} /\ worker' = [pc |-> "check", run |-> NewestOf(queued), row |-> run[NewestOf(queued)]]
        /\ UNCHANGED <<evalRecord, run, dataset, evalCall, answered, retried, stops>>
    BY <1>14 DEF processNext, TakeRun
  <2>2. NewestOf(queued) \in Runs
    <3>1. queued \in SUBSET Runs /\ \A r \in queued : run[r].status # "none"
      BY DEF ListEvalRuns
    <3> HIDE DEF queued
    <3> QED BY <2>1, <3>1, NewestFacts
  <2>3. worker' \in WorkLocals
    <3> HIDE DEF queued
    <3>1. PICK r \in Runs : r = NewestOf(queued)
      BY <2>2
    <3> QED BY <1>1, <2>1, <3>1 DEF WorkLocals
  <2> QED BY <1>1, <1>13, <1>r, <2>1, <2>3
\* The worker writes its row.
<1>15. ASSUME worker.pc # "idle", NEW s \in RunStates, SaveEvalRun(worker.run, [worker.row EXCEPT !.status = s])
       PROVE  run' \in [Runs -> RunRows] /\ RunsBounded'
  <2>1. worker.run \in Runs /\ [worker.row EXCEPT !.status = s] \in RunRows
    BY <1>1, <1>15 DEF WorkLocals, RunRows
  <2>2. PICK r \in Runs, row \in RunRows : r = worker.run /\ row = [worker.row EXCEPT !.status = s]
    BY <2>1
  <2>3. SaveEvalRun(r, row)
    BY <1>15, <2>2 DEF SaveEvalRun
  <2> QED BY <2>3, SaveRunFacts
<1>16. ASSUME worker.pc # "idle", NEW pc \in {"evaluate", "recheck", "fail", "finish"}, NEW s \in RunStates,
              WorkGo(pc, [worker.row EXCEPT !.status = s]) \/ WorkGo(pc, worker.row)
       PROVE  worker' \in WorkLocals
  <2>1. worker.row \in RunRows /\ [worker.row EXCEPT !.status = s] \in RunRows
    BY <1>1 DEF WorkLocals, RunRows
  <2>2. PICK row \in RunRows : worker' = [worker EXCEPT !.pc = pc, !.row = row]
    BY <1>16, <2>1 DEF WorkGo
  <2> QED BY <1>1, <1>16, <2>2 DEF WorkLocals
<1>17. ASSUME executeRun PROVE EvalTypes'
  <2>1. worker.pc = "check" /\ UNCHANGED <<evalRecord, dataset, evalCall, answered, retried, stops>>
    BY <1>17 DEF executeRun
  <2>2. \/ SaveEvalRun(worker.run, [worker.row EXCEPT !.status = "canceled"]) /\ worker' = NoWork
        \/ /\ SaveEvalRun(worker.run, [worker.row EXCEPT !.status = "running"])
           /\ WorkGo("evaluate", [worker.row EXCEPT !.status = "running"])
    BY <1>17 DEF executeRun
  <2>3. run' \in [Runs -> RunRows] /\ RunsBounded'
    BY <1>15, <2>1, <2>2 DEF RunStates
  <2>4. worker' \in WorkLocals
    BY <1>2, <1>16, <2>1, <2>2 DEF RunStates
  <2> QED BY <1>1, <1>13, <2>1, <2>3, <2>4
<1>18. ASSUME ExecuteCenterRun \/ RecheckRun PROVE EvalTypes'
  <2>1. worker.pc # "idle" /\ UNCHANGED <<evalRecord, run, dataset, evalCall, answered, retried, stops>>
    BY <1>18 DEF ExecuteCenterRun, RecheckRun
  <2>2. worker' \in WorkLocals
    <3>1. \E pc \in {"evaluate", "recheck", "fail", "finish"}, s \in RunStates :
             WorkGo(pc, [worker.row EXCEPT !.status = s]) \/ WorkGo(pc, worker.row)
      BY <1>18 DEF ExecuteCenterRun, RecheckRun, RunStates
    <3> QED BY <1>16, <2>1, <3>1
  <2> QED BY <1>1, <1>13, <1>r, <2>1, <2>2
<1>19. ASSUME failRun \/ FinishRun PROVE EvalTypes'
  <2>1. worker.pc # "idle" /\ worker' = NoWork /\ UNCHANGED <<evalRecord, dataset, evalCall, answered, retried, stops>>
    BY <1>19 DEF failRun, FinishRun
  <2>2. run' \in [Runs -> RunRows] /\ RunsBounded'
    <3>1. CASE failRun
      BY <1>15, <2>1, <3>1 DEF failRun, RunStates
    <3>2. CASE FinishRun
      <4>1. worker.run \in Runs /\ worker.row \in RunRows
        BY <1>1, <2>1 DEF WorkLocals
      <4> QED BY <3>2, <4>1, SaveRunFacts DEF FinishRun
    <3> QED BY <1>19, <3>1, <3>2
  <2> QED BY <1>1, <1>2, <1>13, <2>1, <2>2
<1>20. ASSUME WorkerStops PROVE EvalTypes'
  <2>1. stops' \in 0 .. MaxStops
    BY <1>1, <1>20, EvalRunsAssumption DEF WorkerStops
  <2> QED BY <1>1, <1>2, <1>13, <1>20, <1>r, <2>1 DEF WorkerStops
<1>21. CASE UNCHANGED evalVars
  BY <1>1, <1>c, <1>21 DEF evalVars
<1> QED
  BY <1>3, <1>4, <1>5, <1>6, <1>7, <1>8, <1>9, <1>10, <1>11, <1>12, <1>14, <1>17, <1>18, <1>19, <1>20, <1>21
  DEF EvalRunsNext, WorkerStep

\* A request that is answered: the run is added to the answers of its key.
LEMMA EvalAnswerFacts ==
    ASSUME EvalTypes, NEW c \in EvalCalls, NEW r, EvalAnswer(c, r), evalCall[c].key \in EvalKeys
    PROVE  /\ answered'[evalCall[c].key] = answered[evalCall[c].key] \cup {r}
           /\ \A k \in EvalKeys : k # evalCall[c].key => answered'[k] = answered[k]
           /\ evalCall'[c].pc = "idle" /\ \A d \in EvalCalls : d # c => evalCall'[d] = evalCall[d]
<1>1. answered' = [answered EXCEPT ![evalCall[c].key] = @ \cup {r}] /\ EvalReturn(c)
  BY DEF EvalAnswer
<1>2. PICK k \in EvalKeys : k = evalCall[c].key
  OBVIOUS
<1>3. answered' = [answered EXCEPT ![k] = answered[k] \cup {r}]
  BY <1>1, <1>2
<1>4. answered'[k] = answered[k] \cup {r} /\ \A j \in EvalKeys : j # k => answered'[j] = answered[j]
  BY <1>3 DEF EvalTypes
<1> QED BY <1>1, <1>2, <1>4, EvalReturnFacts

\* Every step keeps one answer for each key.
LEMMA OneAnswersStep ==
    ASSUME EvalTypes, OneAnswers, [EvalRunsNext]_evalVars
    PROVE  OneAnswers'
<1>1. /\ \A c \in EvalCalls : evalCall[c] \in EvalLocals
      /\ evalRecord \in [EvalKeys -> EvalRecords]
      /\ \A k \in EvalKeys : evalRecord[k] \in EvalRecords /\ answered[k] \in SUBSET Runs
  BY DEF EvalTypes
<1>2. \A c \in EvalCalls : evalCall[c].pc \in Requesting => evalCall[c].key \in EvalKeys
  BY <1>1 DEF EvalLocals
<1>3. retried \subseteq retried'
  BY DEF EvalRunsNext, evalVars, WorkerStep, processNext, TakeRun, executeRun, ExecuteCenterRun, failRun, RecheckRun, FinishRun, WorkerStops,
     AdminCreateEvalRun, beginEvalIdempotency, SaveEvalIdempotencyRecord, FindActiveRun, CreateEvalRun, completeEvalIdempotency,
     markEvalIdempotencyFailed, AdminCancelEvalRun, SaveCanceledRun, AdminDeleteEvalDataset, RemoveEvalDataset,
     AdminUpdateEvalDataset, SaveEvalDataset, EvalFail
\* A key that nothing happens to.
<1>q. ASSUME NEW k \in EvalKeys \ retried', evalRecord'[k] = evalRecord[k], answered'[k] = answered[k],
             \A d \in EvalCalls : Owns(d, k)' => Owns(d, k)
      PROVE  OneAnswer(k)'
  BY <1>3, <1>q DEF OneAnswers, OneAnswer
<1>o. ASSUME NEW c \in EvalCalls, NEW k, \A d \in EvalCalls : d # c => evalCall'[d] = evalCall[d],
             \/ evalCall'[c].pc \notin {"active", "create", "complete", "markFailed"}
             \/ evalCall'[c].key = evalCall[c].key /\ (evalCall[c].key # k \/ evalCall[c].pc \in {"active", "create", "complete", "markFailed"})
      PROVE  \A d \in EvalCalls : Owns(d, k)' => Owns(d, k)
  BY <1>o DEF Owns
<1>4. ASSUME UNCHANGED <<evalRecord, answered>>, \A k \in EvalKeys : \A d \in EvalCalls : Owns(d, k)' => Owns(d, k) PROVE OneAnswers'
  BY <1>4, <1>q DEF OneAnswers
<1>5. ASSUME UNCHANGED <<evalRecord, answered>>, NEW c \in EvalCalls, \A d \in EvalCalls : d # c => evalCall'[d] = evalCall[d],
             \/ evalCall'[c].pc \notin {"active", "create", "complete", "markFailed"}
             \/ evalCall'[c].key = evalCall[c].key /\ evalCall[c].pc \in {"active", "create", "complete", "markFailed"}
      PROVE  OneAnswers'
  BY <1>4, <1>5, <1>o
\* A completed record answers again: its key has the same answer.
<1>6. ASSUME NEW c \in EvalCalls, evalCall[c].key \in EvalKeys, evalRecord[evalCall[c].key].state = "completed",
             EvalAnswer(c, evalRecord[evalCall[c].key].result), UNCHANGED evalRecord
      PROVE  OneAnswers'
  <2>1. /\ answered'[evalCall[c].key] = answered[evalCall[c].key] \cup {evalRecord[evalCall[c].key].result}
        /\ \A k \in EvalKeys : k # evalCall[c].key => answered'[k] = answered[k]
        /\ evalCall'[c].pc = "idle" /\ \A d \in EvalCalls : d # c => evalCall'[d] = evalCall[d]
    BY <1>6, EvalAnswerFacts
  <2>2. ASSUME NEW k \in EvalKeys \ retried' PROVE OneAnswer(k)'
    <3>1. \A d \in EvalCalls : Owns(d, k)' => Owns(d, k)
      BY <1>o, <2>1
    <3>2. CASE k # evalCall[c].key
      BY <1>6, <1>q, <2>1, <3>1, <3>2
    <3>3. CASE k = evalCall[c].key
      <4>1. OneAnswer(k)
        BY <1>3 DEF OneAnswers
      <4>2. \A d \in EvalCalls : ~ Owns(d, k)
        BY <1>6, <3>3, <4>1 DEF OneAnswer
      <4>3. answered'[k] \subseteq {evalRecord[k].result} /\ evalRecord[k].result \in Runs /\ evalRecord'[k] = evalRecord[k]
        BY <1>1, <1>6, <2>1, <3>3, <4>1 DEF OneAnswer, EvalRecords
      <4> QED BY <1>6, <3>1, <3>3, <4>2, <4>3 DEF OneAnswer
    <3> QED BY <3>2, <3>3
  <2> QED BY <2>2 DEF OneAnswers
<1>7. ASSUME NEW c \in EvalCalls, EvalFail(c) \/ SaveCanceledRun(c) \/ RemoveEvalDataset(c) \/ SaveEvalDataset(c) PROVE OneAnswers'
  <2>1. EvalReturn(c) /\ UNCHANGED <<evalRecord, answered>>
    BY <1>7 DEF EvalFail, SaveCanceledRun, RemoveEvalDataset, SaveEvalDataset
  <2> QED BY <1>5, <2>1, EvalReturnFacts
<1>8. ASSUME NEW c \in EvalCalls,
             \/ AdminCreateEvalRun(c) \/ AdminCancelEvalRun(c)
             \/ AdminDeleteEvalDataset(c) \/ AdminUpdateEvalDataset(c)
      PROVE  OneAnswers'
  <2>1. \E l : evalCall' = [evalCall EXCEPT ![c] = l] /\ l.pc \in {"look", "cancel", "archive", "deleteDataset", "saveDataset"}
    <3>1. CASE AdminCreateEvalRun(c)
      <4>1. PICK k, f : evalCall' = [evalCall EXCEPT ![c] = [pc |-> "look", key |-> k, print |-> f, run |-> 0]]
        BY <3>1 DEF AdminCreateEvalRun
      <4>2. PICK l : l = [pc |-> "look", key |-> k, print |-> f, run |-> 0]
        OBVIOUS
      <4>3. l.pc = "look"
        BY <4>2
      <4> QED BY <4>1, <4>2, <4>3
    <3>2. CASE AdminCancelEvalRun(c)
      <4>1. PICK r \in Runs : evalCall' = [evalCall EXCEPT ![c] = [NoEvalCall EXCEPT !.pc = "cancel", !.run = r, !.print = run[r].print]]
        BY <3>2 DEF AdminCancelEvalRun
      <4>2. PICK l : l = [NoEvalCall EXCEPT !.pc = "cancel", !.run = r, !.print = run[r].print]
        OBVIOUS
      <4>3. l.pc = "cancel"
        BY <4>2 DEF NoEvalCall
      <4> QED BY <4>1, <4>2, <4>3
    <3>3. CASE AdminDeleteEvalDataset(c) \/ AdminUpdateEvalDataset(c)
      <4>1. PICK pc \in {"archive", "deleteDataset", "saveDataset"} : EvalGo(c, pc)
        BY <3>3 DEF AdminDeleteEvalDataset, AdminUpdateEvalDataset
      <4>2. PICK l : l = [evalCall[c] EXCEPT !.pc = pc]
        OBVIOUS
      <4>3. l.pc = pc /\ evalCall' = [evalCall EXCEPT ![c] = l]
        BY <1>1, <4>1, <4>2 DEF EvalLocals, EvalGo
      <4> QED BY <4>1, <4>3
    <3> QED BY <1>8, <3>1, <3>2, <3>3
  <2>2. evalCall'[c].pc \in {"look", "cancel", "archive", "deleteDataset", "saveDataset"}
        /\ \A d \in EvalCalls : d # c => evalCall'[d] = evalCall[d]
    BY <2>1 DEF EvalTypes
  <2>3. UNCHANGED <<evalRecord, answered>>
    BY <1>8 DEF AdminCreateEvalRun, AdminCancelEvalRun, AdminDeleteEvalDataset, AdminUpdateEvalDataset
  <2> QED BY <1>5, <2>2, <2>3
<1>10. ASSUME NEW c \in EvalCalls, beginEvalIdempotency(c) PROVE OneAnswers'
  <2> DEFINE rec == evalRecord[evalCall[c].key]
             verdict == FirstLook(rec, evalCall[c].print)
  <2>1. /\ evalCall[c].pc = "look" /\ UNCHANGED evalRecord
        /\ \/ verdict \in {"insert", "retry"} /\ EvalGo(c, verdict) /\ UNCHANGED answered
           \/ verdict = "refused" /\ EvalReturn(c) /\ UNCHANGED answered
           \/ verdict = "replay" /\ EvalAnswer(c, rec.result)
    BY <1>10 DEF beginEvalIdempotency, EvalAt
  <2>2. evalCall[c].key \in EvalKeys /\ rec.state \in RecordStates
    BY <1>1, <1>2, <2>1 DEF Requesting, EvalRecords
  <2>3. verdict = "replay" => rec.state = "completed"
    BY <2>2, FirstLookFacts
  <2>4. CASE verdict = "replay" /\ EvalAnswer(c, rec.result)
    BY <1>6, <2>1, <2>2, <2>3, <2>4
  <2> HIDE DEF rec, verdict
  <2>5. CASE verdict \in {"insert", "retry"} /\ EvalGo(c, verdict) /\ UNCHANGED answered
    BY <1>5, <2>1, <2>5, EvalGoFacts
  <2>6. CASE EvalReturn(c) /\ UNCHANGED answered
    BY <1>5, <2>1, <2>6, EvalReturnFacts
  <2> QED BY <2>1, <2>4, <2>5, <2>6
\* A record is written: its key had no answer and no request past its record, unless two
\* requests take it up again at the same time.
<1>11. ASSUME NEW c \in EvalCalls, SaveEvalIdempotencyRecord(c) PROVE OneAnswers'
  <2> DEFINE k0 == evalCall[c].key
             f == evalCall[c].print
  <2>1. evalCall[c].pc \in {"insert", "retry"} /\ k0 \in EvalKeys
    BY <1>2, <1>11 DEF SaveEvalIdempotencyRecord, Requesting
  <2>2. CASE UNCHANGED <<evalRecord, answered>> /\ EvalReturn(c)
    BY <1>5, <2>2, EvalReturnFacts
  <2>3. CASE UNCHANGED evalRecord /\ SecondLook(evalRecord[k0], f) = "replay" /\ EvalAnswer(c, evalRecord[k0].result)
    <3>1. evalRecord[k0].state = "completed"
      BY <2>3 DEF SecondLook
    <3> QED BY <1>6, <2>1, <2>3, <3>1
  <2>4. CASE /\ evalRecord' = [evalRecord EXCEPT ![k0] = Processing(f)] /\ EvalGo(c, "active") /\ UNCHANGED answered
             /\ evalCall[c].pc = "insert" => evalRecord[k0].state = "none"
             /\ retried' = IF evalCall[c].pc = "retry" /\ evalRecord[k0].state # "failed" THEN retried \cup {k0} ELSE retried
    <3>1. /\ evalCall'[c].pc = "active" /\ evalCall'[c].key = k0
          /\ \A d \in EvalCalls : d # c => evalCall'[d] = evalCall[d]
      BY <2>4, EvalGoFacts
    <3>2. evalRecord'[k0].state = "processing" /\ \A k \in EvalKeys : k # k0 => evalRecord'[k] = evalRecord[k]
      BY <1>1, <2>1, <2>4 DEF Processing
    <3>3. ASSUME NEW k \in EvalKeys \ retried' PROVE OneAnswer(k)'
      <4>1. CASE k # k0
        <5>1. \A d \in EvalCalls : Owns(d, k)' => Owns(d, k)
          BY <1>o, <3>1, <4>1
        <5> QED BY <1>q, <2>4, <3>2, <4>1, <5>1
      <4>2. CASE k = k0
        <5>1. OneAnswer(k) /\ evalRecord[k].state \in {"none", "failed"}
          BY <1>3, <2>1, <2>4, <4>2 DEF OneAnswers
        <5>2. answered[k] = {} /\ \A d \in EvalCalls : ~ Owns(d, k)
          BY <5>1 DEF OneAnswer
        <5>3. \A d \in EvalCalls : Owns(d, k)' => d = c
          BY <3>1, <5>2 DEF Owns
        <5> QED BY <2>4, <3>2, <4>2, <5>2, <5>3 DEF OneAnswer
      <4> QED BY <4>1, <4>2
    <3> QED BY <3>3 DEF OneAnswers
  <2> QED BY <1>11, <2>2, <2>3, <2>4 DEF SaveEvalIdempotencyRecord, EvalAt
<1>12. ASSUME NEW c \in EvalCalls, FindActiveRun(c) \/ CreateEvalRun(c) PROVE OneAnswers'
  <2>1. evalCall[c].pc \in {"active", "create"} /\ UNCHANGED <<evalRecord, answered>>
    BY <1>12 DEF FindActiveRun, CreateEvalRun, EvalAt
  <2>2. \/ \E pc : EvalGo(c, pc)
        \/ \E r : evalCall' = [evalCall EXCEPT ![c].pc = "complete", ![c].run = r]
    BY <1>12 DEF FindActiveRun, CreateEvalRun
  <2>3. evalCall'[c].key = evalCall[c].key /\ \A d \in EvalCalls : d # c => evalCall'[d] = evalCall[d]
    <3>1. CASE \E pc : EvalGo(c, pc)
      BY <3>1, EvalGoFacts
    <3>2. CASE \E r : evalCall' = [evalCall EXCEPT ![c].pc = "complete", ![c].run = r]
      BY <1>1, <3>2 DEF EvalTypes, EvalLocals
    <3> QED BY <2>2, <3>1, <3>2
  <2> QED BY <1>5, <2>1, <2>3
\* The owner of a key answers, or gives up.
<1>13. ASSUME NEW c \in EvalCalls, completeEvalIdempotency(c) \/ markEvalIdempotencyFailed(c) PROVE OneAnswers'
  <2> DEFINE k0 == evalCall[c].key
  <2>1. evalCall[c].pc \in {"complete", "markFailed"} /\ k0 \in EvalKeys /\ Owns(c, k0)
    BY <1>2, <1>13 DEF completeEvalIdempotency, markEvalIdempotencyFailed, EvalAt, Requesting, Owns
  <2>2. /\ evalCall'[c].pc = "idle" /\ \A d \in EvalCalls : d # c => evalCall'[d] = evalCall[d]
        /\ \A k \in EvalKeys : k # k0 => answered'[k] = answered[k] /\ evalRecord'[k] = evalRecord[k]
        /\ \/ /\ answered'[k0] = answered[k0] \cup {evalCall[c].run} /\ evalCall[c].run \in Runs
              /\ \/ evalRecord'[k0].state = "completed" /\ evalRecord'[k0].result = evalCall[c].run
                 \/ evalRecord'[k0] = evalRecord[k0]
           \/ answered'[k0] = answered[k0] /\ evalRecord'[k0].state = "failed"
    <3>1. CASE completeEvalIdempotency(c)
      <4>1. EvalAnswer(c, evalCall[c].run) /\ evalCall[c].pc = "complete"
        BY <3>1 DEF completeEvalIdempotency, EvalAt
      <4>2. evalCall[c].run \in Runs
        BY <1>1, <4>1 DEF EvalLocals
      <4>3. /\ \A k \in EvalKeys : k # k0 => evalRecord'[k] = evalRecord[k]
            /\ \/ evalRecord'[k0].state = "completed" /\ evalRecord'[k0].result = evalCall[c].run
               \/ evalRecord'[k0] = evalRecord[k0]
        BY <1>1, <2>1, <3>1 DEF completeEvalIdempotency, Completed
      <4> QED BY <2>1, <4>1, <4>2, <4>3, EvalAnswerFacts
    <3>2. CASE markEvalIdempotencyFailed(c)
      <4>1. EvalReturn(c) /\ UNCHANGED answered /\ evalRecord' = [evalRecord EXCEPT ![k0] = FailedRecord(evalCall[c].print)]
        BY <3>2 DEF markEvalIdempotencyFailed
      <4>2. evalRecord'[k0].state = "failed" /\ \A k \in EvalKeys : k # k0 => evalRecord'[k] = evalRecord[k]
        BY <1>1, <2>1, <4>1 DEF FailedRecord
      <4> QED BY <4>1, <4>2, EvalReturnFacts
    <3> QED BY <1>13, <3>1, <3>2
  <2>3. ASSUME NEW k \in EvalKeys \ retried' PROVE OneAnswer(k)'
    <3>1. \A d \in EvalCalls : Owns(d, k)' => Owns(d, k)
      BY <1>o, <2>2
    <3>2. CASE k # k0
      BY <1>q, <2>2, <3>1, <3>2
    <3>3. CASE k = k0
      <4>1. answered[k] = {} /\ evalRecord[k].state = "processing" /\ \A d \in EvalCalls : Owns(d, k) => d = c
        BY <1>3, <2>1, <3>3 DEF OneAnswers, OneAnswer
      <4>2. \A d \in EvalCalls : ~ Owns(d, k)'
        BY <2>2, <3>1, <4>1 DEF Owns
      <4> QED BY <2>2, <3>3, <4>1, <4>2 DEF OneAnswer
    <3> QED BY <3>2, <3>3
  <2> QED BY <2>3 DEF OneAnswers
<1>14. ASSUME UNCHANGED <<evalRecord, evalCall, answered>> PROVE OneAnswers'
  BY <1>4, <1>14 DEF Owns
<1>15. ASSUME WorkerStep \/ WorkerStops \/ UNCHANGED evalVars PROVE UNCHANGED <<evalRecord, evalCall, answered>>
  BY <1>15 DEF WorkerStep, processNext, TakeRun, executeRun, ExecuteCenterRun, failRun, RecheckRun, FinishRun, WorkerStops, evalVars
<1> QED
  BY <1>7, <1>8, <1>10, <1>11, <1>12, <1>13, <1>14, <1>15 DEF EvalRunsNext


\* The worker has its run as long as it works: only the worker itself ends a run.
LEMMA WorksOnStep ==
    ASSUME EvalTypes, WorksOn, [EvalRunsNext]_evalVars
    PROVE  WorksOn'
<1>1. worker.run \in Runs \cup {0} /\ (worker.pc # "idle" => worker.run \in Runs) /\ run \in [Runs -> RunRows]
  BY DEF EvalTypes, WorkLocals
<1>2. \A c \in EvalCalls : evalCall[c] \in EvalLocals
  BY DEF EvalTypes
\* The worker pauses.
<1>3. ASSUME worker' = NoWork PROVE WorksOn'
  BY <1>3 DEF WorksOn, NoWork
<1>4. ASSUME UNCHANGED run, worker.pc # "idle", worker'.run = worker.run PROVE WorksOn'
  BY <1>4 DEF WorksOn
\* A request writes a row that is new or canceled.
<1>5. ASSUME UNCHANGED worker, NEW r \in Runs, NEW row \in RunRows, SaveEvalRun(r, row),
             row.status \in {"queued", "running", "canceled"}
      PROVE  WorksOn'
  <2>1. run'[r] = row /\ \A s \in Runs : s # r => run'[s] = run[s]
    BY <1>1, <1>5 DEF SaveEvalRun
  <2> QED BY <1>1, <1>5, <2>1 DEF WorksOn
<1>6. ASSUME UNCHANGED <<run, worker>> PROVE WorksOn'
  BY <1>6 DEF WorksOn
<1>7. ASSUME NEW c \in EvalCalls, CreateEvalRun(c) PROVE WorksOn'
  <2>1. CASE UNCHANGED run
    BY <1>6, <1>7, <2>1 DEF CreateEvalRun
  <2>2. CASE \E r \in NextRun : SaveEvalRun(r, [status |-> "queued", print |-> evalCall[c].print])
    <3>1. PICK r \in Runs : SaveEvalRun(r, [status |-> "queued", print |-> evalCall[c].print])
      BY <2>2 DEF NextRun
    <3>2. [status |-> "queued", print |-> evalCall[c].print] \in RunRows
      BY <1>2 DEF EvalLocals, RunRows, RunStates
    <3> QED BY <1>5, <1>7, <3>1, <3>2 DEF CreateEvalRun
  <2> QED BY <1>7, <2>1, <2>2 DEF CreateEvalRun
<1>8. ASSUME NEW c \in EvalCalls, SaveCanceledRun(c) PROVE WorksOn'
  <2>1. evalCall[c].run \in Runs /\ [status |-> "canceled", print |-> evalCall[c].print] \in RunRows
    BY <1>2, <1>8 DEF SaveCanceledRun, EvalAt, EvalLocals, RunRows, RunStates
  <2> QED BY <1>5, <1>8, <2>1 DEF SaveCanceledRun
<1>9. ASSUME NEW c \in EvalCalls,
             \/ AdminCreateEvalRun(c) \/ beginEvalIdempotency(c) \/ SaveEvalIdempotencyRecord(c)
             \/ FindActiveRun(c) \/ completeEvalIdempotency(c) \/ markEvalIdempotencyFailed(c)
             \/ AdminCancelEvalRun(c) \/ AdminDeleteEvalDataset(c) \/ RemoveEvalDataset(c)
             \/ AdminUpdateEvalDataset(c) \/ SaveEvalDataset(c) \/ EvalFail(c)
      PROVE  WorksOn'
  BY <1>6, <1>9 DEF AdminCreateEvalRun, beginEvalIdempotency, SaveEvalIdempotencyRecord, FindActiveRun,
     completeEvalIdempotency, markEvalIdempotencyFailed, AdminCancelEvalRun, AdminDeleteEvalDataset,
     RemoveEvalDataset, AdminUpdateEvalDataset, SaveEvalDataset, EvalFail
\* The worker takes a queued run.
<1>10. ASSUME processNext PROVE WorksOn'
  <2> DEFINE queued == ListEvalRuns("queued")
  <2>1. /\ queued # {} /\ UNCHANGED run
        /\ worker' = [pc |-> "check", run |-> NewestOf(queued), row |-> run[NewestOf(queued)]]
    BY <1>10 DEF processNext, TakeRun
  <2>2. NewestOf(queued) \in queued
    <3>1. queued \in SUBSET Runs /\ \A r \in queued : run[r].status # "none"
      BY DEF ListEvalRuns
    <3> HIDE DEF queued
    <3> QED BY <2>1, <3>1, NewestFacts
  <2>3. PICK r \in Runs : r = NewestOf(queued) /\ run[r].status = "queued"
    BY <2>2 DEF ListEvalRuns
  <2>4. worker'.run = r
    <3> HIDE DEF queued
    <3> QED BY <2>1, <2>3
  <2> QED BY <2>1, <2>3, <2>4 DEF WorksOn
<1>11. ASSUME executeRun PROVE WorksOn'
  <2>1. worker.pc = "check" /\ worker.run \in Runs
    BY <1>1, <1>11 DEF executeRun
  <2>2. CASE worker' = NoWork
    BY <1>3, <2>2
  <2>3. CASE /\ SaveEvalRun(worker.run, [worker.row EXCEPT !.status = "running"])
             /\ WorkGo("evaluate", [worker.row EXCEPT !.status = "running"])
    <3>1. PICK row : row = [worker.row EXCEPT !.status = "running"]
      OBVIOUS
    <3>2. row.status = "running"
      BY <3>1 DEF EvalTypes, WorkLocals, RunRows
    <3>3. run' = [run EXCEPT ![worker.run] = row] /\ worker' = [worker EXCEPT !.pc = "evaluate", !.row = row]
      BY <2>3, <3>1 DEF SaveEvalRun, WorkGo
    <3>4. worker'.run = worker.run
      BY <3>3 DEF EvalTypes, WorkLocals
    <3>5. run'[worker.run] = row
      BY <1>1, <2>1, <3>3
    <3> QED BY <3>2, <3>4, <3>5 DEF WorksOn
  <2> QED BY <1>11, <2>2, <2>3 DEF executeRun
<1>12. ASSUME ExecuteCenterRun \/ RecheckRun PROVE WorksOn'
  <2>1. worker.pc # "idle" /\ UNCHANGED run /\ \E pc, row : worker' = [worker EXCEPT !.pc = pc, !.row = row]
    BY <1>12 DEF ExecuteCenterRun, RecheckRun, WorkGo
  <2>2. worker'.run = worker.run
    BY <2>1 DEF EvalTypes, WorkLocals
  <2> QED BY <1>4, <2>1, <2>2
<1>13. ASSUME failRun \/ FinishRun \/ WorkerStops PROVE WorksOn'
  BY <1>3, <1>13 DEF failRun, FinishRun, WorkerStops
<1>14. CASE UNCHANGED evalVars
  BY <1>6, <1>14 DEF evalVars
<1> QED
  BY <1>7, <1>8, <1>9, <1>10, <1>11, <1>12, <1>13, <1>14 DEF EvalRunsNext, WorkerStep

\* A step writes over the result of a run only as a cancellation that read the run before.
LEMMA ResultKeptStep ==
    ASSUME EvalTypes, WorksOn, [EvalRunsNext]_evalVars, NEW r \in Runs,
           run[r].status \in {"succeeded", "failed"}, run'[r] # run[r]
    PROVE  \E c \in EvalCalls : EvalAt(c, "cancel") /\ evalCall[c].run = r
<1>1. run \in [Runs -> RunRows] /\ worker.run \in Runs \cup {0} /\ ~ UNCHANGED run
  BY DEF EvalTypes, WorkLocals
<1>2. ASSUME NEW s \in Runs, NEW row, SaveEvalRun(s, row) PROVE s = r
  BY <1>1, <1>2 DEF SaveEvalRun
\* The worker writes the row of its own run, which has not ended.
<1>3. ASSUME NEW row, SaveEvalRun(worker.run, row), worker.pc # "idle" PROVE FALSE
  <2>1. worker.run \in Runs
    BY <1>3 DEF EvalTypes, WorkLocals
  <2>2. worker.run = r
    BY <1>2, <1>3, <2>1
  <2> QED BY <1>3, <2>2 DEF WorksOn
<1>4. ~ (executeRun \/ failRun \/ FinishRun)
  BY <1>3 DEF executeRun, failRun, FinishRun
<1>5. ~ (processNext \/ ExecuteCenterRun \/ RecheckRun \/ WorkerStops \/ UNCHANGED evalVars)
  BY <1>1 DEF processNext, TakeRun, ExecuteCenterRun, RecheckRun, WorkerStops, evalVars
<1>6. ASSUME NEW c \in EvalCalls,
             \/ AdminCreateEvalRun(c) \/ beginEvalIdempotency(c) \/ SaveEvalIdempotencyRecord(c)
             \/ FindActiveRun(c) \/ completeEvalIdempotency(c) \/ markEvalIdempotencyFailed(c)
             \/ AdminCancelEvalRun(c) \/ AdminDeleteEvalDataset(c) \/ RemoveEvalDataset(c)
             \/ AdminUpdateEvalDataset(c) \/ SaveEvalDataset(c) \/ EvalFail(c)
      PROVE  FALSE
  BY <1>1, <1>6 DEF AdminCreateEvalRun, beginEvalIdempotency, SaveEvalIdempotencyRecord, FindActiveRun,
     completeEvalIdempotency, markEvalIdempotencyFailed, AdminCancelEvalRun, AdminDeleteEvalDataset,
     RemoveEvalDataset, AdminUpdateEvalDataset, SaveEvalDataset, EvalFail
\* A new run has the id of no run yet.
<1>7. ASSUME NEW c \in EvalCalls, CreateEvalRun(c) PROVE FALSE
  <2>1. PICK s \in NextRun : SaveEvalRun(s, [status |-> "queued", print |-> evalCall[c].print])
    BY <1>1, <1>7 DEF CreateEvalRun
  <2>2. s \in Runs /\ run[s].status = "none"
    BY <2>1 DEF NextRun
  <2> QED BY <1>2, <2>1, <2>2
<1>8. ASSUME NEW c \in EvalCalls, SaveCanceledRun(c) PROVE EvalAt(c, "cancel") /\ evalCall[c].run = r
  <2>1. evalCall[c].run \in Runs /\ EvalAt(c, "cancel")
    BY <1>8 DEF SaveCanceledRun, EvalAt, EvalTypes, EvalLocals
  <2> QED BY <1>2, <1>8, <2>1 DEF SaveCanceledRun
<1> QED
  BY <1>4, <1>5, <1>6, <1>7, <1>8 DEF EvalRunsNext, WorkerStep

\* The invariants hold in every behaviour.
LEMMA EvalInvariants ==
    EvalRunsSpec => [](EvalTypes /\ OneAnswers /\ WorksOn)
<1>1. EvalRunsInit => EvalTypes /\ OneAnswers /\ WorksOn
  <2> SUFFICES ASSUME EvalRunsInit PROVE EvalTypes /\ OneAnswers /\ WorksOn
    OBVIOUS
  <2>1. NoEvalCall \in EvalLocals /\ NoEvalCall.pc = "idle"
    BY DEF NoEvalCall, EvalLocals, Requesting
  <2>2. NoRecord \in EvalRecords /\ NoRecord.state = "none"
    BY DEF NoRecord, EvalRecords, RecordStates
  <2>3. NoRunRow \in RunRows /\ NoRunRow.status = "none" /\ NoWork \in WorkLocals /\ NoWork.pc = "idle"
    BY DEF NoRunRow, RunRows, RunStates, NoWork, WorkLocals
  <2>4. EvalTypes
    <3>1. RunsBounded
      BY <2>3 DEF EvalRunsInit, RunsBounded
    <3> QED BY <2>1, <2>2, <2>3, <3>1, EvalRunsAssumption DEF EvalRunsInit, EvalTypes
  <2>5. OneAnswers
    <3>1. ASSUME NEW k \in EvalKeys PROVE OneAnswer(k)
      <4>1. \A c \in EvalCalls : ~ Owns(c, k)
        BY <2>1 DEF EvalRunsInit, Owns
      <4>2. answered[k] = {} /\ evalRecord[k].state = "none"
        BY <2>2 DEF EvalRunsInit
      <4> QED BY <4>1, <4>2 DEF OneAnswer
    <3> QED BY <3>1 DEF OneAnswers
  <2>6. WorksOn
    BY <2>3 DEF EvalRunsInit, WorksOn
  <2> QED BY <2>4, <2>5, <2>6
<1>2. EvalTypes /\ OneAnswers /\ WorksOn /\ [EvalRunsNext]_evalVars => (EvalTypes /\ OneAnswers /\ WorksOn)'
  BY EvalTypesStep, OneAnswersStep, WorksOnStep
<1> QED BY <1>1, <1>2, PTL DEF EvalRunsSpec

\* An idempotency key of the eval center is answered with one run, whichever requests overlap
\* and whichever statement fails (beginEvalIdempotency and completeEvalIdempotency in
\* eval_center.go); the keys two requests took up again at the same time are apart.
THEOREM OneRunPerKeyCorrect ==
    EvalRunsSpec => []OneRunPerKey
<1>1. OneAnswers => OneRunPerKey
  <2> SUFFICES ASSUME OneAnswers, NEW k \in EvalKeys \ retried PROVE Cardinality(answered[k]) <= 1
    BY DEF OneRunPerKey
  <2>1. PICK r : answered[k] \subseteq {r}
    BY DEF OneAnswers, OneAnswer
  <2> QED BY <2>1, AtMostOne
<1> QED BY <1>1, EvalInvariants, PTL

\* A run that succeeded or failed is written over by nothing but a cancellation that read it
\* before it ended: the worker executes a queued run and never one that ended (processNext,
\* executeRun).
THEOREM ResultKeptCorrect ==
    EvalRunsSpec => ResultKept
<1> DEFINE Kept == \A r \in Runs : run[r].status \in {"succeeded", "failed"} /\ run'[r] # run[r]
                        => \E c \in EvalCalls : EvalAt(c, "cancel") /\ evalCall[c].run = r
<1>1. EvalTypes /\ WorksOn /\ [EvalRunsNext]_evalVars => [Kept]_evalVars
  BY ResultKeptStep
<1> HIDE DEF Kept
<1>2. EvalRunsSpec => [][Kept]_evalVars
  BY <1>1, EvalInvariants, PTL DEF EvalRunsSpec
<1> QED BY <1>2 DEF ResultKept, Kept

-----------------------------------------------------------------------------
(* The books. *)

\* The shapes of the variables: a request and the cleanup have the locals their places rely
\* on, and a row keeps its key after it is removed, as an id is not used again.
UploadRecords == [state : RecordStates, hash : Hashes \cup {"none"}, result : Books \cup {"none"}]
BookRows ==
    {row \in [state : {"none", "live", "deleted"}, cleanup : {"none", "queued", "running", "failed"},
              key : BookKeys \cup {"none"}] :
        row.state # "none" => row.key \in BookKeys}
Naming == {"look", "insert", "retry", "put", "save", "deleteObject", "markFailed"}
Holding == {"put", "save", "deleteObject", "write", "markDeleted", "requeue"}
UploadLocals ==
    {l \in [pc : Naming \cup Holding \cup {"idle"}, key : BookKeys \cup {"none"},
            hash : Hashes \cup {"none"}, book : Books \cup {0}] :
        /\ l.pc \in Naming => l.key \in BookKeys /\ l.hash \in Hashes
        /\ l.pc = "write" => l.key \in BookKeys
        /\ l.pc \in Holding => l.book \in Books}
CleanerLocals ==
    {l \in [pc : {"idle", "next", "search", "object", "row"}, todo : SUBSET Books, book : Books \cup {0}] :
        l.pc \in {"search", "object", "row"} => l.book \in Books}
UploadTypes ==
    /\ bookRecord \in [BookKeys -> UploadRecords]
    /\ book \in [Books -> BookRows]
    /\ object \subseteq Books /\ undeleted \subseteq Books /\ stranded \subseteq Books
    /\ excused \subseteq BookKeys /\ faults \in 0 .. MaxFaults
    /\ bookCall \in [BookCalls -> UploadLocals]
    /\ cleaner \in CleanerLocals

\* A request past its record is the only one of its key, the record says so, and no book was
\* made for the key.
Files(c, k) == bookCall[c].pc \in {"put", "save", "deleteObject", "markFailed"} /\ bookCall[c].key = k
Unmade(k) == \A b \in Books : book[b].key # k
OneBook(k) ==
    /\ \A c \in BookCalls : Files(c, k) => /\ bookRecord[k].state = "processing" /\ Unmade(k)
                                           /\ \A d \in BookCalls : Files(d, k) => d = c
    /\ bookRecord[k].state \in {"none", "failed"} => Unmade(k)
    /\ \E x : \A b \in Books : book[b].key = k => b = x
OneBooks == \A k \in BookKeys \ excused : OneBook(k)

\* The id of a book that is being made is one request's, and new; its file is stored before it
\* is saved, and deleted only if it was not saved, or may not have been. A row that is written
\* back has its key.
Filing(c) == bookCall[c].pc \in {"put", "save", "deleteObject"}
FilesApart ==
    \A c, d \in BookCalls : Filing(c) /\ Filing(d) /\ bookCall[c].book = bookCall[d].book => c = d
FilingHas(c) ==
    LET b == bookCall[c].book
    IN  /\ bookCall[c].pc \in {"put", "save"} => book[b].key = "none"
        /\ bookCall[c].pc = "save" => b \in object
        /\ bookCall[c].pc = "deleteObject" => book[b].key \in {"none"} \cup excused
        /\ bookCall[c].pc = "write" => book[b].key = bookCall[c].key
Filings == FilesApart /\ \A c \in BookCalls : FilingHas(c)

\* The books the cleanup has claimed are deleted, unless a stale row brought one back.
Cleaning ==
    \A b \in Books : b \in cleaner.todo \/ b = cleaner.book =>
        book[b].key # "none" /\ (book[b].state = "live" => b \in undeleted)

\* A request goes on with its locals.
LEMMA BookGoFacts ==
    ASSUME UploadTypes, NEW c \in BookCalls, NEW pc, BookGo(c, pc)
    PROVE  /\ bookCall'[c].pc = pc /\ bookCall'[c].key = bookCall[c].key /\ bookCall'[c].book = bookCall[c].book
           /\ \A d \in BookCalls : d # c => bookCall'[d] = bookCall[d]
           /\ (bookCall[c].pc \in Naming /\ pc \in Naming /\ (pc \in Holding => bookCall[c].book \in Books))
                => bookCall' \in [BookCalls -> UploadLocals]
<1>1. PICK l : l = [bookCall[c] EXCEPT !.pc = pc]
  OBVIOUS
<1>2. bookCall' = [bookCall EXCEPT ![c] = l] /\ bookCall[c] \in UploadLocals
  BY <1>1 DEF UploadTypes, BookGo
<1>3. l.pc = pc /\ l.key = bookCall[c].key /\ l.hash = bookCall[c].hash /\ l.book = bookCall[c].book
  BY <1>1, <1>2 DEF UploadLocals
<1>4. bookCall[c].pc \in Naming /\ pc \in Naming /\ (pc \in Holding => bookCall[c].book \in Books) => l \in UploadLocals
  BY <1>1, <1>2 DEF UploadLocals, Naming, Holding
<1> QED BY <1>2, <1>3, <1>4 DEF UploadTypes

\* A request ends.
LEMMA BookReturnFacts ==
    ASSUME UploadTypes, NEW c \in BookCalls, BookReturn(c)
    PROVE  /\ bookCall' \in [BookCalls -> UploadLocals] /\ bookCall'[c].pc = "idle"
           /\ \A d \in BookCalls : d # c => bookCall'[d] = bookCall[d]
BY DEF UploadTypes, UploadLocals, BookReturn, NoBookCall, Naming, Holding

\* A request starts anew.
LEMMA BookStartFacts ==
    ASSUME UploadTypes, NEW c \in BookCalls, NEW l \in UploadLocals, bookCall' = [bookCall EXCEPT ![c] = l]
    PROVE  /\ bookCall' \in [BookCalls -> UploadLocals] /\ bookCall'[c] = l
           /\ \A d \in BookCalls : d # c => bookCall'[d] = bookCall[d]
BY DEF UploadTypes

\* The id a request takes for its book is nobody's.
LEMMA NewBookIDFacts ==
    ASSUME UnusedBook # {}
    PROVE  /\ NewBookID \in Books /\ book[NewBookID].key = "none" /\ NewBookID \notin object
           /\ \A c \in BookCalls : bookCall[c].book # NewBookID
<1> DEFINE First(b) == \A d \in UnusedBook : b <= d
<1>1. UnusedBook \in SUBSET Nat
  BY BookUploadsAssumption DEF UnusedBook
<1>2. \E b \in UnusedBook : First(b)
  BY <1>1, LeastExists
<1>3. NewBookID = CHOOSE b \in UnusedBook : First(b)
  BY DEF NewBookID
<1> HIDE DEF First
<1>4. NewBookID \in UnusedBook
  BY <1>2, <1>3
<1> QED BY <1>4 DEF UnusedBook

\* A request of a key gets its id.
LEMMA BookIdFacts ==
    ASSUME UploadTypes, NEW c \in BookCalls, bookCall[c].pc \in Naming, NEW b \in Books,
           bookCall' = [bookCall EXCEPT ![c].pc = "put", ![c].book = b]
    PROVE  /\ bookCall' \in [BookCalls -> UploadLocals]
           /\ bookCall'[c].pc = "put" /\ bookCall'[c].key = bookCall[c].key /\ bookCall'[c].book = b
           /\ \A d \in BookCalls : d # c => bookCall'[d] = bookCall[d]
BY ZenonT(30) DEF UploadTypes, UploadLocals, Naming, Holding

\* The cleanup column of a row is written: the row keeps its state and its key.
LEMMA CleanupColumnFacts ==
    ASSUME UploadTypes, NEW b, NEW s \in {"none", "queued", "running", "failed"}, UpdateBookCleanup(b, s)
    PROVE  /\ book' \in [Books -> BookRows]
           /\ \A d \in Books : book'[d].key = book[d].key /\ book'[d].state = book[d].state
<1>1. CASE UNCHANGED book
  BY <1>1 DEF UploadTypes
<1>2. CASE book' = [book EXCEPT ![b].cleanup = s] /\ b \in Books
  <2>1. PICK row : row = [book[b] EXCEPT !.cleanup = s]
    OBVIOUS
  <2>2. row \in BookRows /\ row.key = book[b].key /\ row.state = book[b].state
    BY <1>2, <2>1 DEF UploadTypes, BookRows
  <2>3. book' = [book EXCEPT ![b] = row]
    BY <1>2, <2>1
  <2> QED BY <1>2, <2>2, <2>3 DEF UploadTypes
<1>3. CASE book' = [book EXCEPT ![b].cleanup = s] /\ b \notin Books
  BY <1>3 DEF UploadTypes
<1> QED BY <1>1, <1>2, <1>3 DEF UpdateBookCleanup

\* A call of the cleanup fails.
LEMMA CleanupFailsFacts ==
    ASSUME UploadTypes, CleanupFails, cleaner.pc \in {"search", "object", "row"}
    PROVE  /\ book' \in [Books -> BookRows] /\ UNCHANGED object
           /\ \A d \in Books : book'[d].key = book[d].key /\ book'[d].state = book[d].state
           /\ faults' \in 0 .. MaxFaults /\ stranded' \subseteq Books
           /\ cleaner' \in CleanerLocals /\ cleaner'.todo = cleaner.todo /\ cleaner'.book = 0
<1>1. faults' \in 0 .. MaxFaults
  BY BookUploadsAssumption DEF CleanupFails, UploadTypes
<1>2. cleaner.book \in Books
  BY DEF UploadTypes, CleanerLocals
<1>3. stranded' \subseteq Books /\ book' \in [Books -> BookRows]
        /\ \A d \in Books : book'[d].key = book[d].key /\ book'[d].state = book[d].state
  <2>1. CASE UpdateBookCleanup(cleaner.book, "failed") /\ UNCHANGED stranded
    <3>1. stranded' \subseteq Books
      BY <2>1 DEF UploadTypes
    <3> QED BY <2>1, <3>1, CleanupColumnFacts
  <2>2. CASE UNCHANGED book /\ stranded' = stranded \cup {cleaner.book}
    BY <1>2, <2>2 DEF UploadTypes
  <2> QED BY <2>1, <2>2 DEF CleanupFails
<1>4. cleaner' \in CleanerLocals /\ cleaner'.todo = cleaner.todo /\ cleaner'.book = 0
  BY DEF CleanupFails, UploadTypes, CleanerLocals
<1> QED BY <1>1, <1>3, <1>4 DEF CleanupFails

\* Every step keeps the shapes.
LEMMA UploadTypesStep ==
    ASSUME UploadTypes, [BookUploadsNext]_bookVars
    PROVE  UploadTypes'
<1>1. /\ bookRecord \in [BookKeys -> UploadRecords] /\ book \in [Books -> BookRows]
      /\ object \subseteq Books /\ undeleted \subseteq Books /\ stranded \subseteq Books
      /\ excused \subseteq BookKeys /\ faults \in 0 .. MaxFaults
      /\ bookCall \in [BookCalls -> UploadLocals] /\ cleaner \in CleanerLocals
      /\ \A c \in BookCalls : bookCall[c] \in UploadLocals
  BY DEF UploadTypes
\* A request changes its place and nothing else.
<1>c. ASSUME bookCall' \in [BookCalls -> UploadLocals],
             UNCHANGED <<bookRecord, book, object, cleaner, faults, excused, undeleted, stranded>>
      PROVE  UploadTypes'
  BY <1>1, <1>c DEF UploadTypes
\* A request has the locals of its place.
<1>l. ASSUME NEW c \in BookCalls
      PROVE  /\ bookCall[c].pc \in Naming => bookCall[c].key \in BookKeys /\ bookCall[c].hash \in Hashes
             /\ bookCall[c].pc \in Holding => bookCall[c].book \in Books
  BY <1>1 DEF UploadLocals
<1>2. ASSUME NEW c \in BookCalls, UploadBook(c) PROVE UploadTypes'
  <2>1. PICK k \in BookKeys, h \in Hashes : bookCall' = [bookCall EXCEPT ![c] = [pc |-> "look", key |-> k, hash |-> h, book |-> 0]]
    BY <1>2 DEF UploadBook
  <2>2. [pc |-> "look", key |-> k, hash |-> h, book |-> 0] \in UploadLocals
    BY DEF UploadLocals, Naming, Holding
  <2> QED BY <1>2, <1>c, <2>1, <2>2, BookStartFacts DEF UploadBook
<1>3. ASSUME NEW c \in BookCalls, beginBookIdempotency(c) PROVE UploadTypes'
  <2>1. bookCall[c].pc = "look" /\ (BookReturn(c) \/ \E pc \in {"insert", "retry"} : BookGo(c, pc))
    BY <1>3 DEF beginBookIdempotency, BookAt
  <2>2. bookCall' \in [BookCalls -> UploadLocals]
    BY <2>1, BookReturnFacts, BookGoFacts DEF Naming, Holding
  <2> QED BY <1>3, <1>c, <2>2 DEF beginBookIdempotency
<1>4. ASSUME NEW c \in BookCalls, SaveIdempotencyRecord(c) PROVE UploadTypes'
  <2>1. bookCall[c].pc \in {"insert", "retry"} /\ UNCHANGED <<book, object, cleaner, faults, undeleted, stranded>>
    BY <1>4 DEF SaveIdempotencyRecord
  <2>2. bookCall[c].key \in BookKeys /\ bookCall[c].hash \in Hashes
    BY <1>l, <2>1 DEF Naming
  <2>3. CASE BookReturn(c) /\ UNCHANGED <<bookRecord, excused>>
    BY <1>c, <2>1, <2>3, BookReturnFacts
  <2>4. CASE /\ UnusedBook # {} /\ bookRecord' = [bookRecord EXCEPT ![bookCall[c].key] = Processing(bookCall[c].hash)]
             /\ bookCall' = [bookCall EXCEPT ![c].pc = "put", ![c].book = NewBookID]
             /\ excused' \in {excused, excused \cup {bookCall[c].key}}
    <3>1. bookCall' \in [BookCalls -> UploadLocals]
      <4>1. PICK b \in Books : b = NewBookID
        BY <2>4, NewBookIDFacts
      <4> QED BY <2>1, <2>4, <4>1, BookIdFacts DEF Naming
    <3>2. Processing(bookCall[c].hash) \in UploadRecords
      BY <2>2 DEF Processing, UploadRecords, RecordStates
    <3>3. excused' \subseteq BookKeys
      BY <1>1, <2>2, <2>4
    <3> QED BY <1>1, <2>1, <2>4, <3>1, <3>2, <3>3 DEF UploadTypes
  <2> QED BY <1>4, <2>3, <2>4 DEF SaveIdempotencyRecord
<1>5. ASSUME NEW c \in BookCalls, PutObject(c) \/ DeleteObject(c) PROVE UploadTypes'
  <2>1. /\ bookCall[c].pc \in {"put", "deleteObject"} /\ \E pc \in {"save", "markFailed"} : BookGo(c, pc)
        /\ object' \in {object, object \cup {bookCall[c].book}, object \ {bookCall[c].book}}
        /\ UNCHANGED <<bookRecord, book, cleaner, faults, excused, undeleted, stranded>>
    BY <1>5 DEF PutObject, DeleteObject, BookAt
  <2>2. bookCall[c].book \in Books
    BY <1>l, <2>1 DEF Holding
  <2>3. bookCall' \in [BookCalls -> UploadLocals]
    BY <2>1, <2>2, BookGoFacts DEF Naming
  <2>4. object' \subseteq Books
    BY <1>1, <2>1, <2>2
  <2> QED BY <1>1, <2>1, <2>3, <2>4 DEF UploadTypes
<1>6. ASSUME NEW c \in BookCalls, SaveBookAndOutbox(c) PROVE UploadTypes'
  <2>1. bookCall[c].pc = "save" /\ UNCHANGED <<object, cleaner, faults, undeleted, stranded>>
    BY <1>6 DEF SaveBookAndOutbox, BookAt
  <2>2. bookCall[c].key \in BookKeys /\ bookCall[c].hash \in Hashes /\ bookCall[c].book \in Books
    BY <1>l, <2>1 DEF Naming, Holding
  <2>3. bookCall' \in [BookCalls -> UploadLocals]
    <3>1. BookReturn(c) \/ BookGo(c, "deleteObject")
      BY <1>6 DEF SaveBookAndOutbox
    <3> QED BY <2>1, <2>2, <3>1, BookReturnFacts, BookGoFacts DEF Naming, Holding
  <2>4. excused' \subseteq BookKeys
    BY <1>1, <1>6, <2>2 DEF SaveBookAndOutbox
  <2>5. [state |-> "live", cleanup |-> "none", key |-> bookCall[c].key] \in BookRows
    BY <2>2 DEF BookRows
  <2>6. Completed(bookCall[c].hash, bookCall[c].book) \in UploadRecords
    BY <2>2 DEF UploadRecords, Completed, RecordStates
  <2>7. \/ UNCHANGED <<book, bookRecord>>
        \/ /\ book' = [book EXCEPT ![bookCall[c].book] = [state |-> "live", cleanup |-> "none", key |-> bookCall[c].key]]
           /\ bookRecord' = [bookRecord EXCEPT ![bookCall[c].key] = Completed(bookCall[c].hash, bookCall[c].book)]
    BY <1>6 DEF SaveBookAndOutbox
  <2>8. book' \in [Books -> BookRows] /\ bookRecord' \in [BookKeys -> UploadRecords]
    BY <1>1, <2>2, <2>5, <2>6, <2>7
  <2> QED BY <1>1, <2>1, <2>3, <2>4, <2>8 DEF UploadTypes
<1>7. ASSUME NEW c \in BookCalls, markBookIdempotencyFailed(c) PROVE UploadTypes'
  <2>1. bookCall[c].hash \in Hashes
    BY <1>7, <1>l DEF markBookIdempotencyFailed, BookAt, Naming
  <2>2. FailedRecord(bookCall[c].hash) \in UploadRecords
    BY <2>1 DEF FailedRecord, UploadRecords, RecordStates
  <2>3. bookRecord' \in [BookKeys -> UploadRecords] /\ bookCall' \in [BookCalls -> UploadLocals]
    BY <1>1, <1>7, <2>2, BookReturnFacts DEF markBookIdempotencyFailed
  <2> QED BY <1>1, <1>7, <2>3 DEF markBookIdempotencyFailed, UploadTypes
<1>8. ASSUME NEW c \in BookCalls, BookCallStops(c) PROVE UploadTypes'
  <2>1. faults' \in 0 .. MaxFaults
    BY <1>1, <1>8, BookUploadsAssumption DEF BookCallStops
  <2> QED BY <1>1, <1>8, <2>1, BookReturnFacts DEF BookCallStops, UploadTypes
<1>9. ASSUME NEW c \in BookCalls, ReadBook(c) PROVE UploadTypes'
  <2>1. PICK b \in Books :
          /\ book[b].state = "live"
          /\ bookCall' = [bookCall EXCEPT ![c] = [pc |-> "write", key |-> book[b].key, hash |-> "none", book |-> b]]
    BY <1>9 DEF ReadBook, GetBook
  <2>2. [pc |-> "write", key |-> book[b].key, hash |-> "none", book |-> b] \in UploadLocals
    BY <1>1, <2>1 DEF UploadLocals, BookRows, Naming, Holding
  <2> QED BY <1>9, <1>c, <2>1, <2>2, BookStartFacts DEF ReadBook
<1>10. ASSUME NEW c \in BookCalls, DeleteBook(c) PROVE UploadTypes'
  <2>1. PICK b \in Books, pc \in {"markDeleted", "requeue"} :
          bookCall' = [bookCall EXCEPT ![c] = [NoBookCall EXCEPT !.pc = pc, !.book = b]]
    BY <1>10 DEF DeleteBook
  <2>2. PICK l : l = [NoBookCall EXCEPT !.pc = pc, !.book = b]
    OBVIOUS
  <2>3. l \in UploadLocals
    BY <2>2 DEF NoBookCall, UploadLocals, Naming, Holding
  <2> QED BY <1>10, <1>c, <2>1, <2>2, <2>3, BookStartFacts DEF DeleteBook
<1>11. ASSUME NEW c \in BookCalls, SaveBook(c) PROVE UploadTypes'
  <2>1. bookCall[c].pc = "write"
    BY <1>11 DEF SaveBook, BookAt
  <2>2. bookCall[c].book \in Books /\ bookCall[c].key \in BookKeys
    BY <1>1, <2>1 DEF UploadLocals, Holding
  <2>3. [state |-> "live", cleanup |-> "none", key |-> bookCall[c].key] \in BookRows
    BY <2>2 DEF BookRows
  <2>4. book' \in [Books -> BookRows] /\ undeleted' \subseteq Books
    BY <1>1, <1>11, <2>2, <2>3 DEF SaveBook
  <2> QED BY <1>1, <1>11, <2>4, BookReturnFacts DEF SaveBook, UploadTypes
<1>12. ASSUME NEW c \in BookCalls, MarkBookDeleted(c) PROVE UploadTypes'
  <2>1. bookCall[c].book \in Books
    BY <1>12, <1>l DEF MarkBookDeleted, BookAt, Holding
  <2>2. book' \in [Books -> BookRows]
    <3>1. PICK row : row = [book[bookCall[c].book] EXCEPT !.state = "deleted", !.cleanup = "queued"]
      OBVIOUS
    <3>2. book[bookCall[c].book].state = "live" => row \in BookRows
      <4>1. PICK old \in BookRows : old = book[bookCall[c].book]
        BY <1>1, <2>1
      <4>2. row = [old EXCEPT !.state = "deleted", !.cleanup = "queued"]
        BY <3>1, <4>1
      <4> QED BY <4>1, <4>2 DEF BookRows
    <3>3. \/ UNCHANGED book
          \/ book[bookCall[c].book].state = "live" /\ book' = [book EXCEPT ![bookCall[c].book] = row]
      BY <1>12, <3>1 DEF MarkBookDeleted
    <3> QED BY <1>1, <2>1, <3>2, <3>3
  <2> QED BY <1>1, <1>12, <2>2, BookReturnFacts DEF MarkBookDeleted, UploadTypes
<1>13. ASSUME NEW c \in BookCalls, RequeueCleanup(c) PROVE UploadTypes'
  <2>1. book' \in [Books -> BookRows]
    BY <1>13, CleanupColumnFacts DEF RequeueCleanup
  <2> QED BY <1>1, <1>13, <2>1, BookReturnFacts DEF RequeueCleanup, UploadTypes
<1>14. ASSUME ClaimBooksPendingCleanup PROVE UploadTypes'
  <2>1. \A b \in Books : [book[b] EXCEPT !.cleanup = "running"] \in BookRows
    BY <1>1 DEF BookRows
  <2>2. book' \in [Books -> BookRows]
    BY <1>1, <1>14, <2>1 DEF ClaimBooksPendingCleanup
  <2>3. cleaner' \in CleanerLocals
    BY <1>14 DEF ClaimBooksPendingCleanup, CleanerLocals, PendingCleanup
  <2> QED BY <1>1, <1>14, <2>2, <2>3 DEF ClaimBooksPendingCleanup, UploadTypes
<1>15. ASSUME NextCleanup PROVE UploadTypes'
  <2>1. cleaner' \in CleanerLocals
    BY <1>1, <1>15 DEF NextCleanup, NoCleanup, CleanerLocals
  <2> QED BY <1>1, <1>15, <2>1 DEF NextCleanup, UploadTypes
<1>16. ASSUME CleanupSearch \/ CleanupObject \/ CleanupRow PROVE UploadTypes'
  <2>1. cleaner.pc \in {"search", "object", "row"} /\ UNCHANGED <<bookRecord, bookCall, excused, undeleted>>
    BY <1>16 DEF CleanupSearch, CleanupObject, CleanupRow
  <2>2. cleaner.book \in Books
    BY <1>1, <2>1 DEF CleanerLocals
  <2>3. CASE CleanupFails
    BY <1>1, <2>1, <2>3, CleanupFailsFacts DEF UploadTypes
  <2>4. CASE /\ CleanerGo("object") \/ CleanerGo("row")
             /\ object' \in {object, object \ {cleaner.book}} /\ UNCHANGED <<book, faults, stranded>>
    <3>1. cleaner' \in CleanerLocals
      BY <1>1, <2>2, <2>4 DEF CleanerGo, CleanerLocals
    <3>2. object' \subseteq Books
      BY <1>1, <2>4
    <3> QED BY <1>1, <2>1, <2>4, <3>1, <3>2 DEF UploadTypes
  <2>5. CASE /\ book' = [book EXCEPT ![cleaner.book].state = "none", ![cleaner.book].cleanup = "none"]
             /\ cleaner' = [cleaner EXCEPT !.pc = "next", !.book = 0] /\ UNCHANGED <<object, faults, stranded>>
    <3>1. PICK row : row = [book[cleaner.book] EXCEPT !.state = "none", !.cleanup = "none"]
      OBVIOUS
    <3>2. row \in BookRows /\ book' = [book EXCEPT ![cleaner.book] = row]
      BY <1>1, <2>2, <2>5, <3>1, ZenonT(30) DEF BookRows
    <3>3. book' \in [Books -> BookRows]
      BY <1>1, <3>2
    <3>4. cleaner' \in CleanerLocals
      BY <1>1, <2>5 DEF CleanerLocals
    <3> QED BY <1>1, <2>1, <2>5, <3>3, <3>4 DEF UploadTypes
  <2> QED BY <1>16, <2>3, <2>4, <2>5 DEF CleanupSearch, CleanupObject, CleanupRow
<1>17. ASSUME CleanerStops PROVE UploadTypes'
  <2>1. faults' \in 0 .. MaxFaults
    BY <1>1, <1>17, BookUploadsAssumption DEF CleanerStops
  <2>2. stranded' \subseteq Books /\ cleaner' \in CleanerLocals
    BY <1>1, <1>17 DEF CleanerStops, NoCleanup, CleanerLocals
  <2> QED BY <1>1, <1>17, <2>1, <2>2 DEF CleanerStops, UploadTypes
<1>18. CASE UNCHANGED bookVars
  BY <1>1, <1>18 DEF bookVars, UploadTypes
<1> QED
  BY <1>2, <1>3, <1>4, <1>5, <1>6, <1>7, <1>8, <1>9, <1>10, <1>11, <1>12, <1>13, <1>14, <1>15, <1>16, <1>17, <1>18
  DEF BookUploadsNext, CleanerStep

\* What a step does to the rows and the objects: only the transaction of an upload gives a row
\* its key, a row comes back only as an undeleted one, and an object goes with the upload that
\* failed or with the cleanup of its book.
LEMMA BookWrites ==
    ASSUME UploadTypes, Filings, [BookUploadsNext]_bookVars
    PROVE  /\ excused \subseteq excused' /\ undeleted \subseteq undeleted'
           /\ \A b \in Books :
                \/ book'[b].key = book[b].key /\ (book'[b].state = "live" => book[b].state = "live" \/ b \in undeleted')
                \/ \E c \in BookCalls : /\ SaveBookAndOutbox(c) /\ bookCall[c].pc = "save"
                                        /\ bookCall[c].book = b /\ book'[b].key = bookCall[c].key
           /\ \A b \in object \ object' :
                \/ cleaner.pc = "object" /\ cleaner.book = b
                \/ \E c \in BookCalls : DeleteObject(c) /\ bookCall[c].pc = "deleteObject" /\ bookCall[c].book = b
<1> DEFINE Goal ==
      /\ excused \subseteq excused' /\ undeleted \subseteq undeleted'
      /\ \A b \in Books :
           \/ book'[b].key = book[b].key /\ (book'[b].state = "live" => book[b].state = "live" \/ b \in undeleted')
           \/ \E c \in BookCalls : /\ SaveBookAndOutbox(c) /\ bookCall[c].pc = "save"
                                   /\ bookCall[c].book = b /\ book'[b].key = bookCall[c].key
      /\ \A b \in object \ object' :
           \/ cleaner.pc = "object" /\ cleaner.book = b
           \/ \E c \in BookCalls : DeleteObject(c) /\ bookCall[c].pc = "deleteObject" /\ bookCall[c].book = b
<1>1. book \in [Books -> BookRows] /\ \A c \in BookCalls : bookCall[c] \in UploadLocals
  BY DEF UploadTypes
\* Nothing but places and records.
<1>2. ASSUME UNCHANGED <<book, object>>, excused \subseteq excused', undeleted \subseteq undeleted' PROVE Goal
  BY <1>2
\* The rows keep their keys, and none comes back.
<1>3. ASSUME UNCHANGED <<excused, undeleted>>, object \subseteq object',
             \A b \in Books : book'[b].key = book[b].key /\ (book'[b].state = "live" => book[b].state = "live")
      PROVE  Goal
  BY <1>3
<1>4. ASSUME NEW c \in BookCalls,
             \/ UploadBook(c) \/ beginBookIdempotency(c) \/ SaveIdempotencyRecord(c) \/ markBookIdempotencyFailed(c)
             \/ ReadBook(c) \/ DeleteBook(c) \/ BookCallStops(c)
      PROVE  Goal
  BY <1>2, <1>4 DEF UploadBook, beginBookIdempotency, SaveIdempotencyRecord, markBookIdempotencyFailed, ReadBook, DeleteBook, BookCallStops
<1>5. ASSUME NEW c \in BookCalls, PutObject(c) PROVE Goal
  BY <1>3, <1>5 DEF PutObject
<1>6. ASSUME NEW c \in BookCalls, DeleteObject(c) PROVE Goal
  <2>1. UNCHANGED <<book, excused, undeleted>> /\ bookCall[c].pc = "deleteObject" /\ object \ object' \subseteq {bookCall[c].book}
    BY <1>6 DEF DeleteObject, BookAt
  <2> QED BY <1>6, <2>1
<1>7. ASSUME NEW c \in BookCalls, SaveBookAndOutbox(c) PROVE Goal
  <2>1. /\ bookCall[c].pc = "save" /\ UNCHANGED <<object, undeleted>> /\ excused \subseteq excused'
        /\ \/ UNCHANGED book
           \/ book' = [book EXCEPT ![bookCall[c].book] = [state |-> "live", cleanup |-> "none", key |-> bookCall[c].key]]
    BY <1>7 DEF SaveBookAndOutbox, BookAt
  <2>2. CASE UNCHANGED book
    BY <1>2, <2>1, <2>2
  <2>3. CASE book' = [book EXCEPT ![bookCall[c].book] = [state |-> "live", cleanup |-> "none", key |-> bookCall[c].key]]
    <3>1. ASSUME NEW b \in Books
          PROVE  book'[b] = book[b] \/ (bookCall[c].book = b /\ book'[b].key = bookCall[c].key)
      BY <1>1, <2>3
    <3> QED BY <1>7, <2>1, <3>1
  <2> QED BY <2>1, <2>2, <2>3
<1>8. ASSUME NEW c \in BookCalls, SaveBook(c) PROVE Goal
  <2>1. bookCall[c].pc = "write" /\ UNCHANGED <<object, excused>>
    BY <1>8 DEF SaveBook, BookAt
  <2>2. bookCall[c].book \in Books /\ book[bookCall[c].book].key = bookCall[c].key
    BY <1>1, <2>1 DEF UploadLocals, Holding, Filings, FilingHas
  <2>3. PICK b \in Books : b = bookCall[c].book
    BY <2>2
  <2>4. /\ book'[b].key = book[b].key /\ \A d \in Books : d # b => book'[d] = book[d]
        /\ undeleted' = IF book[b].state = "live" THEN undeleted ELSE undeleted \cup {b}
    BY <1>1, <1>8, <2>2, <2>3 DEF SaveBook
  <2> QED BY <2>1, <2>4
<1>9. ASSUME NEW c \in BookCalls, MarkBookDeleted(c) PROVE Goal
  <2>1. ASSUME NEW b \in Books PROVE book'[b].key = book[b].key /\ (book'[b].state = "live" => book[b].state = "live")
    <3>1. PICK old \in BookRows : old = book[b]
      BY <1>1
    <3>2. book'[b] = old \/ book'[b] = [old EXCEPT !.state = "deleted", !.cleanup = "queued"]
      BY <1>1, <1>9, <3>1 DEF MarkBookDeleted
    <3> QED BY <3>1, <3>2 DEF BookRows
  <2> QED BY <1>3, <1>9, <2>1 DEF MarkBookDeleted
<1>10. ASSUME NEW c \in BookCalls, RequeueCleanup(c) PROVE Goal
  <2>1. \A b \in Books : book'[b].key = book[b].key /\ book'[b].state = book[b].state
    BY <1>10, CleanupColumnFacts DEF RequeueCleanup
  <2> QED BY <1>3, <1>10, <2>1 DEF RequeueCleanup
<1>11. ASSUME ClaimBooksPendingCleanup PROVE Goal
  <2>1. ASSUME NEW b \in Books PROVE book'[b].key = book[b].key /\ book'[b].state = book[b].state
    <3>1. PICK old \in BookRows : old = book[b]
      BY <1>1
    <3>2. book'[b] = old \/ book'[b] = [old EXCEPT !.cleanup = "running"]
      BY <1>11, <3>1 DEF ClaimBooksPendingCleanup
    <3> QED BY <3>1, <3>2 DEF BookRows
  <2> QED BY <1>3, <1>11, <2>1 DEF ClaimBooksPendingCleanup
<1>12. ASSUME CleanupSearch \/ CleanupObject \/ CleanupRow PROVE Goal
  <2>1. cleaner.pc \in {"search", "object", "row"} /\ UNCHANGED <<bookRecord, bookCall, excused, undeleted>>
    BY <1>12 DEF CleanupSearch, CleanupObject, CleanupRow
  <2>2. CASE CleanupFails
    <3>1. UNCHANGED object /\ \A b \in Books : book'[b].key = book[b].key /\ book'[b].state = book[b].state
      BY <2>1, <2>2, CleanupFailsFacts
    <3> QED BY <1>3, <2>1, <3>1
  <2>3. CASE UNCHANGED book /\ (UNCHANGED object \/ (cleaner.pc = "object" /\ object' = object \ {cleaner.book}))
    BY <2>1, <2>3
  <2>4. CASE book' = [book EXCEPT ![cleaner.book].state = "none", ![cleaner.book].cleanup = "none"] /\ UNCHANGED object
    <3>1. ASSUME NEW b \in Books PROVE book'[b].key = book[b].key /\ (book'[b].state = "live" => book[b].state = "live")
      <4>1. PICK old \in BookRows : old = book[b]
        BY <1>1
      <4>2. book'[b] = old \/ book'[b] = [old EXCEPT !.state = "none", !.cleanup = "none"]
        BY <1>1, <2>4, <4>1
      <4> QED BY <4>1, <4>2 DEF BookRows
    <3> QED BY <1>3, <2>1, <2>4, <3>1
  <2> QED BY <1>12, <2>2, <2>3, <2>4 DEF CleanupSearch, CleanupObject, CleanupRow
<1>13. ASSUME NextCleanup \/ CleanerStops \/ UNCHANGED bookVars PROVE Goal
  BY <1>2, <1>13 DEF NextCleanup, CleanerStops, bookVars
<1>14. Goal
  BY <1>4, <1>5, <1>6, <1>7, <1>8, <1>9, <1>10, <1>11, <1>12, <1>13 DEF BookUploadsNext, CleanerStep
<1> QED BY <1>14

\* The files in the making stay apart, and have what their places rely on.
LEMMA FilingsStep ==
    ASSUME UploadTypes, Filings, Cleaning, [BookUploadsNext]_bookVars
    PROVE  Filings'
<1>1. \A c \in BookCalls : bookCall[c] \in UploadLocals /\ FilingHas(c)
  BY DEF UploadTypes, Filings
<1>2. /\ excused \subseteq excused'
      /\ \A b \in Books :
           \/ book'[b].key = book[b].key
           \/ \E c \in BookCalls : /\ SaveBookAndOutbox(c) /\ bookCall[c].pc = "save"
                                   /\ bookCall[c].book = b /\ book'[b].key = bookCall[c].key
      /\ \A b \in object \ object' :
           \/ cleaner.pc = "object" /\ cleaner.book = b
           \/ \E c \in BookCalls : DeleteObject(c) /\ bookCall[c].pc = "deleteObject" /\ bookCall[c].book = b
  BY BookWrites
<1>3. ASSUME NEW c \in BookCalls, SaveBookAndOutbox(c) \/ DeleteObject(c) PROVE bookCall'[c].pc # bookCall[c].pc
  <2>1. \/ bookCall[c].pc = "save" /\ (BookReturn(c) \/ BookGo(c, "deleteObject"))
        \/ bookCall[c].pc = "deleteObject" /\ BookGo(c, "markFailed")
    BY <1>3 DEF SaveBookAndOutbox, DeleteObject, BookAt
  <2> QED BY <2>1, BookReturnFacts, BookGoFacts
\* A request that takes no step: the book it files is touched by no other request.
<1>4. ASSUME NEW d \in BookCalls, bookCall'[d] = bookCall[d] PROVE FilingHas(d)'
  <2> DEFINE b == bookCall[d].book
  <2>1. bookCall[d].pc \in Holding => b \in Books
    BY <1>1 DEF UploadLocals
  <2>2. ASSUME NEW c \in BookCalls, Filing(d), bookCall[c].book = b, SaveBookAndOutbox(c) \/ DeleteObject(c), Filing(c)
        PROVE  FALSE
    <3>1. c = d
      BY <2>2 DEF Filings, FilesApart
    <3> QED BY <1>3, <1>4, <2>2, <3>1
  <2>3. CASE Filing(d)
    <3>1. book'[b].key = book[b].key
      BY <1>2, <2>1, <2>2, <2>3 DEF Filing, Holding
    <3>2. ASSUME bookCall[d].pc = "save" PROVE b \in object'
      <4>1. b \in object /\ book[b].key = "none" /\ b \in Books
        BY <1>1, <2>1, <3>2 DEF FilingHas, Holding
      <4>2. ~ (cleaner.book = b)
        BY <4>1 DEF Cleaning
      <4>3. ASSUME NEW c \in BookCalls, DeleteObject(c), bookCall[c].pc = "deleteObject", bookCall[c].book = b PROVE FALSE
        BY <2>2, <2>3, <4>3 DEF Filing
      <4> QED BY <1>2, <4>1, <4>2, <4>3
    <3>3. excused \subseteq excused' /\ FilingHas(d)
      BY <1>1, <1>2
    <3> QED BY <1>4, <2>3, <3>1, <3>2, <3>3 DEF FilingHas, Filing
  <2>4. CASE bookCall[d].pc = "write"
    <3>1. book[b].key = bookCall[d].key /\ bookCall[d].key \in BookKeys /\ b \in Books
      BY <1>1, <2>4 DEF FilingHas, UploadLocals, Holding
    <3>2. book'[b].key = book[b].key
      <4>1. ASSUME NEW c \in BookCalls, bookCall[c].pc = "save", bookCall[c].book = b PROVE FALSE
        <5>1. book[b].key = "none"
          BY <1>1, <4>1 DEF FilingHas
        <5> QED BY <3>1, <5>1, BookUploadsAssumption
      <4> QED BY <1>2, <3>1, <4>1
    <3> QED BY <1>4, <2>4, <3>1, <3>2 DEF FilingHas
  <2>5. CASE ~ Filing(d) /\ bookCall[d].pc # "write"
    BY <1>4, <2>5 DEF FilingHas, Filing
  <2> QED BY <2>3, <2>4, <2>5
\* No request takes a step.
<1>5. ASSUME UNCHANGED bookCall PROVE Filings'
  <2>1. FilesApart'
    BY <1>5 DEF Filings, FilesApart, Filing
  <2> QED BY <1>4, <1>5, <2>1 DEF Filings
\* One takes a step: it files nothing, the same book as before, or a new one.
<1>6. ASSUME NEW c \in BookCalls, \A d \in BookCalls : d # c => bookCall'[d] = bookCall[d],
             \/ bookCall'[c].pc \notin {"put", "save", "deleteObject"}
             \/ Filing(c) /\ bookCall'[c].book = bookCall[c].book
             \/ \A d \in BookCalls : bookCall[d].book # bookCall'[c].book,
             FilingHas(c)'
      PROVE  Filings'
  <2>1. \A d \in BookCalls : FilingHas(d)'
    BY <1>4, <1>6
  <2>2. ASSUME NEW d \in BookCalls, NEW e \in BookCalls, Filing(d)', Filing(e)', bookCall'[d].book = bookCall'[e].book
        PROVE  d = e
    <3>1. \A x \in BookCalls : x # c => (Filing(x)' <=> Filing(x)) /\ bookCall'[x].book = bookCall[x].book
      BY <1>6 DEF Filing
    <3>2. CASE d # c /\ e # c
      BY <2>2, <3>1, <3>2 DEF Filings, FilesApart
    <3>3. CASE d = c /\ e # c
      BY <1>6, <2>2, <3>1, <3>3 DEF Filings, FilesApart, Filing
    <3>4. CASE d # c /\ e = c
      BY <1>6, <2>2, <3>1, <3>4 DEF Filings, FilesApart, Filing
    <3> QED BY <3>2, <3>3, <3>4
  <2>3. FilesApart'
    BY <2>2 DEF FilesApart
  <2> QED BY <2>1, <2>3 DEF Filings
<1>7. ASSUME NEW c \in BookCalls, \A d \in BookCalls : d # c => bookCall'[d] = bookCall[d],
             bookCall'[c].pc \notin {"put", "save", "deleteObject", "write"}
      PROVE  Filings'
  <2>1. FilingHas(c)'
    BY <1>7 DEF FilingHas
  <2> QED BY <1>6, <1>7, <2>1
<1>8. ASSUME NEW c \in BookCalls,
             \/ markBookIdempotencyFailed(c) \/ SaveBook(c) \/ MarkBookDeleted(c) \/ RequeueCleanup(c) \/ BookCallStops(c)
      PROVE  Filings'
  <2>1. BookReturn(c)
    BY <1>8 DEF markBookIdempotencyFailed, SaveBook, MarkBookDeleted, RequeueCleanup, BookCallStops
  <2> QED BY <1>7, <2>1, BookReturnFacts
<1>9. ASSUME NEW c \in BookCalls, UploadBook(c) PROVE Filings'
  <2>1. PICK k, h : bookCall' = [bookCall EXCEPT ![c] = [pc |-> "look", key |-> k, hash |-> h, book |-> 0]]
    BY <1>9 DEF UploadBook
  <2>2. bookCall'[c].pc = "look" /\ \A d \in BookCalls : d # c => bookCall'[d] = bookCall[d]
    BY <2>1 DEF UploadTypes
  <2> QED BY <1>7, <2>2
<1>10. ASSUME NEW c \in BookCalls, beginBookIdempotency(c) PROVE Filings'
  <2>1. BookReturn(c) \/ \E pc \in {"insert", "retry"} : BookGo(c, pc)
    BY <1>10 DEF beginBookIdempotency
  <2>2. CASE BookReturn(c)
    BY <1>7, <2>2, BookReturnFacts
  <2>3. CASE \E pc \in {"insert", "retry"} : BookGo(c, pc)
    BY <1>7, <2>3, BookGoFacts
  <2> QED BY <2>1, <2>2, <2>3
\* The book of an upload gets an id that no row, file or request has.
<1>11. ASSUME NEW c \in BookCalls, SaveIdempotencyRecord(c) PROVE Filings'
  <2>1. CASE BookReturn(c)
    BY <1>7, <2>1, BookReturnFacts
  <2>2. CASE UnusedBook # {} /\ bookCall' = [bookCall EXCEPT ![c].pc = "put", ![c].book = NewBookID]
    <3>1. PICK b \in Books : b = NewBookID /\ book[b].key = "none" /\ \A d \in BookCalls : bookCall[d].book # b
      BY <2>2, NewBookIDFacts
    <3>2. /\ bookCall'[c].pc = "put" /\ bookCall'[c].book = b
          /\ \A d \in BookCalls : d # c => bookCall'[d] = bookCall[d]
      <4>1. bookCall[c].pc \in Naming /\ bookCall' = [bookCall EXCEPT ![c].pc = "put", ![c].book = b]
        BY <1>11, <2>2, <3>1 DEF SaveIdempotencyRecord, Naming
      <4> QED BY <4>1, BookIdFacts
    <3>3. FilingHas(c)'
      BY <1>11, <3>1, <3>2 DEF FilingHas, SaveIdempotencyRecord
    <3> QED BY <1>6, <3>1, <3>2, <3>3
  <2> QED BY <1>11, <2>1, <2>2 DEF SaveIdempotencyRecord
<1>12. ASSUME NEW c \in BookCalls, PutObject(c) PROVE Filings'
  <2>1. CASE BookGo(c, "markFailed")
    BY <1>7, <2>1, BookGoFacts
  <2>2. CASE object' = object \cup {bookCall[c].book} /\ BookGo(c, "save")
    <3>1. /\ bookCall'[c].pc = "save" /\ bookCall'[c].book = bookCall[c].book
          /\ \A d \in BookCalls : d # c => bookCall'[d] = bookCall[d]
      BY <2>2, BookGoFacts
    <3>2. bookCall[c].pc = "put" /\ UNCHANGED book
      BY <1>12 DEF PutObject, BookAt
    <3>3. FilingHas(c)'
      BY <1>1, <2>2, <3>1, <3>2 DEF FilingHas
    <3> QED BY <1>6, <3>1, <3>2, <3>3 DEF Filing
  <2> QED BY <1>12, <2>1, <2>2 DEF PutObject
<1>13. ASSUME NEW c \in BookCalls, SaveBookAndOutbox(c) PROVE Filings'
  <2>1. CASE BookReturn(c)
    BY <1>7, <2>1, BookReturnFacts
  <2>2. CASE BookGo(c, "deleteObject")
    <3>1. /\ bookCall'[c].pc = "deleteObject" /\ bookCall'[c].book = bookCall[c].book
          /\ \A d \in BookCalls : d # c => bookCall'[d] = bookCall[d]
      BY <2>2, BookGoFacts
    <3>2. bookCall[c].pc = "save"
      BY <1>13 DEF SaveBookAndOutbox, BookAt
    <3>3. bookCall[c].book \in Books /\ book[bookCall[c].book].key = "none"
      BY <1>1, <3>2 DEF UploadLocals, Holding, FilingHas
    <3>4. book'[bookCall[c].book].key \in {"none"} \cup excused'
      <4>1. \/ UNCHANGED book
            \/ /\ book' = [book EXCEPT ![bookCall[c].book] = [state |-> "live", cleanup |-> "none", key |-> bookCall[c].key]]
               /\ BookReturn(c)
            \/ /\ book' = [book EXCEPT ![bookCall[c].book] = [state |-> "live", cleanup |-> "none", key |-> bookCall[c].key]]
               /\ excused' = excused \cup {bookCall[c].key}
        BY <1>13 DEF SaveBookAndOutbox
      <4>2. ~ BookReturn(c)
        BY <3>1, BookReturnFacts
      <4>3. CASE book' = [book EXCEPT ![bookCall[c].book] = [state |-> "live", cleanup |-> "none", key |-> bookCall[c].key]]
        <5>1. book'[bookCall[c].book].key = bookCall[c].key
          BY <3>3, <4>3 DEF UploadTypes
        <5> QED BY <4>1, <4>2, <3>3, <5>1
      <4> QED BY <3>3, <4>1, <4>2, <4>3
    <3>5. FilingHas(c)'
      BY <3>1, <3>4 DEF FilingHas
    <3> QED BY <1>6, <3>1, <3>2, <3>5 DEF Filing
  <2> QED BY <1>13, <2>1, <2>2 DEF SaveBookAndOutbox
<1>14. ASSUME NEW c \in BookCalls, DeleteObject(c) PROVE Filings'
  BY <1>7, <1>14, BookGoFacts DEF DeleteObject
<1>15. ASSUME NEW c \in BookCalls, ReadBook(c) PROVE Filings'
  <2>1. PICK b \in Books :
          bookCall' = [bookCall EXCEPT ![c] = [pc |-> "write", key |-> book[b].key, hash |-> "none", book |-> b]]
    BY <1>15 DEF ReadBook
  <2>2. PICK l : l = [pc |-> "write", key |-> book[b].key, hash |-> "none", book |-> b]
    OBVIOUS
  <2>3. bookCall'[c] = l /\ \A d \in BookCalls : d # c => bookCall'[d] = bookCall[d]
    BY <2>1, <2>2 DEF UploadTypes
  <2>4. l.pc = "write" /\ l.key = book[b].key /\ l.book = b
    BY <2>2
  <2>5. FilingHas(c)'
    BY <1>15, <2>3, <2>4 DEF FilingHas, ReadBook
  <2> QED BY <1>6, <2>3, <2>4, <2>5
<1>16. ASSUME NEW c \in BookCalls, DeleteBook(c) PROVE Filings'
  <2>1. PICK b \in Books, pc \in {"markDeleted", "requeue"} : bookCall' = [bookCall EXCEPT ![c] = [NoBookCall EXCEPT !.pc = pc, !.book = b]]
    BY <1>16 DEF DeleteBook
  <2>2. PICK l : l = [NoBookCall EXCEPT !.pc = pc, !.book = b]
    OBVIOUS
  <2>3. l.pc = pc
    BY <2>2 DEF NoBookCall
  <2>4. bookCall'[c] = l /\ \A d \in BookCalls : d # c => bookCall'[d] = bookCall[d]
    BY <2>1, <2>2 DEF UploadTypes
  <2> QED BY <1>7, <2>3, <2>4
<1>17. ASSUME CleanerStep \/ CleanerStops \/ UNCHANGED bookVars PROVE Filings'
  BY <1>5, <1>17 DEF CleanerStep, ClaimBooksPendingCleanup, NextCleanup, CleanupSearch, CleanupObject, CleanupRow, CleanerStops, bookVars
<1> QED
  BY <1>8, <1>9, <1>10, <1>11, <1>12, <1>13, <1>14, <1>15, <1>16, <1>17 DEF BookUploadsNext

\* The cleanup has claimed books that are deleted.
LEMMA CleaningStep ==
    ASSUME UploadTypes, Filings, Cleaning, [BookUploadsNext]_bookVars
    PROVE  Cleaning'
<1>1. /\ undeleted \subseteq undeleted'
      /\ \A b \in Books :
           \/ book'[b].key = book[b].key /\ (book'[b].state = "live" => book[b].state = "live" \/ b \in undeleted')
           \/ \E c \in BookCalls : /\ SaveBookAndOutbox(c) /\ bookCall[c].pc = "save"
                                   /\ bookCall[c].book = b /\ book'[b].key = bookCall[c].key
  BY BookWrites
\* A book whose row has a key is not being made.
<1>2. ASSUME NEW b \in Books, book[b].key # "none"
      PROVE  book'[b].key = book[b].key /\ (book'[b].state = "live" => book[b].state = "live" \/ b \in undeleted')
  <2>1. \A c \in BookCalls : bookCall[c].pc = "save" => bookCall[c].book # b
    BY <1>2 DEF Filings, FilingHas
  <2> QED BY <1>1, <2>1
<1>3. ASSUME \A b \in Books : b \in cleaner'.todo \/ b = cleaner'.book => b \in cleaner.todo \/ b = cleaner.book
      PROVE  Cleaning'
  BY <1>1, <1>2, <1>3 DEF Cleaning
<1>4. ASSUME ClaimBooksPendingCleanup PROVE Cleaning'
  <2>1. cleaner'.todo = PendingCleanup /\ cleaner'.book = 0
    BY <1>4 DEF ClaimBooksPendingCleanup
  <2>2. \A b \in PendingCleanup : b \in Books /\ book[b].state = "deleted" /\ book[b].key # "none"
    BY BookUploadsAssumption DEF PendingCleanup, UploadTypes, BookRows
  <2>3. \A b \in Books : b # 0
    BY BookUploadsAssumption
  <2>4. ASSUME NEW b \in Books, b \in cleaner'.todo \/ b = cleaner'.book
        PROVE  book'[b].key # "none" /\ (book'[b].state = "live" => b \in undeleted')
    <3>1. book[b].state = "deleted" /\ book[b].key # "none"
      BY <2>1, <2>2, <2>3, <2>4
    <3> QED BY <1>2, <3>1
  <2> QED BY <2>4 DEF Cleaning
<1>5. ASSUME NextCleanup PROVE Cleaning'
  <2>1. \/ \E b \in cleaner.todo : cleaner' = [pc |-> "search", todo |-> cleaner.todo \ {b}, book |-> b]
        \/ cleaner' = NoCleanup
    BY <1>5 DEF NextCleanup
  <2>2. CASE \E b \in cleaner.todo : cleaner' = [pc |-> "search", todo |-> cleaner.todo \ {b}, book |-> b]
    BY <1>3, <2>2
  <2>3. CASE cleaner' = NoCleanup
    BY <1>3, <2>3, BookUploadsAssumption DEF NoCleanup
  <2> QED BY <2>1, <2>2, <2>3
<1>6. ASSUME CleanupSearch \/ CleanupObject \/ CleanupRow PROVE Cleaning'
  <2>1. \/ \E pc : CleanerGo(pc)
        \/ cleaner' = [cleaner EXCEPT !.pc = "next", !.book = 0]
    BY <1>6 DEF CleanupSearch, CleanupObject, CleanupRow, CleanupFails
  <2>2. cleaner'.todo = cleaner.todo /\ (cleaner'.book = cleaner.book \/ cleaner'.book = 0)
    BY <2>1 DEF CleanerGo, UploadTypes, CleanerLocals
  <2> QED BY <1>3, <2>2, BookUploadsAssumption
<1>7. ASSUME CleanerStops PROVE Cleaning'
  BY <1>3, <1>7, BookUploadsAssumption DEF CleanerStops, NoCleanup
<1>8. ASSUME UNCHANGED cleaner PROVE Cleaning'
  BY <1>3, <1>8
<1>9. ASSUME NEW c \in BookCalls,
             \/ UploadBook(c) \/ beginBookIdempotency(c) \/ SaveIdempotencyRecord(c) \/ PutObject(c)
             \/ SaveBookAndOutbox(c) \/ DeleteObject(c) \/ markBookIdempotencyFailed(c)
             \/ ReadBook(c) \/ SaveBook(c) \/ DeleteBook(c) \/ MarkBookDeleted(c) \/ RequeueCleanup(c)
             \/ BookCallStops(c)
      PROVE  UNCHANGED cleaner
  BY <1>9 DEF UploadBook, beginBookIdempotency, SaveIdempotencyRecord, PutObject, SaveBookAndOutbox, DeleteObject,
     markBookIdempotencyFailed, ReadBook, SaveBook, DeleteBook, MarkBookDeleted, RequeueCleanup, BookCallStops
<1> QED
  BY <1>4, <1>5, <1>6, <1>7, <1>8, <1>9 DEF BookUploadsNext, CleanerStep, bookVars

\* The rows keep their keys in every step that is not the transaction of an upload.
LEMMA KeysKept ==
    ASSUME UploadTypes, Filings, [BookUploadsNext]_bookVars,
           \A c \in BookCalls : bookCall[c].pc = "save" => bookCall'[c] = bookCall[c]
    PROVE  \A b \in Books : book'[b].key = book[b].key
<1>1. ASSUME NEW c \in BookCalls, bookCall[c].pc = "save", SaveBookAndOutbox(c) PROVE FALSE
  <2>1. BookReturn(c) \/ BookGo(c, "deleteObject")
    BY <1>1 DEF SaveBookAndOutbox
  <2>2. bookCall'[c].pc = "save"
    BY <1>1
  <2> QED BY <2>1, <2>2, BookReturnFacts, BookGoFacts
<1> QED BY <1>1, BookWrites

\* A key makes one book.
LEMMA OneBooksStep ==
    ASSUME UploadTypes, Filings, OneBooks, [BookUploadsNext]_bookVars
    PROVE  OneBooks'
<1>1. excused \subseteq excused'
  BY BookWrites
<1>2. \A c \in BookCalls : bookCall[c] \in UploadLocals
  BY DEF UploadTypes
<1>3. \A k \in BookKeys \ excused' : OneBook(k)
  BY <1>1 DEF OneBooks
\* A key that nothing happens to.
<1>q. ASSUME NEW k \in BookKeys \ excused', bookRecord'[k] = bookRecord[k],
             \A b \in Books : book'[b].key = k => book[b].key = k,
             \A d \in BookCalls : Files(d, k)' => Files(d, k)
      PROVE  OneBook(k)'
  BY <1>3, <1>q DEF OneBook, Unmade
<1>o. ASSUME NEW c \in BookCalls, NEW k, \A d \in BookCalls : d # c => bookCall'[d] = bookCall[d],
             \/ bookCall'[c].pc \notin {"put", "save", "deleteObject", "markFailed"}
             \/ bookCall'[c].key = bookCall[c].key
                /\ (bookCall[c].key # k \/ bookCall[c].pc \in {"put", "save", "deleteObject", "markFailed"})
      PROVE  \A d \in BookCalls : Files(d, k)' => Files(d, k)
  BY <1>o DEF Files
<1>n. ASSUME UNCHANGED bookRecord, \A b \in Books : book'[b].key = book[b].key,
             \A k \in BookKeys : \A d \in BookCalls : Files(d, k)' => Files(d, k)
      PROVE  OneBooks'
  BY <1>n, <1>q DEF OneBooks
\* A request that is not the transaction of an upload, and leaves the records alone.
<1>c. ASSUME NEW c \in BookCalls, UNCHANGED bookRecord, bookCall[c].pc # "save",
             \A d \in BookCalls : d # c => bookCall'[d] = bookCall[d],
             \/ bookCall'[c].pc \notin {"put", "save", "deleteObject", "markFailed"}
             \/ bookCall'[c].key = bookCall[c].key /\ bookCall[c].pc \in {"put", "save", "deleteObject", "markFailed"}
      PROVE  OneBooks'
  <2>1. \A b \in Books : book'[b].key = book[b].key
    BY <1>c, KeysKept
  <2>2. \A k \in BookKeys : \A d \in BookCalls : Files(d, k)' => Files(d, k)
    BY <1>c, <1>o
  <2> QED BY <1>c, <1>n, <2>1, <2>2
<1>4. ASSUME NEW c \in BookCalls, SaveBook(c) \/ MarkBookDeleted(c) \/ RequeueCleanup(c) PROVE OneBooks'
  <2>1. BookReturn(c) /\ UNCHANGED bookRecord /\ bookCall[c].pc # "save"
    BY <1>4 DEF SaveBook, MarkBookDeleted, RequeueCleanup, BookAt
  <2> QED BY <1>c, <2>1, BookReturnFacts
<1>5. ASSUME NEW c \in BookCalls, BookCallStops(c) PROVE OneBooks'
  <2>1. BookReturn(c) /\ UNCHANGED <<bookRecord, book>>
    BY <1>5 DEF BookCallStops
  <2>2. \A k \in BookKeys : \A d \in BookCalls : Files(d, k)' => Files(d, k)
    BY <1>o, <2>1, BookReturnFacts
  <2> QED BY <1>n, <2>1, <2>2
<1>6. ASSUME NEW c \in BookCalls, UploadBook(c) \/ ReadBook(c) \/ DeleteBook(c) PROVE OneBooks'
  <2>1. UNCHANGED bookRecord /\ bookCall[c].pc = "idle"
    BY <1>6 DEF UploadBook, ReadBook, DeleteBook, BookAt
  <2>2. \E l : bookCall' = [bookCall EXCEPT ![c] = l] /\ l.pc \in {"look", "write", "markDeleted", "requeue"}
    <3>1. CASE UploadBook(c)
      <4>1. PICK k, h : bookCall' = [bookCall EXCEPT ![c] = [pc |-> "look", key |-> k, hash |-> h, book |-> 0]]
        BY <3>1 DEF UploadBook
      <4>2. PICK l : l = [pc |-> "look", key |-> k, hash |-> h, book |-> 0]
        OBVIOUS
      <4>3. l.pc = "look"
        BY <4>2
      <4> QED BY <4>1, <4>2, <4>3
    <3>2. CASE ReadBook(c)
      <4>1. PICK b \in Books :
              bookCall' = [bookCall EXCEPT ![c] = [pc |-> "write", key |-> book[b].key, hash |-> "none", book |-> b]]
        BY <3>2 DEF ReadBook
      <4>2. PICK l : l = [pc |-> "write", key |-> book[b].key, hash |-> "none", book |-> b]
        OBVIOUS
      <4>3. l.pc = "write"
        BY <4>2
      <4> QED BY <4>1, <4>2, <4>3
    <3>3. CASE DeleteBook(c)
      <4>1. PICK b \in Books, pc \in {"markDeleted", "requeue"} :
              bookCall' = [bookCall EXCEPT ![c] = [NoBookCall EXCEPT !.pc = pc, !.book = b]]
        BY <3>3 DEF DeleteBook
      <4>2. PICK l : l = [NoBookCall EXCEPT !.pc = pc, !.book = b]
        OBVIOUS
      <4>3. l.pc = pc
        BY <4>2 DEF NoBookCall
      <4> QED BY <4>1, <4>2, <4>3
    <3> QED BY <1>6, <3>1, <3>2, <3>3
  <2>3. bookCall'[c].pc \in {"look", "write", "markDeleted", "requeue"} /\ \A d \in BookCalls : d # c => bookCall'[d] = bookCall[d]
    BY <2>2 DEF UploadTypes
  <2> QED BY <1>c, <2>1, <2>3
<1>7. ASSUME NEW c \in BookCalls, beginBookIdempotency(c) PROVE OneBooks'
  <2>1. UNCHANGED bookRecord /\ bookCall[c].pc = "look" /\ (BookReturn(c) \/ \E pc \in {"insert", "retry"} : BookGo(c, pc))
    BY <1>7 DEF beginBookIdempotency, BookAt
  <2>2. CASE BookReturn(c)
    BY <1>c, <2>1, <2>2, BookReturnFacts
  <2>3. CASE \E pc \in {"insert", "retry"} : BookGo(c, pc)
    BY <1>c, <2>1, <2>3, BookGoFacts
  <2> QED BY <2>1, <2>2, <2>3
\* A record is written: its key has no book and no request past its record, unless two
\* requests take it up again at the same time.
<1>8. ASSUME NEW c \in BookCalls, SaveIdempotencyRecord(c) PROVE OneBooks'
  <2> DEFINE k0 == bookCall[c].key
  <2>1. bookCall[c].pc \in {"insert", "retry"} /\ k0 \in BookKeys /\ UNCHANGED book
    BY <1>2, <1>8 DEF SaveIdempotencyRecord, UploadLocals, Naming
  <2>2. CASE BookReturn(c) /\ UNCHANGED bookRecord
    BY <1>c, <2>1, <2>2, BookReturnFacts
  <2>3. CASE /\ UnusedBook # {} /\ bookRecord' = [bookRecord EXCEPT ![k0] = Processing(bookCall[c].hash)]
             /\ bookCall' = [bookCall EXCEPT ![c].pc = "put", ![c].book = NewBookID]
             /\ bookCall[c].pc = "insert" => bookRecord[k0].state = "none"
             /\ excused' = IF bookCall[c].pc = "retry" /\ bookRecord[k0].state # "failed"
                           THEN excused \cup {k0} ELSE excused
    <3>1. bookCall'[c].pc = "put" /\ bookCall'[c].key = k0 /\ \A d \in BookCalls : d # c => bookCall'[d] = bookCall[d]
      <4>1. PICK b \in Books : b = NewBookID
        BY <2>3, NewBookIDFacts
      <4> QED BY <2>1, <2>3, <4>1, BookIdFacts DEF Naming
    <3>2. bookRecord'[k0].state = "processing" /\ \A k \in BookKeys : k # k0 => bookRecord'[k] = bookRecord[k]
      BY <2>1, <2>3 DEF Processing, UploadTypes
    <3>3. ASSUME NEW k \in BookKeys \ excused' PROVE OneBook(k)'
      <4>1. CASE k # k0
        <5>1. \A d \in BookCalls : Files(d, k)' => Files(d, k)
          BY <1>o, <3>1, <4>1
        <5> QED BY <1>q, <2>1, <3>2, <4>1, <5>1
      <4>2. CASE k = k0
        <5>1. OneBook(k) /\ bookRecord[k].state \in {"none", "failed"}
          BY <1>3, <2>1, <2>3, <4>2
        <5>2. Unmade(k) /\ \A d \in BookCalls : ~ Files(d, k)
          BY <5>1 DEF OneBook
        <5>3. \A d \in BookCalls : Files(d, k)' => d = c
          BY <3>1, <5>2 DEF Files
        <5>4. Unmade(k)'
          BY <2>1, <5>2 DEF Unmade
        <5> QED BY <3>2, <4>2, <5>3, <5>4 DEF OneBook, Unmade
      <4> QED BY <4>1, <4>2
    <3> QED BY <3>3 DEF OneBooks
  <2> QED BY <1>8, <2>2, <2>3 DEF SaveIdempotencyRecord, BookAt
<1>9. ASSUME NEW c \in BookCalls, PutObject(c) \/ DeleteObject(c) PROVE OneBooks'
  <2>1. UNCHANGED bookRecord /\ bookCall[c].pc \in {"put", "deleteObject"} /\ \E pc \in {"save", "markFailed"} : BookGo(c, pc)
    BY <1>9 DEF PutObject, DeleteObject, BookAt
  <2> QED BY <1>c, <2>1, BookGoFacts
\* The owner of a key makes its book, or gives up.
<1>10. ASSUME NEW c \in BookCalls, SaveBookAndOutbox(c) PROVE OneBooks'
  <2> DEFINE k0 == bookCall[c].key
             b0 == bookCall[c].book
  <2>1. bookCall[c].pc = "save" /\ Files(c, k0) /\ k0 \in BookKeys /\ b0 \in Books
    BY <1>2, <1>10 DEF SaveBookAndOutbox, BookAt, Files, UploadLocals, Naming, Holding
  <2>2. \/ BookReturn(c)
        \/ BookGo(c, "deleteObject") /\ (UNCHANGED <<book, bookRecord>> \/ excused' = excused \cup {k0})
    BY <1>10 DEF SaveBookAndOutbox
  <2>3. /\ \A d \in BookCalls : d # c => bookCall'[d] = bookCall[d]
        /\ bookCall'[c].pc = "idle" \/ (bookCall'[c].pc = "deleteObject" /\ bookCall'[c].key = k0)
    BY <2>2, BookReturnFacts, BookGoFacts
  <2>4. \A k : \A d \in BookCalls : Files(d, k)' => Files(d, k)
    BY <1>o, <2>1, <2>3
  <2>5. CASE UNCHANGED <<book, bookRecord>>
    BY <1>n, <2>4, <2>5
  <2>6. CASE /\ book' = [book EXCEPT ![b0] = [state |-> "live", cleanup |-> "none", key |-> k0]]
             /\ bookRecord' = [bookRecord EXCEPT ![k0] = Completed(bookCall[c].hash, b0)]
             /\ BookReturn(c) \/ excused' = excused \cup {k0}
    <3>1. /\ bookRecord'[k0].state = "completed" /\ \A k \in BookKeys : k # k0 => bookRecord'[k] = bookRecord[k]
          /\ book'[b0].key = k0 /\ \A b \in Books : b # b0 => book'[b] = book[b]
      BY <2>1, <2>6 DEF Completed, UploadTypes
    <3>2. ASSUME NEW k \in BookKeys \ excused' PROVE OneBook(k)'
      <4>1. CASE k # k0
        BY <1>q, <2>4, <3>1, <4>1
      <4>2. CASE k = k0
        <5>1. Unmade(k) /\ \A d \in BookCalls : Files(d, k) => d = c
          BY <1>3, <2>1, <4>2 DEF OneBook
        <5>2. bookCall'[c].pc = "idle"
          BY <2>6, <4>2, BookReturnFacts
        <5>3. \A d \in BookCalls : ~ Files(d, k)'
          BY <2>4, <5>1, <5>2 DEF Files
        <5>4. \A b \in Books : book'[b].key = k => b = b0
          BY <3>1, <5>1 DEF Unmade
        <5> QED BY <3>1, <4>2, <5>3, <5>4 DEF OneBook
      <4> QED BY <4>1, <4>2
    <3> QED BY <3>2 DEF OneBooks
  <2> QED BY <1>10, <2>5, <2>6 DEF SaveBookAndOutbox
<1>11. ASSUME NEW c \in BookCalls, markBookIdempotencyFailed(c) PROVE OneBooks'
  <2> DEFINE k0 == bookCall[c].key
  <2>1. bookCall[c].pc = "markFailed" /\ Files(c, k0) /\ k0 \in BookKeys /\ UNCHANGED book /\ BookReturn(c)
    BY <1>2, <1>11 DEF markBookIdempotencyFailed, BookAt, Files, UploadLocals, Naming
  <2>2. bookCall'[c].pc = "idle" /\ \A d \in BookCalls : d # c => bookCall'[d] = bookCall[d]
    BY <2>1, BookReturnFacts
  <2>3. \A k : \A d \in BookCalls : Files(d, k)' => Files(d, k)
    BY <1>o, <2>2
  <2>4. /\ \A k \in BookKeys : k # k0 => bookRecord'[k] = bookRecord[k]
        /\ bookRecord'[k0] = bookRecord[k0] \/ bookRecord'[k0].state = "failed"
    BY <1>11, <2>1 DEF markBookIdempotencyFailed, FailedRecord, UploadTypes
  <2>5. ASSUME NEW k \in BookKeys \ excused' PROVE OneBook(k)'
    <3>1. CASE k # k0
      BY <1>q, <2>1, <2>3, <2>4, <3>1
    <3>2. CASE k = k0
      <4>1. Unmade(k) /\ bookRecord[k].state = "processing" /\ \A d \in BookCalls : Files(d, k) => d = c
        BY <1>3, <2>1, <3>2 DEF OneBook
      <4>2. \A d \in BookCalls : ~ Files(d, k)'
        BY <2>2, <2>3, <4>1 DEF Files
      <4>3. Unmade(k)'
        BY <2>1, <4>1 DEF Unmade
      <4> QED BY <4>2, <4>3 DEF OneBook, Unmade
    <3> QED BY <3>1, <3>2
  <2> QED BY <2>5 DEF OneBooks
<1>12. ASSUME UNCHANGED <<bookRecord, bookCall>> PROVE OneBooks'
  <2>1. \A b \in Books : book'[b].key = book[b].key
    BY <1>12, KeysKept
  <2>2. \A k \in BookKeys : \A d \in BookCalls : Files(d, k)' => Files(d, k)
    BY <1>12 DEF Files
  <2> QED BY <1>12, <1>n, <2>1, <2>2
<1>13. ASSUME CleanerStep \/ CleanerStops \/ UNCHANGED bookVars PROVE UNCHANGED <<bookRecord, bookCall>>
  BY <1>13 DEF CleanerStep, ClaimBooksPendingCleanup, NextCleanup, CleanupSearch, CleanupObject, CleanupRow, CleanerStops, bookVars
<1> QED
  BY <1>4, <1>5, <1>6, <1>7, <1>8, <1>9, <1>10, <1>11, <1>12, <1>13 DEF BookUploadsNext

\* A listed book has its file.
LEMMA BookHasObjectStep ==
    ASSUME UploadTypes, Filings, Cleaning, BookHasObject, [BookUploadsNext]_bookVars
    PROVE  BookHasObject'
<1> SUFFICES ASSUME NEW b \in Books, b \notin undeleted', book'[b].state = "live", book'[b].key \notin excused'
             PROVE  b \in object'
  BY DEF BookHasObject
<1>1. /\ excused \subseteq excused' /\ undeleted \subseteq undeleted'
      /\ \/ book'[b].key = book[b].key /\ (book'[b].state = "live" => book[b].state = "live" \/ b \in undeleted')
         \/ \E c \in BookCalls : /\ SaveBookAndOutbox(c) /\ bookCall[c].pc = "save"
                                 /\ bookCall[c].book = b /\ book'[b].key = bookCall[c].key
      /\ b \in object \ object' =>
           \/ cleaner.pc = "object" /\ cleaner.book = b
           \/ \E c \in BookCalls : DeleteObject(c) /\ bookCall[c].pc = "deleteObject" /\ bookCall[c].book = b
  BY BookWrites
<1>2. \A c \in BookCalls : FilingHas(c)
  BY DEF Filings
\* The file of a book that was listed before.
<1>3. CASE book'[b].key = book[b].key /\ book[b].state = "live"
  <2>1. b \in object /\ b \notin undeleted /\ book[b].key \notin excused /\ book[b].key # "none"
    BY <1>1, <1>3, BookUploadsAssumption DEF BookHasObject, UploadTypes, BookRows
  <2>2. ~ (cleaner.book = b)
    BY <1>3, <2>1 DEF Cleaning
  <2>3. ASSUME NEW c \in BookCalls, bookCall[c].pc = "deleteObject", bookCall[c].book = b PROVE FALSE
    BY <1>2, <2>1, <2>3 DEF FilingHas
  <2> QED BY <1>1, <2>1, <2>2, <2>3
\* The file of a book that is saved.
<1>4. ASSUME NEW c \in BookCalls, SaveBookAndOutbox(c), bookCall[c].pc = "save", bookCall[c].book = b PROVE b \in object'
  BY <1>2, <1>4 DEF FilingHas, SaveBookAndOutbox
<1> QED BY <1>1, <1>3, <1>4

\* The invariants hold in every behaviour.
LEMMA UploadInvariants ==
    BookUploadsSpec => [](UploadTypes /\ Filings /\ Cleaning /\ OneBooks /\ BookHasObject)
<1>1. BookUploadsInit => UploadTypes /\ Filings /\ Cleaning /\ OneBooks /\ BookHasObject
  <2> SUFFICES ASSUME BookUploadsInit PROVE UploadTypes /\ Filings /\ Cleaning /\ OneBooks /\ BookHasObject
    OBVIOUS
  <2>1. NoBookCall \in UploadLocals /\ NoBookCall.pc = "idle"
    BY DEF NoBookCall, UploadLocals, Naming, Holding
  <2>2. NoRecord \in UploadRecords /\ NoRecord.state = "none"
    BY DEF NoRecord, UploadRecords, RecordStates
  <2>3. NoBook \in BookRows /\ NoBook.state = "none" /\ NoBook.key = "none"
    BY DEF NoBook, BookRows
  <2>4. NoCleanup \in CleanerLocals /\ NoCleanup.todo = {} /\ NoCleanup.book = 0
    BY DEF NoCleanup, CleanerLocals
  <2>5. UploadTypes
    BY <2>1, <2>2, <2>3, <2>4, BookUploadsAssumption DEF BookUploadsInit, UploadTypes
  <2>6. Filings
    BY <2>1 DEF BookUploadsInit, Filings, FilesApart, Filing, FilingHas
  <2>7. Cleaning
    BY <2>4, BookUploadsAssumption DEF BookUploadsInit, Cleaning
  <2>8. OneBooks
    <3>1. ASSUME NEW k \in BookKeys PROVE OneBook(k)
      <4>1. \A c \in BookCalls : ~ Files(c, k)
        BY <2>1 DEF BookUploadsInit, Files
      <4>2. Unmade(k)
        BY <2>3, BookUploadsAssumption DEF BookUploadsInit, Unmade
      <4> QED BY <4>1, <4>2 DEF OneBook, Unmade
    <3> QED BY <3>1 DEF OneBooks
  <2>9. BookHasObject
    BY <2>3 DEF BookUploadsInit, BookHasObject
  <2> QED BY <2>5, <2>6, <2>7, <2>8, <2>9
<1>2. UploadTypes /\ Filings /\ Cleaning /\ OneBooks /\ BookHasObject /\ [BookUploadsNext]_bookVars
        => (UploadTypes /\ Filings /\ Cleaning /\ OneBooks /\ BookHasObject)'
  BY UploadTypesStep, FilingsStep, CleaningStep, OneBooksStep, BookHasObjectStep
<1> QED BY <1>1, <1>2, PTL DEF BookUploadsSpec

\* Retries of an upload with one idempotency key make one book, whichever requests overlap and
\* whichever step of UploadBook fails (beginBookIdempotency, SaveBookAndOutbox); the keys
\* excused were retried twice at once after a failure, or their commit was in doubt.
THEOREM OneBookPerKeyCorrect ==
    BookUploadsSpec => []OneBookPerKey
<1>1. OneBooks => OneBookPerKey
  <2> SUFFICES ASSUME OneBooks, NEW k \in BookKeys \ excused PROVE Cardinality({b \in Books : book[b].key = k}) <= 1
    BY DEF OneBookPerKey
  <2>1. PICK x : \A b \in Books : book[b].key = k => b = x
    BY DEF OneBooks, OneBook
  <2>2. {b \in Books : book[b].key = k} \subseteq {x}
    BY <2>1
  <2> QED BY <2>2, AtMostOne
<1> QED BY <1>1, UploadInvariants, PTL

\* A listed book has its file, whatever uploads, deletions and cleanups run at the same time
\* (UploadBook, cleanupDeletedBook), unless a row read before the deletion brought it back.
THEOREM BookHasObjectCorrect ==
    BookUploadsSpec => []BookHasObject
BY UploadInvariants, PTL

=============================================================================
