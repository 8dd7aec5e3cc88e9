--------------------------- MODULE JobQueueProofs ---------------------------
(* Proofs about JobQueue for any number of jobs, resources, calls, consumers *)
(* and faults. *)
EXTENDS JobQueue, FiniteSetTheorems, TLAPS

USE DEF Active, Terminal, Statuses, EnqPcs, WorkerPcs

\* What Release leaves behind is well typed.
LEMMA ReleaseType ==
    ASSUME TypeOK, NEW w \in Consumers, Release(w)
    PROVE  /\ ready' \subseteq Jobs
           /\ unacked' \in [Consumers -> Jobs \cup {NoJob}]
           /\ worker' \in [Consumers -> [pc : WorkerPcs, job : Jobs \cup {NoJob}, attempts : Nat]]
           /\ \A v \in Consumers : worker'[v].pc # "idle" => worker'[v].job \in Jobs
BY DEF TypeOK, Release, Requeue, Unsettled, Idle

\* updateState keeps the type of jobs.
LEMMA UpdateStateType ==
    ASSUME TypeOK, NEW j \in Jobs, NEW s \in Statuses, updateState(j, s)
    PROVE  jobs' \in [Jobs -> [res : Resources \cup {NoResource}, status : Statuses, attempts : Nat]]
BY DEF TypeOK, updateState

\* Goto keeps the type of worker.
LEMMA GotoType ==
    ASSUME TypeOK, NEW w \in Consumers, NEW p \in WorkerPcs, Goto(w, p), worker[w].pc # "idle"
    PROVE  /\ worker' \in [Consumers -> [pc : WorkerPcs, job : Jobs \cup {NoJob}, attempts : Nat]]
           /\ \A v \in Consumers : worker'[v].pc # "idle" => worker'[v].job \in Jobs
BY DEF TypeOK, Goto

\* A consumer that goes on.
LEMMA GotoFacts ==
    ASSUME TypeOK, NEW w \in Consumers, NEW p \in WorkerPcs, Goto(w, p)
    PROVE  /\ worker'[w].pc = p /\ worker'[w].job = worker[w].job /\ worker'[w].attempts = worker[w].attempts
           /\ \A v \in Consumers : v # w => worker'[v] = worker[v]
BY DEF TypeOK, Goto

\* What a store call of a consumer leaves when its reply is lost: the row is written, and the
\* consumer has given its message back.
StoredThenReleased(w) ==
    LET j == worker[w].job IN
    /\ j \in Jobs /\ worker[w].pc \in {"delivered", "succeeded", "erred"}
    /\ \A i \in Jobs : i # j => jobs'[i] = jobs[i]
    /\ jobs'[j].res = jobs[j].res
    /\ jobs'[j].status \in {"processing", "done", "failed", "queued"}
    /\ worker[w].pc = "delivered" =>
        /\ jobs[j].status \notin Terminal /\ jobs'[j].status = "processing"
        /\ jobs'[j].attempts = jobs[j].attempts + 1
    /\ worker[w].pc # "delivered" => jobs'[j].attempts = jobs[j].attempts
    /\ jobs'[j].status = "processing" => worker[w].pc = "delivered"
    /\ jobs'[j].status = "queued" => ActiveJobs(jobs[j].res) \subseteq {j}
    /\ worker'[w] = Idle /\ unacked'[w] = NoJob
    /\ \A v \in Consumers : v # w => worker'[v] = worker[v] /\ unacked'[v] = unacked[v]
    /\ ready' = ready \cup Unsettled(w)
    /\ UNCHANGED <<dlq, enq>> /\ nfaults' = nfaults + 1

LEMMA StoreReplyLostFacts ==
    ASSUME TypeOK, NEW w \in Consumers, StoreReplyLost(w)
    PROVE  /\ StoredThenReleased(w)
           /\ jobs' \in [Jobs -> [res : Resources \cup {NoResource}, status : Statuses, attempts : Nat]]
<1> DEFINE Rows == [res : Resources \cup {NoResource}, status : Statuses, attempts : Nat]
<1>1. PICK j \in Jobs : j = worker[w].job
  BY DEF StoreReplyLost, StoreCommits, TypeOK
<1>2. jobs \in [Jobs -> Rows] /\ jobs[j] \in Rows /\ jobs[j].attempts \in Nat
  BY <1>1 DEF TypeOK
<1>3. /\ worker' = [worker EXCEPT ![w] = Idle] /\ unacked' = [unacked EXCEPT ![w] = NoJob]
      /\ ready' = ready \cup Unsettled(w) /\ UNCHANGED <<dlq, enq>> /\ nfaults' = nfaults + 1
  BY DEF StoreReplyLost, Release, Requeue, Fault
<1>4. /\ worker'[w] = Idle /\ unacked'[w] = NoJob
      /\ \A v \in Consumers : v # w => worker'[v] = worker[v] /\ unacked'[v] = unacked[v]
  BY <1>3 DEF TypeOK
<1>5. CASE worker[w].pc = "delivered"
  <2>1. /\ jobs[j].status \notin Terminal
        /\ jobs' = [jobs EXCEPT ![j] = [res |-> jobs[j].res, status |-> "processing", attempts |-> jobs[j].attempts + 1]]
    BY <1>1, <1>5 DEF StoreReplyLost, StoreCommits
  <2>2. [res |-> jobs[j].res, status |-> "processing", attempts |-> jobs[j].attempts + 1] \in Rows
    BY <1>2 DEF Statuses, Active
  <2>3. jobs' \in [Jobs -> Rows]
    BY <1>2, <2>1, <2>2
  <2>4. /\ \A i \in Jobs : i # j => jobs'[i] = jobs[i]
        /\ jobs'[j].res = jobs[j].res /\ jobs'[j].status = "processing" /\ jobs'[j].attempts = jobs[j].attempts + 1
    BY <1>2, <2>1
  <2> QED BY <1>1, <1>3, <1>4, <1>5, <2>1, <2>3, <2>4 DEF StoredThenReleased
<1>6. CASE worker[w].pc # "delivered"
  <2>1. PICK s \in {"done", "failed", "queued"} :
            /\ jobs' = [jobs EXCEPT ![j].status = s] /\ worker[w].pc \in {"succeeded", "erred"}
            /\ s = "queued" => ActiveJobs(jobs[j].res) \subseteq {j}
    BY <1>1, <1>6 DEF StoreReplyLost, StoreCommits, updateState
  <2>2. /\ jobs' \in [Jobs -> Rows]
        /\ \A i \in Jobs : i # j => jobs'[i] = jobs[i]
        /\ jobs'[j].res = jobs[j].res /\ jobs'[j].status = s /\ jobs'[j].attempts = jobs[j].attempts
    BY <1>2, <2>1 DEF Statuses, Active, Terminal
  <2> QED BY <1>1, <1>3, <1>4, <1>6, <2>1, <2>2 DEF StoredThenReleased
<1> QED BY <1>5, <1>6

\* The variables keep their types through every step of the queue.
THEOREM TypeCorrect == Spec => []TypeOK
<1>1. Init => TypeOK
  BY FaultsAssumption DEF Init, TypeOK, NoCall, Idle
<1>2. TypeOK /\ [Next]_vars => TypeOK'
  <2> SUFFICES ASSUME TypeOK, [Next]_vars PROVE TypeOK'
    OBVIOUS
  <2> USE DEF TypeOK
  <2>1. ASSUME NEW e \in Enqueuers, NEW r \in Resources,
               EnqueueFindsActive(e, r) \/ EnqueueSelect(e, r)
        PROVE  TypeOK'
    BY <2>1 DEF EnqueueFindsActive, EnqueueSelect, vars
  <2>2. ASSUME NEW e \in Enqueuers, EnqueueStep(e) PROVE TypeOK'
    <3>1. CASE EnqueueInsert(e)
      BY <3>1 DEF EnqueueInsert
    <3>2. CASE EnqueueConflict(e)
      BY <3>2 DEF EnqueueConflict, NoCall
    <3>3. CASE Publish(e)
      BY <3>3 DEF Publish, NoCall
    <3>4. CASE EnqueueMarkFailed(e)
      BY <3>4, UpdateStateType DEF EnqueueMarkFailed, NoCall
    <3> QED BY <2>2, <3>1, <3>2, <3>3, <3>4 DEF EnqueueStep
  <2>3. ASSUME NEW e \in Enqueuers, EnqueuerFault(e) PROVE TypeOK'
    <3>1. ASSUME NEW kind, Fault(kind) PROVE nfaults' \in 0..MaxFaults
      BY <3>1, FaultsAssumption DEF Fault
    <3>2. CASE PublishError(e)
      <4>1. nfaults' \in 0..MaxFaults /\ ready' \subseteq Jobs
        BY <3>1, <3>2 DEF PublishError
      <4> QED BY <3>2, <4>1 DEF PublishError
    <3>3. CASE EnqueuerDies(e)
      BY <3>1, <3>3 DEF EnqueuerDies, NoCall
    <3> QED BY <2>3, <3>2, <3>3 DEF EnqueuerFault
  <2>4. ASSUME NEW w \in Consumers, ConsumerStep(w) PROVE TypeOK'
    <3>1. CASE Deliver(w)
      BY <3>1 DEF Deliver
    <3>2. CASE MarkProcessing(w)
      <4> DEFINE j == worker[w].job
      <4>1. j \in Jobs /\ jobs[j] \in [res : Resources \cup {NoResource}, status : Statuses, attempts : Nat]
        BY <3>2 DEF MarkProcessing
      <4>2. CASE jobs[j].status \in Terminal
        BY <3>2, <4>1, <4>2, GotoType DEF MarkProcessing
      <4>3. CASE jobs[j].status \notin Terminal
        <5>1. jobs' \in [Jobs -> [res : Resources \cup {NoResource}, status : Statuses, attempts : Nat]]
          BY <3>2, <4>1, <4>3 DEF MarkProcessing
        <5> DEFINE n == [pc |-> "handling", job |-> j, attempts |-> jobs[j].attempts + 1]
        <5>n. n \in [pc : WorkerPcs, job : Jobs \cup {NoJob}, attempts : Nat] /\ n.job \in Jobs
          BY <4>1
        <5>w. worker' = [worker EXCEPT ![w] = n]
          BY <3>2, <4>3 DEF MarkProcessing
        <5> HIDE DEF n, j
        <5>2. /\ worker' \in [Consumers -> [pc : WorkerPcs, job : Jobs \cup {NoJob}, attempts : Nat]]
              /\ \A v \in Consumers : worker'[v].pc # "idle" => worker'[v].job \in Jobs
          BY <5>n, <5>w
        <5> QED BY <3>2, <5>1, <5>2 DEF MarkProcessing
      <4> QED BY <4>2, <4>3
    <3>3. CASE HandlerReturns(w)
      BY <3>3, GotoType DEF HandlerReturns
    <3>4. CASE MarkDone(w)
      BY <3>4, UpdateStateType, GotoType DEF MarkDone
    <3>5. CASE GiveUp(w)
      BY <3>5, UpdateStateType, GotoType DEF GiveUp
    <3>6. CASE Retry(w)
      BY <3>6, UpdateStateType, GotoType DEF Retry
    <3>7. CASE RetryConflict(w)
      BY <3>7, ReleaseType DEF RetryConflict
    <3>8. CASE NackRequeue(w)
      BY <3>8, ReleaseType DEF NackRequeue
    <3>9. CASE NackDeadLetter(w)
      BY <3>9 DEF NackDeadLetter, Idle, Unsettled
    <3>10. CASE Ack(w)
      BY <3>10 DEF Ack, Idle
    <3> QED BY <2>4, <3>1, <3>2, <3>3, <3>4, <3>5, <3>6, <3>7, <3>8, <3>9, <3>10 DEF ConsumerStep
  <2>5. ASSUME NEW w \in Consumers, ConsumerFault(w) PROVE TypeOK'
    <3>1. ASSUME NEW kind, Fault(kind) PROVE nfaults' \in 0..MaxFaults
      BY <3>1, FaultsAssumption DEF Fault
    <3>2. CASE StoreError(w)
      BY <3>1, <3>2, ReleaseType DEF StoreError
    <3>3. CASE WorkerCrash(w)
      BY <3>1, <3>3, ReleaseType DEF WorkerCrash
    <3>4. CASE ChannelLoss(w)
      BY <3>1, <3>4 DEF ChannelLoss, Requeue, Unsettled
    <3>5. CASE StoreReplyLost(w)
      <4> HIDE DEF TypeOK
      <4>1. /\ StoredThenReleased(w)
            /\ jobs' \in [Jobs -> [res : Resources \cup {NoResource}, status : Statuses, attempts : Nat]]
        BY <3>5, StoreReplyLostFacts
      <4>2. Release(w) /\ nfaults' \in 0..MaxFaults
        BY <3>1, <3>5 DEF StoreReplyLost
      <4> USE DEF TypeOK
      <4> QED BY <4>1, <4>2, ReleaseType DEF StoredThenReleased
    <3> QED BY <2>5, <3>2, <3>3, <3>4, <3>5 DEF ConsumerFault
  <2>6. CASE UNCHANGED vars
    BY <2>6 DEF vars
  <2> QED BY <2>1, <2>2, <2>3, <2>4, <2>5, <2>6 DEF Next
<1> QED BY <1>1, <1>2, PTL DEF Spec
\* What MarkProcessing does to a job that has not ended.
LEMMA MarkProcessingEffect ==
    ASSUME TypeOK, NEW w \in Consumers, MarkProcessing(w),
           jobs[worker[w].job].status \notin Terminal
    PROVE  /\ worker[w].job \in Jobs
           /\ \A i \in Jobs : i # worker[w].job => jobs'[i] = jobs[i]
           /\ jobs'[worker[w].job].status = "processing"
           /\ jobs'[worker[w].job].res = jobs[worker[w].job].res
           /\ \A v \in Consumers : v # w => worker'[v] = worker[v]
           /\ worker'[w].pc = "handling"
           /\ worker'[w].job = worker[w].job
           /\ UNCHANGED <<ready, dlq, enq, unacked>>
<1>1. worker[w].job \in Jobs
  BY DEF MarkProcessing, TypeOK
<1>2. /\ jobs' = [jobs EXCEPT ![worker[w].job] =
                    [res |-> jobs[worker[w].job].res, status |-> "processing",
                     attempts |-> jobs[worker[w].job].attempts + 1]]
      /\ worker' = [worker EXCEPT ![w] =
                    [pc |-> "handling", job |-> worker[w].job,
                     attempts |-> jobs[worker[w].job].attempts + 1]]
      /\ UNCHANGED <<ready, dlq, enq, unacked>>
  BY DEF MarkProcessing
<1>3. DOMAIN jobs = Jobs /\ DOMAIN worker = Consumers
  BY DEF TypeOK
<1> QED BY <1>1, <1>2, <1>3

-----------------------------------------------------------------------------
(* The unique index: OneActiveJob, with Created. *)

\* Every referenced job has its row, and a resource has one active job.
LEMMA CreatedStep ==
    ASSUME TypeOK, Created, [Next]_vars
    PROVE  Created'
<1> USE NoneAssumption DEF TypeOK, Created, Owning
<1>1. ASSUME NEW e \in Enqueuers, NEW r \in Resources,
             EnqueueFindsActive(e, r) \/ EnqueueSelect(e, r)
      PROVE  Created'
  BY <1>1 DEF EnqueueFindsActive, EnqueueSelect, vars
<1>2. ASSUME NEW e \in Enqueuers, EnqueueInsert(e) PROVE Created'
  BY <1>2 DEF EnqueueInsert
<1>3. ASSUME NEW e \in Enqueuers, EnqueueConflict(e) PROVE Created'
  BY <1>3 DEF EnqueueConflict, NoCall
<1>4. ASSUME NEW e \in Enqueuers, Publish(e) PROVE Created'
  BY <1>4 DEF Publish, NoCall
<1>5. ASSUME NEW e \in Enqueuers, EnqueueMarkFailed(e) PROVE Created'
  BY <1>5 DEF EnqueueMarkFailed, updateState, NoCall
<1>6. ASSUME NEW e \in Enqueuers, PublishError(e) PROVE Created'
  BY <1>6 DEF PublishError, Fault
<1>7. ASSUME NEW e \in Enqueuers, EnqueuerDies(e) PROVE Created'
  BY <1>7 DEF EnqueuerDies, Fault, NoCall
<1>8. ASSUME NEW w \in Consumers, Deliver(w) PROVE Created'
  BY <1>8 DEF Deliver
<1>9. ASSUME NEW w \in Consumers, MarkProcessing(w) PROVE Created'
  <2>1. CASE jobs[worker[w].job].status \in Terminal
    BY <1>9, <2>1 DEF MarkProcessing, Goto
  <2>2. CASE jobs[worker[w].job].status \notin Terminal
    <3> HIDE DEF TypeOK, Created
    <3>1. /\ \A i \in Jobs : jobs[i].status # "absent" => jobs'[i].status # "absent"
          /\ \A v \in Consumers : worker'[v].job = worker[v].job
          /\ worker[w].pc # "idle"
          /\ \A v \in Consumers : v # w => worker'[v] = worker[v]
          /\ UNCHANGED <<ready, dlq, enq, unacked>>
      BY <1>9, <2>2, MarkProcessingEffect DEF MarkProcessing
    <3> QED BY <3>1 DEF TypeOK, Created
  <2> QED BY <2>1, <2>2
<1>10. ASSUME NEW w \in Consumers, HandlerReturns(w) PROVE Created'
  BY <1>10 DEF HandlerReturns, Goto
<1>11. ASSUME NEW w \in Consumers, MarkDone(w) PROVE Created'
  BY <1>11 DEF MarkDone, updateState, Goto
<1>12. ASSUME NEW w \in Consumers, GiveUp(w) PROVE Created'
  BY <1>12 DEF GiveUp, updateState, Goto
<1>13. ASSUME NEW w \in Consumers, Retry(w) PROVE Created'
  BY <1>13 DEF Retry, updateState, Goto
<1>14. ASSUME NEW w \in Consumers, Release(w), UNCHANGED <<jobs, dlq, enq>> PROVE Created'
  BY <1>14 DEF Release, Requeue, Unsettled, Idle
<1>15. ASSUME NEW w \in Consumers, NackDeadLetter(w) PROVE Created'
  BY <1>15 DEF NackDeadLetter, Unsettled, Idle
<1>16. ASSUME NEW w \in Consumers, Ack(w) PROVE Created'
  BY <1>16 DEF Ack, Idle
<1>17. ASSUME NEW w \in Consumers, ChannelLoss(w) PROVE Created'
  BY <1>17 DEF ChannelLoss, Requeue, Unsettled, Fault
<1>18. CASE UNCHANGED vars
  BY <1>18 DEF vars
<1>19. ASSUME NEW w \in Consumers, StoreReplyLost(w) PROVE Created'
  <2>1. StoredThenReleased(w)
    BY <1>19, StoreReplyLostFacts
  <2>2. PICK j \in Jobs : j = worker[w].job
    BY <2>1 DEF StoredThenReleased
  <2>3. jobs'[j].status # "absent" /\ \A i \in Jobs : i # j => jobs'[i] = jobs[i]
    BY <2>1, <2>2 DEF StoredThenReleased
  <2>4. /\ UNCHANGED <<dlq, enq>> /\ worker'[w].pc = "idle" /\ unacked'[w] = NoJob
        /\ \A v \in Consumers : v # w => worker'[v] = worker[v] /\ unacked'[v] = unacked[v]
        /\ ready' = ready \cup ({unacked[w]} \ {NoJob})
    BY <2>1 DEF StoredThenReleased, Unsettled, Idle
  <2>5. \A i \in Jobs : jobs[i].status # "absent" => jobs'[i].status # "absent"
    BY <2>3
  <2>6. /\ \A i \in ready \cup dlq : i \in Jobs /\ jobs[i].status # "absent"
        /\ \A v \in Consumers : unacked[v] # NoJob => unacked[v] \in Jobs /\ jobs[unacked[v]].status # "absent"
        /\ \A v \in Consumers : worker[v].pc # "idle" => worker[v].job \in Jobs /\ jobs[worker[v].job].status # "absent"
        /\ \A e \in Enqueuers : Owning(e) => enq[e].job \in Jobs /\ jobs[enq[e].job].status # "absent"
    OBVIOUS
  <2> HIDE DEF TypeOK, Created
  <2> QED BY <2>4, <2>5, <2>6 DEF Created
<1> QED
  BY <1>1, <1>2, <1>3, <1>4, <1>5, <1>6, <1>7, <1>8, <1>9, <1>10, <1>11, <1>12, <1>13,
     <1>14, <1>15, <1>16, <1>17, <1>18, <1>19
  DEF Next, EnqueueStep, EnqueuerFault, ConsumerStep, ConsumerFault,
      RetryConflict, NackRequeue, StoreError, WorkerCrash
\* The index holds through every step: only the INSERT and MarkQueued make a
\* job active, and both are refused next to another active job.
LEMMA OneActiveJobStep ==
    ASSUME TypeOK, Created, OneActiveJob, [Next]_vars
    PROVE  OneActiveJob'
<1> USE DEF TypeOK, OneActiveJob
<1>1. ASSUME UNCHANGED jobs PROVE OneActiveJob'
  BY <1>1
<1>2. ASSUME NEW e \in Enqueuers, EnqueueInsert(e) PROVE OneActiveJob'
  BY <1>2 DEF EnqueueInsert, ActiveJobs
<1>3. ASSUME NEW j \in Jobs, NEW s \in Terminal, updateState(j, s) PROVE OneActiveJob'
  BY <1>3 DEF updateState
<1>4. ASSUME NEW w \in Consumers, MarkProcessing(w) PROVE OneActiveJob'
  <2> DEFINE j == worker[w].job
  <2>1. j \in Jobs /\ jobs[j].status # "absent"
    BY <1>4 DEF MarkProcessing, Created
  <2>2. CASE jobs[j].status \in Terminal
    BY <1>1, <1>4, <2>2 DEF MarkProcessing
  <2>3. CASE jobs[j].status \in Active
    <3> HIDE DEF TypeOK, OneActiveJob
    <3>1. \A i \in Jobs : /\ jobs'[i].res = jobs[i].res
                          /\ jobs'[i].status \in Active => jobs[i].status \in Active
      BY <1>4, <2>3, MarkProcessingEffect
    <3> QED BY <3>1 DEF OneActiveJob
  <2> QED BY <2>1, <2>2, <2>3
<1>5. ASSUME NEW w \in Consumers, Retry(w) PROVE OneActiveJob'
  BY <1>5 DEF Retry, updateState, ActiveJobs
<1>6. ASSUME NEW e \in Enqueuers, EnqueueMarkFailed(e) PROVE OneActiveJob'
  BY <1>3, <1>6 DEF EnqueueMarkFailed
<1>7. ASSUME NEW w \in Consumers, MarkDone(w) \/ GiveUp(w) PROVE OneActiveJob'
  BY <1>3, <1>7 DEF MarkDone, GiveUp
<1>8. ASSUME NEW w \in Consumers, StoreReplyLost(w) PROVE OneActiveJob'
  <2>1. StoredThenReleased(w)
    BY <1>8, StoreReplyLostFacts
  <2>2. PICK j \in Jobs : j = worker[w].job /\ jobs[j].status # "absent"
    BY <2>1 DEF StoredThenReleased, Created
  <2> QED BY <2>1, <2>2 DEF StoredThenReleased, ActiveJobs
<1> QED
  BY <1>1, <1>2, <1>4, <1>5, <1>6, <1>7, <1>8
  DEF Next, EnqueueStep, EnqueuerFault, ConsumerStep, ConsumerFault, vars,
      EnqueueFindsActive, EnqueueSelect, EnqueueConflict, Publish, PublishError, EnqueuerDies,
      Deliver, HandlerReturns, RetryConflict, NackRequeue, NackDeadLetter, Ack,
      StoreError, WorkerCrash, ChannelLoss

\* Rows exist for all that is referenced, in every reachable state.
LEMMA CreatedCorrect == Spec => []Created
<1>1. Init => Created
  BY NoneAssumption DEF Init, Created, Owning, NoCall, Idle
<1> QED BY <1>1, CreatedStep, TypeCorrect, PTL DEF Spec

\* At most one active job per resource, for any number of concurrent
\* EnqueueWithPayload calls and consumers and any faults.
THEOREM OneActiveJobCorrect == Spec => []OneActiveJob
<1>1. Init => OneActiveJob
  BY DEF Init, OneActiveJob
<1> QED BY <1>1, OneActiveJobStep, CreatedCorrect, TypeCorrect, PTL DEF Spec

-----------------------------------------------------------------------------
(* The message of a job: OneCopy, with PublishedOnce. *)

\* A call publishes a job nobody else knows: its id is fresh.
LEMMA PublishedOnceStep ==
    ASSUME TypeOK, Created, OneCopy, PublishedOnce, [Next]_vars
    PROVE  PublishedOnce'
<1> USE NoneAssumption DEF TypeOK, PublishedOnce, Unpublished, Owning
<1>1. ASSUME NEW e \in Enqueuers, NEW r \in Resources,
             EnqueueFindsActive(e, r) \/ EnqueueSelect(e, r)
      PROVE  PublishedOnce'
  <2>1. CASE EnqueueFindsActive(e, r)
    BY <2>1 DEF EnqueueFindsActive, vars
  <2>2. CASE EnqueueSelect(e, r)
    BY <2>2 DEF EnqueueSelect
  <2> QED BY <1>1, <2>1, <2>2
<1>2. ASSUME NEW e \in Enqueuers, EnqueueInsert(e) PROVE PublishedOnce'
  BY <1>2 DEF EnqueueInsert, Created, Owning
<1>3. ASSUME NEW e \in Enqueuers, EnqueueConflict(e) PROVE PublishedOnce'
  BY <1>3 DEF EnqueueConflict, NoCall
<1>4. ASSUME NEW e \in Enqueuers, Publish(e) PROVE PublishedOnce'
  BY <1>4 DEF Publish, NoCall
<1>5. ASSUME NEW e \in Enqueuers, EnqueueMarkFailed(e) PROVE PublishedOnce'
  BY <1>5 DEF EnqueueMarkFailed, updateState, NoCall
<1>6. ASSUME NEW e \in Enqueuers, PublishError(e) PROVE PublishedOnce'
  BY <1>6 DEF PublishError, Fault
<1>7. ASSUME NEW e \in Enqueuers, EnqueuerDies(e) PROVE PublishedOnce'
  BY <1>7 DEF EnqueuerDies, Fault, NoCall
<1>8. ASSUME NEW w \in Consumers, Deliver(w) PROVE PublishedOnce'
  BY <1>8 DEF Deliver
<1>9. ASSUME NEW w \in Consumers, MarkProcessing(w) PROVE PublishedOnce'
  <2>1. CASE jobs[worker[w].job].status \in Terminal
    BY <1>9, <2>1 DEF MarkProcessing, Goto
  <2>2. CASE jobs[worker[w].job].status \notin Terminal
    BY <1>9, <2>2, MarkProcessingEffect DEF MarkProcessing
  <2> QED BY <2>1, <2>2
<1>10. ASSUME NEW w \in Consumers, HandlerReturns(w) PROVE PublishedOnce'
  BY <1>10 DEF HandlerReturns, Goto
<1>11. ASSUME NEW w \in Consumers, MarkDone(w) PROVE PublishedOnce'
  BY <1>11 DEF MarkDone, updateState, Goto
<1>12. ASSUME NEW w \in Consumers, GiveUp(w) PROVE PublishedOnce'
  BY <1>12 DEF GiveUp, updateState, Goto
<1>13. ASSUME NEW w \in Consumers, Retry(w) PROVE PublishedOnce'
  BY <1>13 DEF Retry, updateState, Goto
<1>14. ASSUME NEW w \in Consumers, NackDeadLetter(w) PROVE PublishedOnce'
  BY <1>14 DEF NackDeadLetter, Unsettled, Idle
<1>15. ASSUME NEW w \in Consumers, Ack(w) PROVE PublishedOnce'
  BY <1>15 DEF Ack, Idle
<1>16. ASSUME NEW w \in Consumers, ChannelLoss(w) PROVE PublishedOnce'
  BY <1>16 DEF ChannelLoss, Requeue, Unsettled, Fault
<1>17. ASSUME NEW w \in Consumers, Release(w), UNCHANGED <<jobs, dlq, enq>> PROVE PublishedOnce'
  BY <1>17 DEF Release, Requeue, Unsettled, Idle
<1>18. CASE UNCHANGED vars
  BY <1>18 DEF vars
<1>19. ASSUME NEW w \in Consumers, StoreReplyLost(w) PROVE PublishedOnce'
  <2>1. StoredThenReleased(w)
    BY <1>19, StoreReplyLostFacts
  <2> QED BY <2>1 DEF StoredThenReleased, Unsettled, Idle
<1> QED
  BY <1>1, <1>2, <1>3, <1>4, <1>5, <1>6, <1>7, <1>8, <1>9, <1>10, <1>11,
     <1>12, <1>13, <1>14, <1>15, <1>16, <1>17, <1>18, <1>19
  DEF Next, EnqueueStep, EnqueuerFault, ConsumerStep, ConsumerFault,
      RetryConflict, NackRequeue, StoreError, WorkerCrash

\* Every step moves a message or drops it, and never copies it.
LEMMA OneCopyStep ==
    ASSUME TypeOK, OneCopy, PublishedOnce, [Next]_vars
    PROVE  OneCopy'
<1> USE NoneAssumption DEF TypeOK, OneCopy
<1>1. ASSUME NEW e \in Enqueuers, NEW r \in Resources,
             EnqueueFindsActive(e, r) \/ EnqueueSelect(e, r)
      PROVE  OneCopy'
  <2>1. CASE EnqueueFindsActive(e, r)
    BY <2>1 DEF EnqueueFindsActive, vars
  <2>2. CASE EnqueueSelect(e, r)
    BY <2>2 DEF EnqueueSelect
  <2> QED BY <1>1, <2>1, <2>2
<1>2. ASSUME NEW e \in Enqueuers, EnqueueInsert(e) PROVE OneCopy'
  BY <1>2 DEF EnqueueInsert
<1>3. ASSUME NEW e \in Enqueuers, EnqueueConflict(e) PROVE OneCopy'
  BY <1>3 DEF EnqueueConflict, NoCall
<1>4. ASSUME NEW e \in Enqueuers, Publish(e) PROVE OneCopy'
  BY <1>4 DEF Publish, NoCall, PublishedOnce, Unpublished
<1>5. ASSUME NEW e \in Enqueuers, EnqueueMarkFailed(e) PROVE OneCopy'
  BY <1>5 DEF EnqueueMarkFailed, updateState, NoCall
<1>6. ASSUME NEW e \in Enqueuers, PublishError(e) PROVE OneCopy'
  BY <1>6 DEF PublishError, Fault, PublishedOnce, Unpublished
<1>7. ASSUME NEW e \in Enqueuers, EnqueuerDies(e) PROVE OneCopy'
  BY <1>7 DEF EnqueuerDies, Fault, NoCall
<1>8. ASSUME NEW w \in Consumers, Deliver(w) PROVE OneCopy'
  BY <1>8 DEF Deliver
<1>9. ASSUME NEW w \in Consumers, MarkProcessing(w) PROVE OneCopy'
  <2>1. CASE jobs[worker[w].job].status \in Terminal
    BY <1>9, <2>1 DEF MarkProcessing, Goto
  <2>2. CASE jobs[worker[w].job].status \notin Terminal
    BY <1>9, <2>2, MarkProcessingEffect DEF MarkProcessing
  <2> QED BY <2>1, <2>2
<1>10. ASSUME NEW w \in Consumers, HandlerReturns(w) PROVE OneCopy'
  BY <1>10 DEF HandlerReturns, Goto
<1>11. ASSUME NEW w \in Consumers, MarkDone(w) PROVE OneCopy'
  BY <1>11 DEF MarkDone, updateState, Goto
<1>12. ASSUME NEW w \in Consumers, GiveUp(w) PROVE OneCopy'
  BY <1>12 DEF GiveUp, updateState, Goto
<1>13. ASSUME NEW w \in Consumers, Retry(w) PROVE OneCopy'
  BY <1>13 DEF Retry, updateState, Goto
<1>14. ASSUME NEW w \in Consumers, NackDeadLetter(w) PROVE OneCopy'
  BY <1>14 DEF NackDeadLetter, Unsettled, Idle
<1>15. ASSUME NEW w \in Consumers, Ack(w) PROVE OneCopy'
  BY <1>15 DEF Ack, Idle
<1>16. ASSUME NEW w \in Consumers, ChannelLoss(w) PROVE OneCopy'
  BY <1>16 DEF ChannelLoss, Requeue, Unsettled, Fault
<1>17. ASSUME NEW w \in Consumers, Release(w), UNCHANGED <<jobs, dlq, enq>> PROVE OneCopy'
  BY <1>17 DEF Release, Requeue, Unsettled, Idle
<1>18. CASE UNCHANGED vars
  BY <1>18 DEF vars
<1>19. ASSUME NEW w \in Consumers, StoreReplyLost(w) PROVE OneCopy'
  <2>1. StoredThenReleased(w)
    BY <1>19, StoreReplyLostFacts
  <2> QED BY <2>1 DEF StoredThenReleased, Unsettled, Idle
<1> QED
  BY <1>1, <1>2, <1>3, <1>4, <1>5, <1>6, <1>7, <1>8, <1>9, <1>10, <1>11,
     <1>12, <1>13, <1>14, <1>15, <1>16, <1>17, <1>18, <1>19
  DEF Next, EnqueueStep, EnqueuerFault, ConsumerStep, ConsumerFault,
      RetryConflict, NackRequeue, StoreError, WorkerCrash

\* The message of a job is in one place, under all faults: redelivery after a
\* crash or a lost channel never makes a second message of it.
THEOREM OneCopyCorrect == Spec => [](OneCopy /\ PublishedOnce)
<1>1. Init => OneCopy /\ PublishedOnce
  BY NoneAssumption DEF Init, OneCopy, PublishedOnce, Owning, NoCall
<1> QED BY <1>1, OneCopyStep, PublishedOnceStep, CreatedCorrect, TypeCorrect, PTL DEF Spec

-----------------------------------------------------------------------------
(* No channel is lost under a running handler: a consumer that works on a   *)
(* job holds its message.                                                   *)

\* A consumer works on the job of the message it has not acknowledged.
LEMMA WorkerHoldsMessageStep ==
    ASSUME "channelLoss" \notin Faults, TypeOK, WorkerHoldsMessage, [Next]_vars
    PROVE  WorkerHoldsMessage'
<1> USE NoneAssumption DEF TypeOK, WorkerHoldsMessage
<1>1. ASSUME NEW e \in Enqueuers, NEW r \in Resources,
             EnqueueFindsActive(e, r) \/ EnqueueSelect(e, r)
      PROVE  WorkerHoldsMessage'
  <2>1. CASE EnqueueFindsActive(e, r)
    BY <2>1 DEF EnqueueFindsActive, vars
  <2>2. CASE EnqueueSelect(e, r)
    BY <2>2 DEF EnqueueSelect
  <2> QED BY <1>1, <2>1, <2>2
<1>2. ASSUME NEW e \in Enqueuers, EnqueueInsert(e) PROVE WorkerHoldsMessage'
  BY <1>2 DEF EnqueueInsert
<1>3. ASSUME NEW e \in Enqueuers, EnqueueConflict(e) PROVE WorkerHoldsMessage'
  BY <1>3 DEF EnqueueConflict, NoCall
<1>4. ASSUME NEW e \in Enqueuers, Publish(e) PROVE WorkerHoldsMessage'
  BY <1>4 DEF Publish, NoCall
<1>5. ASSUME NEW e \in Enqueuers, EnqueueMarkFailed(e) PROVE WorkerHoldsMessage'
  BY <1>5 DEF EnqueueMarkFailed, updateState, NoCall
<1>6. ASSUME NEW e \in Enqueuers, PublishError(e) PROVE WorkerHoldsMessage'
  BY <1>6 DEF PublishError, Fault
<1>7. ASSUME NEW e \in Enqueuers, EnqueuerDies(e) PROVE WorkerHoldsMessage'
  BY <1>7 DEF EnqueuerDies, Fault, NoCall
<1>8. ASSUME NEW w \in Consumers, Deliver(w) PROVE WorkerHoldsMessage'
  BY <1>8 DEF Deliver
<1>9. ASSUME NEW w \in Consumers, MarkProcessing(w) PROVE WorkerHoldsMessage'
  <2>1. CASE jobs[worker[w].job].status \in Terminal
    BY <1>9, <2>1 DEF MarkProcessing, Goto
  <2>2. CASE jobs[worker[w].job].status \notin Terminal
    BY <1>9, <2>2, MarkProcessingEffect DEF MarkProcessing
  <2> QED BY <2>1, <2>2
<1>10. ASSUME NEW w \in Consumers, HandlerReturns(w) PROVE WorkerHoldsMessage'
  BY <1>10 DEF HandlerReturns, Goto
<1>11. ASSUME NEW w \in Consumers, MarkDone(w) PROVE WorkerHoldsMessage'
  BY <1>11 DEF MarkDone, updateState, Goto
<1>12. ASSUME NEW w \in Consumers, GiveUp(w) PROVE WorkerHoldsMessage'
  BY <1>12 DEF GiveUp, updateState, Goto
<1>13. ASSUME NEW w \in Consumers, Retry(w) PROVE WorkerHoldsMessage'
  BY <1>13 DEF Retry, updateState, Goto
<1>14. ASSUME NEW w \in Consumers, NackDeadLetter(w) PROVE WorkerHoldsMessage'
  BY <1>14 DEF NackDeadLetter, Unsettled, Idle
<1>15. ASSUME NEW w \in Consumers, Ack(w) PROVE WorkerHoldsMessage'
  BY <1>15 DEF Ack, Idle
<1>16. ASSUME NEW w \in Consumers, ChannelLoss(w) PROVE WorkerHoldsMessage'
  BY <1>16 DEF ChannelLoss, Fault
<1>17. ASSUME NEW w \in Consumers, Release(w), UNCHANGED <<jobs, dlq, enq>> PROVE WorkerHoldsMessage'
  BY <1>17 DEF Release, Requeue, Unsettled, Idle
<1>18. CASE UNCHANGED vars
  BY <1>18 DEF vars
<1>19. ASSUME NEW w \in Consumers, StoreReplyLost(w) PROVE WorkerHoldsMessage'
  <2>1. StoredThenReleased(w)
    BY <1>19, StoreReplyLostFacts
  <2> QED BY <2>1 DEF StoredThenReleased, Unsettled, Idle
<1> QED
  BY <1>1, <1>2, <1>3, <1>4, <1>5, <1>6, <1>7, <1>8, <1>9, <1>10, <1>11,
     <1>12, <1>13, <1>14, <1>15, <1>16, <1>17, <1>18, <1>19
  DEF Next, EnqueueStep, EnqueuerFault, ConsumerStep, ConsumerFault,
      RetryConflict, NackRequeue, StoreError, WorkerCrash

\* Without channel losses a consumer holds the message of its job.
LEMMA WorkerHoldsMessageCorrect ==
    ASSUME "channelLoss" \notin Faults
    PROVE  Spec => []WorkerHoldsMessage
<1>1. Init => WorkerHoldsMessage
  BY DEF Init, WorkerHoldsMessage, Idle
<1>2. TypeOK /\ WorkerHoldsMessage /\ [Next]_vars => WorkerHoldsMessage'
  BY WorkerHoldsMessageStep
<1> QED BY <1>1, <1>2, TypeCorrect, PTL DEF Spec

\* No step changes the row of a job that a handler or a call has in hand
\* but the step of that handler or call.
LEMMA RowMatchesHolderStep ==
    ASSUME "channelLoss" \notin Faults, "lostConfirm" \notin Faults,
           TypeOK, Created, OneCopy, PublishedOnce, WorkerHoldsMessage, RowMatchesHolder, [Next]_vars
    PROVE  RowMatchesHolder'
<1> USE NoneAssumption DEF TypeOK, RowMatchesHolder, OneCopy, PublishedOnce,
    Unpublished, Owning, WorkerHoldsMessage
<1>1. ASSUME NEW e \in Enqueuers, NEW r \in Resources,
             EnqueueFindsActive(e, r) \/ EnqueueSelect(e, r)
      PROVE  RowMatchesHolder'
  <2>1. CASE EnqueueFindsActive(e, r)
    BY <2>1 DEF EnqueueFindsActive, vars
  <2>2. CASE EnqueueSelect(e, r)
    BY <2>2 DEF EnqueueSelect
  <2> QED BY <1>1, <2>1, <2>2
<1>2. ASSUME NEW e \in Enqueuers, EnqueueInsert(e) PROVE RowMatchesHolder'
  BY <1>2 DEF EnqueueInsert, Created
<1>3. ASSUME NEW e \in Enqueuers, EnqueueConflict(e) PROVE RowMatchesHolder'
  BY <1>3 DEF EnqueueConflict, NoCall
<1>4. ASSUME NEW e \in Enqueuers, Publish(e) PROVE RowMatchesHolder'
  BY <1>4 DEF Publish, NoCall
<1>5. ASSUME NEW e \in Enqueuers, EnqueueMarkFailed(e) PROVE RowMatchesHolder'
  BY <1>5 DEF EnqueueMarkFailed, updateState, NoCall
<1>6. ASSUME NEW e \in Enqueuers, PublishError(e) PROVE RowMatchesHolder'
  BY <1>6 DEF PublishError, Fault
<1>7. ASSUME NEW e \in Enqueuers, EnqueuerDies(e) PROVE RowMatchesHolder'
  BY <1>7 DEF EnqueuerDies, Fault, NoCall
<1>8. ASSUME NEW w \in Consumers, Deliver(w) PROVE RowMatchesHolder'
  BY <1>8 DEF Deliver
<1>9. ASSUME NEW w \in Consumers, MarkProcessing(w) PROVE RowMatchesHolder'
  <2>1. CASE jobs[worker[w].job].status \in Terminal
    BY <1>9, <2>1, SMTT(30) DEF MarkProcessing, Goto
  <2>2. CASE jobs[worker[w].job].status \notin Terminal
    <3> DEFINE j == worker[w].job
    <3>1. unacked[w] = j /\ j \in Jobs
      BY <1>9 DEF MarkProcessing
    <3>2. \A v \in Consumers : v # w /\ worker[v].pc # "idle" => worker[v].job # j
      BY <3>1
    <3>3. \A e \in Enqueuers : Owning(e) => enq[e].job # j
      BY <3>1
    <3>4. /\ \A i \in Jobs : i # j => jobs'[i] = jobs[i]
          /\ jobs'[j].status = "processing"
          /\ \A v \in Consumers : v # w => worker'[v] = worker[v]
          /\ worker'[w].job = j
          /\ UNCHANGED <<ready, dlq, enq, unacked>>
      BY <1>9, <2>2, MarkProcessingEffect
    <3> HIDE DEF j
    <3> QED BY <3>1, <3>2, <3>3, <3>4, SMTT(30)
  <2> QED BY <2>1, <2>2
<1>10. ASSUME NEW w \in Consumers, HandlerReturns(w) PROVE RowMatchesHolder'
  BY <1>10 DEF HandlerReturns, Goto
<1>11. ASSUME NEW w \in Consumers, MarkDone(w) PROVE RowMatchesHolder'
  BY <1>11 DEF MarkDone, updateState, Goto
<1>12. ASSUME NEW w \in Consumers, GiveUp(w) PROVE RowMatchesHolder'
  BY <1>12 DEF GiveUp, updateState, Goto
<1>13. ASSUME NEW w \in Consumers, Retry(w) PROVE RowMatchesHolder'
  BY <1>13 DEF Retry, updateState, Goto
<1>14. ASSUME NEW w \in Consumers, NackDeadLetter(w) PROVE RowMatchesHolder'
  BY <1>14 DEF NackDeadLetter, Unsettled, Idle
<1>15. ASSUME NEW w \in Consumers, Ack(w) PROVE RowMatchesHolder'
  BY <1>15 DEF Ack, Idle
<1>16. ASSUME NEW w \in Consumers, ChannelLoss(w) PROVE RowMatchesHolder'
  BY <1>16 DEF ChannelLoss, Fault
<1>17. ASSUME NEW w \in Consumers, Release(w), UNCHANGED <<jobs, dlq, enq>> PROVE RowMatchesHolder'
  BY <1>17 DEF Release, Requeue, Unsettled, Idle
<1>18. CASE UNCHANGED vars
  BY <1>18 DEF vars
<1>19. ASSUME NEW w \in Consumers, StoreReplyLost(w) PROVE RowMatchesHolder'
  <2>1. StoredThenReleased(w)
    BY <1>19, StoreReplyLostFacts
  <2> QED BY <2>1 DEF StoredThenReleased, Unsettled, Idle
<1> QED
  BY <1>1, <1>2, <1>3, <1>4, <1>5, <1>6, <1>7, <1>8, <1>9, <1>10, <1>11,
     <1>12, <1>13, <1>14, <1>15, <1>16, <1>17, <1>18, <1>19
  DEF Next, EnqueueStep, EnqueuerFault, ConsumerStep, ConsumerFault,
      RetryConflict, NackRequeue, StoreError, WorkerCrash

\* Rows match their holders, in every reachable state.
LEMMA RowMatchesHolderCorrect ==
    ASSUME "channelLoss" \notin Faults, "lostConfirm" \notin Faults
    PROVE  Spec => []RowMatchesHolder
<1>1. Init => RowMatchesHolder
  BY DEF Init, RowMatchesHolder, Owning, Idle, NoCall
<1>2. /\ TypeOK /\ Created /\ OneCopy /\ PublishedOnce /\ WorkerHoldsMessage /\ RowMatchesHolder
      /\ [Next]_vars
      => RowMatchesHolder'
  BY RowMatchesHolderStep
<1> QED
  BY <1>1, <1>2, TypeCorrect, CreatedCorrect, OneCopyCorrect, WorkerHoldsMessageCorrect, PTL DEF Spec

\* Two handlers never work on one resource, when no channel closes under a
\* handler and no confirmation is lost: crashes, shutdowns, failing stores and
\* calls that die do no harm.
THEOREM ExclusiveHandlerCorrect ==
    ASSUME "channelLoss" \notin Faults, "lostConfirm" \notin Faults
    PROVE  Spec => []ExclusiveHandler
<1>1. TypeOK /\ OneActiveJob /\ OneCopy /\ WorkerHoldsMessage /\ RowMatchesHolder => ExclusiveHandler
  <2> SUFFICES ASSUME TypeOK, OneActiveJob, OneCopy, WorkerHoldsMessage, RowMatchesHolder,
                      NEW v \in Consumers, NEW w \in Consumers,
                      worker[v].pc = "handling", worker[w].pc = "handling",
                      jobs[worker[v].job].res = jobs[worker[w].job].res
               PROVE  v = w
    BY DEF ExclusiveHandler
  <2>1. worker[v].job \in Jobs /\ worker[w].job \in Jobs
    BY DEF TypeOK
  <2>2. worker[v].job = worker[w].job
    BY <2>1 DEF OneActiveJob, RowMatchesHolder
  <2>3. unacked[v] = worker[v].job /\ unacked[w] = worker[w].job
    BY DEF WorkerHoldsMessage
  <2> QED BY <2>1, <2>2, <2>3 DEF OneCopy
<1> QED
  BY <1>1, TypeCorrect, OneActiveJobCorrect, OneCopyCorrect, WorkerHoldsMessageCorrect,
     RowMatchesHolderCorrect, PTL

-----------------------------------------------------------------------------
(* What Pipeline takes the queue for. *)

\* Every step of the queue is a step of ExclusiveJobs or none.
LEMMA ExclusiveStep ==
    ASSUME TypeOK, Created, OneActiveJob, OneCopy, WorkerHoldsMessage, RowMatchesHolder, ExclusiveHandler,
           "channelLoss" \notin Faults, [Next]_vars
    PROVE  [Exclusive!Next]_(Exclusive!vars)
<1> USE NoneAssumption
<1> DEFINE Goal == [Exclusive!Next]_(Exclusive!vars)
           Has(r) == ActiveJobs(r) # {}
<1>1. /\ \A w \in Consumers : worker[w].pc # "idle" => worker[w].job \in Jobs /\ unacked[w] = worker[w].job
      /\ \A w \in Consumers : worker[w].pc = "handling" => jobs[worker[w].job].status \in Active
      /\ \A j \in Jobs : jobs[j].status \in {"queued", "processing", "done", "failed", "absent"}
  BY DEF TypeOK, WorkerHoldsMessage, RowMatchesHolder
\* The consumer that holds the message of an active job is the only one on its resource.
<1>2. ASSUME NEW j \in Jobs, jobs[j].status \in Active,
             \A v \in Consumers : worker[v].pc = "handling" => worker[v].job # j
      PROVE  Handlers(jobs[j].res) = {}
  <2> SUFFICES ASSUME NEW v \in Consumers, worker[v].pc = "handling", jobs[worker[v].job].res = jobs[j].res
               PROVE  FALSE
    BY DEF Handlers
  <2> QED BY <1>1, <1>2 DEF OneActiveJob
<1>3. ASSUME NEW w \in Consumers, worker[w].pc # "idle", worker[w].pc # "handling"
      PROVE  \A v \in Consumers : worker[v].pc = "handling" => worker[v].job # worker[w].job
  BY <1>1, <1>3 DEF OneCopy
\* Nothing that shows.
<1>4. ASSUME \A r \in Resources : Has(r)' = Has(r) /\ Handlers(r)' = Handlers(r) PROVE Goal
  BY <1>4 DEF Exclusive!vars
<1>5. ASSUME jobs' = jobs, worker' = worker PROVE Goal
  BY <1>4, <1>5 DEF ActiveJobs, Handlers
\* The jobs keep their resource and stay active or ended, and the same handlers work.
<1>6. ASSUME \A j \in Jobs : jobs'[j].res = jobs[j].res /\ (jobs'[j].status \in Active <=> jobs[j].status \in Active)
      PROVE  \A r : Has(r)' = Has(r)
  <2> SUFFICES ASSUME NEW r PROVE ActiveJobs(r)' = ActiveJobs(r)
    OBVIOUS
  <2> QED BY <1>6 DEF ActiveJobs
<1>7. ASSUME NEW w \in Consumers, \A j \in Jobs : jobs'[j].res = jobs[j].res,
             worker[w].pc # "handling", worker'[w].pc # "handling", \A v \in Consumers : v # w => worker'[v] = worker[v]
      PROVE  \A r : Handlers(r)' = Handlers(r)
  <2> SUFFICES ASSUME NEW r, NEW v \in Consumers PROVE v \in Handlers(r)' <=> v \in Handlers(r)
    BY DEF Handlers
  <2> QED BY <1>1, <1>7 DEF Handlers
<1>8. ASSUME NEW w \in Consumers, jobs' = jobs, worker[w].pc # "handling", worker'[w].pc # "handling",
             \A v \in Consumers : v # w => worker'[v] = worker[v]
      PROVE  Goal
  BY <1>4, <1>6, <1>7, <1>8
\* A handler returns, or its process stops.
<1>9. ASSUME NEW w \in Consumers, jobs' = jobs, worker[w].pc = "handling", worker'[w].pc # "handling",
             \A v \in Consumers : v # w => worker'[v] = worker[v]
      PROVE  Goal
  <2>1. PICK q : q = jobs[worker[w].job].res
    OBVIOUS
  <2>2. Handlers(q) = {w}
    BY <1>9, <2>1 DEF Handlers, ExclusiveHandler
  <2>3. Handlers(q)' = {} /\ \A r : r # q => Handlers(r)' = Handlers(r)
    <3>1. ASSUME NEW v \in Consumers, v # w PROVE worker'[v] = worker[v]
      BY <1>9, <3>1
    <3>2. \A r : Handlers(r)' = Handlers(r) \ {w}
      BY <1>9, <3>1 DEF Handlers
    <3>3. \A r : r # q => w \notin Handlers(r)
      BY <2>1 DEF Handlers
    <3> QED BY <2>2, <3>2, <3>3
  <2>4. \A r : Has(r)' = Has(r)
    BY <1>6, <1>9
  <2>5. CASE q \in Resources
    <3>1. Exclusive!Return(q, w)
      BY <2>2, <2>3, <2>4, <2>5 DEF Exclusive!Return
    <3> QED BY <2>5, <3>1 DEF Exclusive!Next
  <2>6. CASE q \notin Resources
    BY <1>4, <2>3, <2>4, <2>6
  <2> QED BY <2>5, <2>6
\* A job ends that no handler works on.
<1>10. ASSUME NEW i \in Jobs, jobs[i].status \in Active, jobs'[i].status \in Terminal, jobs'[i].res = jobs[i].res,
              \A j \in Jobs : j # i => jobs'[j] = jobs[j],
              \A v \in Consumers : worker[v].pc = "handling" => worker[v].job # i,
              \A r : Handlers(r)' = Handlers(r)
       PROVE  Goal
  <2>1. PICK q : q = jobs[i].res
    OBVIOUS
  <2>2. Handlers(q) = {}
    BY <1>2, <1>10, <2>1
  <2>3. ActiveJobs(q) = {i} /\ ActiveJobs(q)' = {}
    BY <1>10, <2>1 DEF ActiveJobs, OneActiveJob
  <2>4. \A r : r # q => ActiveJobs(r)' = ActiveJobs(r)
    <3> SUFFICES ASSUME NEW r, r # q, NEW j \in Jobs PROVE j \in ActiveJobs(r)' <=> j \in ActiveJobs(r)
      BY DEF ActiveJobs
    <3> QED BY <1>10, <2>1 DEF ActiveJobs
  <2>5. CASE q \in Resources
    <3>1. Exclusive!End(q)
      BY <1>10, <2>2, <2>3, <2>4, <2>5 DEF Exclusive!End
    <3> QED BY <2>5, <3>1 DEF Exclusive!Next
  <2>6. CASE q \notin Resources
    BY <1>4, <1>10, <2>4, <2>6
  <2> QED BY <2>5, <2>6
<1>11. ASSUME NEW e \in Enqueuers, EnqueueInsert(e) PROVE Goal
  <2>1. PICK i \in Jobs : /\ jobs[i].status = "absent"
                          /\ jobs' = [jobs EXCEPT ![i] = [res |-> enq[e].res, status |-> "queued", attempts |-> 0]]
    BY <1>11 DEF EnqueueInsert
  <2>2. PICK q : q = enq[e].res
    OBVIOUS
  <2>3. ActiveJobs(q) = {} /\ worker' = worker
    BY <1>11, <2>2 DEF EnqueueInsert
  <2>4. /\ jobs'[i].status = "queued" /\ jobs'[i].res = q
        /\ \A j \in Jobs : j # i => jobs'[j] = jobs[j]
    BY <2>1, <2>2 DEF TypeOK
  <2>5. \A w \in Consumers : worker[w].pc = "handling" => worker[w].job # i /\ worker[w].job \in Jobs
    BY <1>1, <2>1
  <2>6. \A r : Handlers(r)' = Handlers(r)
    <3> SUFFICES ASSUME NEW r, NEW v \in Consumers PROVE v \in Handlers(r)' <=> v \in Handlers(r)
      BY DEF Handlers
    <3> QED BY <2>3, <2>4, <2>5 DEF Handlers
  <2>7. Handlers(q) = {}
    BY <1>1, <2>3 DEF Handlers, ActiveJobs
  <2>8. ActiveJobs(q)' # {} /\ \A r : r # q => ActiveJobs(r)' = ActiveJobs(r)
    <3>1. i \in ActiveJobs(q)'
      BY <2>4 DEF ActiveJobs
    <3>2. ASSUME NEW r, r # q, NEW j \in Jobs PROVE j \in ActiveJobs(r)' <=> j \in ActiveJobs(r)
      BY <2>1, <2>4, <3>2 DEF ActiveJobs
    <3>3. \A r : r # q => ActiveJobs(r)' = ActiveJobs(r)
      BY <3>2 DEF ActiveJobs
    <3> QED BY <3>1, <3>3
  <2>9. CASE q \in Resources
    <3>1. Exclusive!Accept(q)
      BY <2>3, <2>6, <2>7, <2>8, <2>9 DEF Exclusive!Accept
    <3> QED BY <2>9, <3>1 DEF Exclusive!Next
  <2>10. CASE q \notin Resources
    BY <1>4, <2>6, <2>8, <2>10
  <2> QED BY <2>9, <2>10
<1>12. ASSUME NEW e \in Enqueuers, EnqueueMarkFailed(e) PROVE Goal
  <2>1. PICK i \in Jobs : i = enq[e].job /\ updateState(i, "failed") /\ worker' = worker /\ Owning(e)
    BY <1>12 DEF EnqueueMarkFailed, Owning, TypeOK
  <2>2. /\ jobs[i].status = "queued" /\ \A w \in Consumers : unacked[w] # i
    BY <2>1 DEF RowMatchesHolder, Unpublished
  <2>3. /\ \A j \in Jobs : j # i => jobs'[j] = jobs[j]
        /\ jobs'[i].status = "failed" /\ jobs'[i].res = jobs[i].res
    BY <2>1 DEF updateState, TypeOK
  <2>4. \A v \in Consumers : worker[v].pc = "handling" => worker[v].job # i
    BY <1>1, <2>2
  <2>5. \A r : Handlers(r)' = Handlers(r)
    BY <1>1, <2>1, <2>3 DEF Handlers
  <2> QED BY <1>10, <2>2, <2>3, <2>4, <2>5
<1>13. ASSUME NEW w \in Consumers, Deliver(w) PROVE Goal
  <2>1. jobs' = jobs /\ worker[w].pc = "idle" /\ worker'[w].pc = "delivered"
        /\ \A v \in Consumers : v # w => worker'[v] = worker[v]
    BY <1>13 DEF Deliver, TypeOK
  <2> QED BY <1>8, <2>1
<1>14. ASSUME NEW w \in Consumers, MarkProcessing(w) PROVE Goal
  <2>1. worker[w].pc = "delivered"
    BY <1>14 DEF MarkProcessing
  <2>2. CASE jobs[worker[w].job].status \in Terminal
    <3>1. Goto(w, "ack") /\ jobs' = jobs
      BY <1>14, <2>2 DEF MarkProcessing
    <3> QED BY <1>8, <2>1, <3>1, GotoFacts
  <2>3. CASE jobs[worker[w].job].status \notin Terminal
    <3>1. PICK i \in Jobs : i = worker[w].job /\ jobs[i].status \in Active
      BY <1>1, <2>1, <2>3 DEF Created
    <3>2. PICK q : q = jobs[i].res
      OBVIOUS
    <3>3. /\ \A j \in Jobs : j # i => jobs'[j] = jobs[j]
          /\ jobs'[i].status = "processing" /\ jobs'[i].res = q
          /\ \A v \in Consumers : v # w => worker'[v] = worker[v]
          /\ worker'[w].pc = "handling" /\ worker'[w].job = i
      BY <1>14, <2>3, <3>1, <3>2, MarkProcessingEffect
    <3>4. \A v \in Consumers : worker[v].pc = "handling" => worker[v].job # i
      BY <1>3, <2>1, <3>1
    <3>5. Handlers(q) = {}
      BY <1>2, <3>1, <3>2, <3>4
    <3>6. \A j \in Jobs : jobs'[j].res = jobs[j].res /\ (jobs'[j].status \in Active <=> jobs[j].status \in Active)
      BY <3>1, <3>2, <3>3
    <3>7. \A r : Has(r)' = Has(r)
      BY <1>6, <3>6
    <3>8. Handlers(q)' = {w} /\ \A r : r # q => Handlers(r)' = Handlers(r)
      <4>1. ASSUME NEW r, NEW v \in Consumers, v # w PROVE v \in Handlers(r)' <=> v \in Handlers(r)
        BY <1>1, <3>3, <3>6, <4>1 DEF Handlers
      <4>2. \A r : (w \in Handlers(r)' <=> r = q) /\ w \notin Handlers(r)
        BY <2>1, <3>3 DEF Handlers
      <4> QED BY <3>5, <4>1, <4>2 DEF Handlers
    <3>9. CASE q \in Resources
      <4>1. Has(q)
        BY <3>1, <3>2 DEF ActiveJobs
      <4>2. Exclusive!Begin(q, w)
        BY <3>5, <3>7, <3>8, <3>9, <4>1 DEF Exclusive!Begin
      <4> QED BY <3>9, <4>2 DEF Exclusive!Next
    <3>10. CASE q \notin Resources
      BY <1>4, <3>7, <3>8, <3>10
    <3> QED BY <3>9, <3>10
  <2> QED BY <2>2, <2>3
<1>15. ASSUME NEW w \in Consumers, HandlerReturns(w) PROVE Goal
  <2>1. PICK p \in {"succeeded", "erred"} : Goto(w, p) /\ jobs' = jobs /\ worker[w].pc = "handling"
    BY <1>15 DEF HandlerReturns
  <2> QED BY <1>9, <2>1, GotoFacts
\* The row of the job that a consumer has in hand is written; no handler works on it.
<1>16. ASSUME NEW w \in Consumers, worker[w].pc \in {"delivered", "succeeded", "erred"}, worker'[w].pc # "handling",
              \A v \in Consumers : v # w => worker'[v] = worker[v],
              NEW i \in Jobs, i = worker[w].job, jobs[i].status \in Active, jobs'[i].res = jobs[i].res,
              jobs'[i].status \in Active \cup Terminal,
              \A j \in Jobs : j # i => jobs'[j] = jobs[j]
       PROVE  Goal
  <2>1. \A v \in Consumers : worker[v].pc = "handling" => worker[v].job # i
    BY <1>3, <1>16
  <2>2. \A r : Handlers(r)' = Handlers(r)
    BY <1>7, <1>16
  <2>3. CASE jobs'[i].status \in Terminal
    BY <1>10, <1>16, <2>1, <2>2, <2>3
  <2>4. CASE jobs'[i].status \in Active
    BY <1>4, <1>6, <1>16, <2>2, <2>4
  <2> QED BY <1>16, <2>3, <2>4
<1>17. ASSUME NEW w \in Consumers, MarkDone(w) \/ GiveUp(w) \/ Retry(w) PROVE Goal
  <2>1. PICK p \in {"ack", "deadLetter", "retryWait"}, s \in {"done", "failed", "queued"} :
          Goto(w, p) /\ updateState(worker[w].job, s) /\ worker[w].pc \in {"succeeded", "erred"}
    BY <1>17 DEF MarkDone, GiveUp, Retry
  <2>2. PICK i \in Jobs : i = worker[w].job
    BY <1>1, <2>1
  <2>3. jobs[i].status \in Active
    BY <2>1, <2>2 DEF RowMatchesHolder
  <2>4. /\ \A j \in Jobs : j # i => jobs'[j] = jobs[j]
        /\ jobs'[i].status = s /\ jobs'[i].res = jobs[i].res
    BY <2>1, <2>2 DEF updateState, TypeOK
  <2>5. worker'[w].pc = p /\ \A v \in Consumers : v # w => worker'[v] = worker[v]
    BY <2>1, GotoFacts
  <2> QED BY <1>16, <2>1, <2>2, <2>3, <2>4, <2>5
<1>18. ASSUME NEW w \in Consumers, StoreReplyLost(w) PROVE Goal
  <2>1. StoredThenReleased(w)
    BY <1>18, StoreReplyLostFacts
  <2>2. PICK i \in Jobs : i = worker[w].job
    BY <2>1 DEF StoredThenReleased
  <2>3. jobs[i].status \in Active
    BY <1>1, <2>1, <2>2 DEF StoredThenReleased, Created, RowMatchesHolder
  <2> QED BY <1>16, <2>1, <2>2, <2>3 DEF StoredThenReleased, Idle
\* A consumer that lets go of its message, and of its handler if it was at work.
<1>19. ASSUME NEW w \in Consumers, jobs' = jobs, worker' = [worker EXCEPT ![w] = Idle] PROVE Goal
  <2>1. worker'[w].pc = "idle" /\ \A v \in Consumers : v # w => worker'[v] = worker[v]
    BY <1>19 DEF TypeOK, Idle
  <2> QED BY <1>8, <1>9, <1>19, <2>1
<1>20. ASSUME NEW w \in Consumers,
              RetryConflict(w) \/ NackRequeue(w) \/ NackDeadLetter(w) \/ Ack(w) \/ StoreError(w) \/ WorkerCrash(w)
       PROVE  Goal
  BY <1>19, <1>20 DEF RetryConflict, NackRequeue, NackDeadLetter, Ack, StoreError, WorkerCrash, Release
<1>21. ASSUME NEW w \in Consumers, ChannelLoss(w) PROVE Goal
  BY <1>21 DEF ChannelLoss, Fault
<1>22. CASE UNCHANGED vars
  BY <1>5, <1>22 DEF vars
<1>23. ASSUME NEW e \in Enqueuers, EnqueueConflict(e) \/ Publish(e) \/ EnqueuerFault(e) PROVE Goal
  BY <1>5, <1>23 DEF EnqueueConflict, Publish, EnqueuerFault, PublishError, EnqueuerDies
<1>24. ASSUME NEW e \in Enqueuers, NEW r \in Resources, EnqueueFindsActive(e, r) \/ EnqueueSelect(e, r) PROVE Goal
  BY <1>5, <1>24 DEF EnqueueFindsActive, EnqueueSelect, vars
<1> QED
  BY <1>11, <1>12, <1>13, <1>14, <1>15, <1>17, <1>18, <1>20, <1>21, <1>22, <1>23, <1>24
  DEF Next, EnqueueStep, ConsumerStep, ConsumerFault

\* The queue implements ExclusiveJobs, without lost channels and lost confirmations: what
\* Pipeline takes from it, for any number of calls, consumers and other faults.
THEOREM RunsExclusivelyCorrect ==
    ASSUME "channelLoss" \notin Faults, "lostConfirm" \notin Faults
    PROVE  Spec => RunsExclusively
<1>1. Init => Exclusive!Init
  <2> SUFFICES ASSUME Init PROVE Exclusive!Init
    OBVIOUS
  <2>1. \A r \in Resources : ActiveJobs(r) = {} /\ Handlers(r) = {}
    BY DEF Init, ActiveJobs, Handlers, Idle
  <2> QED BY <2>1 DEF Exclusive!Init
<1>2. /\ TypeOK /\ Created /\ OneActiveJob /\ OneCopy /\ WorkerHoldsMessage /\ RowMatchesHolder /\ ExclusiveHandler
      /\ [Next]_vars
      => [Exclusive!Next]_(Exclusive!vars)
  BY ExclusiveStep
<1> QED
  BY <1>1, <1>2, TypeCorrect, CreatedCorrect, OneActiveJobCorrect, OneCopyCorrect, WorkerHoldsMessageCorrect,
     RowMatchesHolderCorrect, ExclusiveHandlerCorrect, PTL
  DEF Spec, RunsExclusively, Exclusive!Spec

\* A job that has ended stays as it is under the same conditions.
THEOREM TerminalIsFinalCorrect ==
    ASSUME "channelLoss" \notin Faults, "lostConfirm" \notin Faults
    PROVE  Spec => TerminalIsFinal
<1> DEFINE Step == \A j \in Jobs : jobs[j].status \in Terminal => jobs'[j].status = jobs[j].status
<1>1. TypeOK /\ RowMatchesHolder /\ [Next]_vars => [Step]_vars
  <2> SUFFICES ASSUME TypeOK, RowMatchesHolder, [Next]_vars
               PROVE  Step
    OBVIOUS
  <2> USE DEF TypeOK
  <2>1. ASSUME UNCHANGED jobs PROVE Step
    BY <2>1
  <2>2. ASSUME NEW i \in Jobs, NEW s, jobs[i].status \in Active, updateState(i, s) PROVE Step
    BY <2>2 DEF updateState
  <2>3. ASSUME NEW e \in Enqueuers, EnqueueInsert(e) PROVE Step
    BY <2>3 DEF EnqueueInsert
  <2>4. ASSUME NEW e \in Enqueuers, EnqueueMarkFailed(e) PROVE Step
    BY <2>2, <2>4 DEF EnqueueMarkFailed, RowMatchesHolder, Owning
  <2>5. ASSUME NEW w \in Consumers, MarkProcessing(w) PROVE Step
    <3>1. CASE jobs[worker[w].job].status \in Terminal
      BY <2>1, <2>5, <3>1 DEF MarkProcessing
    <3>2. CASE jobs[worker[w].job].status \notin Terminal
      <4> HIDE DEF TypeOK
      <4> QED BY <2>5, <3>2, MarkProcessingEffect
    <3> QED BY <3>1, <3>2
  <2>6. ASSUME NEW w \in Consumers, MarkDone(w) \/ GiveUp(w) \/ Retry(w) PROVE Step
    <3>1. /\ worker[w].pc \in {"succeeded", "erred"}
          /\ \E s \in Statuses : updateState(worker[w].job, s)
      BY <2>6 DEF MarkDone, GiveUp, Retry
    <3>2. worker[w].job \in Jobs /\ jobs[worker[w].job].status \in Active
      BY <3>1 DEF RowMatchesHolder
    <3> QED BY <2>2, <3>1, <3>2
  <2>7. ASSUME NEW w \in Consumers, StoreReplyLost(w) PROVE Step
    <3>1. StoredThenReleased(w)
      BY <2>7, StoreReplyLostFacts
    <3>2. jobs[worker[w].job].status \notin Terminal
      BY <3>1 DEF StoredThenReleased, RowMatchesHolder
    <3> QED BY <3>1, <3>2 DEF StoredThenReleased
  <2> QED
    BY <2>1, <2>3, <2>4, <2>5, <2>6, <2>7
    DEF Next, EnqueueStep, EnqueuerFault, ConsumerStep, ConsumerFault, vars,
        EnqueueFindsActive, EnqueueSelect, EnqueueConflict, Publish, PublishError, EnqueuerDies,
        Deliver, HandlerReturns, RetryConflict, NackRequeue, NackDeadLetter, Ack,
        StoreError, WorkerCrash, ChannelLoss
<1> QED
  BY <1>1, TypeCorrect, RowMatchesHolderCorrect, PTL DEF Spec, TerminalIsFinal

-----------------------------------------------------------------------------
(* No job without a message. *)

\* A job whose message is about to go stays ended: only the consumer that
\* holds its message could queue it again.
LEMMA DroppedWhenEndedStep ==
    ASSUME "channelLoss" \notin Faults, TypeOK, Created, OneCopy, WorkerHoldsMessage, DroppedWhenEnded, [Next]_vars
    PROVE  DroppedWhenEnded'
<1> USE NoneAssumption DEF TypeOK, Created, OneCopy, WorkerHoldsMessage, DroppedWhenEnded
<1>1. ASSUME NEW e \in Enqueuers, NEW r \in Resources,
             EnqueueFindsActive(e, r) \/ EnqueueSelect(e, r)
      PROVE  DroppedWhenEnded'
  <2>1. CASE EnqueueFindsActive(e, r)
    BY <2>1 DEF EnqueueFindsActive, vars
  <2>2. CASE EnqueueSelect(e, r)
    BY <2>2 DEF EnqueueSelect
  <2> QED BY <1>1, <2>1, <2>2
<1>2. ASSUME NEW e \in Enqueuers, EnqueueInsert(e) PROVE DroppedWhenEnded'
  BY <1>2 DEF EnqueueInsert
<1>3. ASSUME NEW e \in Enqueuers, EnqueueConflict(e) PROVE DroppedWhenEnded'
  BY <1>3 DEF EnqueueConflict, NoCall
<1>4. ASSUME NEW e \in Enqueuers, Publish(e) PROVE DroppedWhenEnded'
  BY <1>4 DEF Publish, NoCall
<1>5. ASSUME NEW e \in Enqueuers, EnqueueMarkFailed(e) PROVE DroppedWhenEnded'
  BY <1>5 DEF EnqueueMarkFailed, updateState, NoCall
<1>6. ASSUME NEW e \in Enqueuers, PublishError(e) PROVE DroppedWhenEnded'
  BY <1>6 DEF PublishError, Fault
<1>7. ASSUME NEW e \in Enqueuers, EnqueuerDies(e) PROVE DroppedWhenEnded'
  BY <1>7 DEF EnqueuerDies, Fault, NoCall
<1>8. ASSUME NEW w \in Consumers, Deliver(w) PROVE DroppedWhenEnded'
  BY <1>8 DEF Deliver
<1>9. ASSUME NEW w \in Consumers, MarkProcessing(w) PROVE DroppedWhenEnded'
  <2>1. CASE jobs[worker[w].job].status \in Terminal
    BY <1>9, <2>1 DEF MarkProcessing, Goto
  <2>2. CASE jobs[worker[w].job].status \notin Terminal
    <3> DEFINE j == worker[w].job
    <3>1. /\ \A i \in Jobs : i # j => jobs'[i] = jobs[i]
          /\ \A v \in Consumers : v # w => worker'[v] = worker[v]
          /\ worker'[w].pc = "handling"
      BY <1>9, <2>2, MarkProcessingEffect
    <3> HIDE DEF j
    <3> QED BY <2>2, <3>1 DEF j
  <2> QED BY <2>1, <2>2
<1>10. ASSUME NEW w \in Consumers, HandlerReturns(w) PROVE DroppedWhenEnded'
  BY <1>10 DEF HandlerReturns, Goto
<1>11. ASSUME NEW w \in Consumers, MarkDone(w) PROVE DroppedWhenEnded'
  BY <1>11 DEF MarkDone, updateState, Goto
<1>12. ASSUME NEW w \in Consumers, GiveUp(w) PROVE DroppedWhenEnded'
  BY <1>12 DEF GiveUp, updateState, Goto
<1>13. ASSUME NEW w \in Consumers, Retry(w) PROVE DroppedWhenEnded'
  BY <1>13 DEF Retry, updateState, Goto
<1>14. ASSUME NEW w \in Consumers, NackDeadLetter(w) PROVE DroppedWhenEnded'
  BY <1>14 DEF NackDeadLetter, Unsettled, Idle
<1>15. ASSUME NEW w \in Consumers, Ack(w) PROVE DroppedWhenEnded'
  BY <1>15 DEF Ack, Idle
<1>16. ASSUME NEW w \in Consumers, ChannelLoss(w) PROVE DroppedWhenEnded'
  BY <1>16 DEF ChannelLoss, Fault
<1>17. ASSUME NEW w \in Consumers, Release(w), UNCHANGED <<jobs, dlq, enq>> PROVE DroppedWhenEnded'
  BY <1>17 DEF Release, Requeue, Unsettled, Idle
<1>18. CASE UNCHANGED vars
  BY <1>18 DEF vars
<1>19. ASSUME NEW w \in Consumers, StoreReplyLost(w) PROVE DroppedWhenEnded'
  <2>1. StoredThenReleased(w)
    BY <1>19, StoreReplyLostFacts
  <2> QED BY <2>1 DEF StoredThenReleased, Unsettled, Idle
<1> QED
  BY <1>1, <1>2, <1>3, <1>4, <1>5, <1>6, <1>7, <1>8, <1>9, <1>10, <1>11,
     <1>12, <1>13, <1>14, <1>15, <1>16, <1>17, <1>18, <1>19
  DEF Next, EnqueueStep, EnqueuerFault, ConsumerStep, ConsumerFault,
      RetryConflict, NackRequeue, StoreError, WorkerCrash

\* Every step that takes a message out of the broker ends its job, or leaves
\* the message with a consumer.
LEMMA NoStrandedJobStep ==
    ASSUME "channelLoss" \notin Faults, "enqueuerDies" \notin Faults,
           TypeOK, WorkerHoldsMessage, DroppedWhenEnded, NoStrandedJob, [Next]_vars
    PROVE  NoStrandedJob'
<1> USE NoneAssumption DEF TypeOK, WorkerHoldsMessage, DroppedWhenEnded, NoStrandedJob, Owning
<1>1. ASSUME NEW e \in Enqueuers, NEW r \in Resources,
             EnqueueFindsActive(e, r) \/ EnqueueSelect(e, r)
      PROVE  NoStrandedJob'
  <2>1. CASE EnqueueFindsActive(e, r)
    BY <2>1 DEF EnqueueFindsActive, vars
  <2>2. CASE EnqueueSelect(e, r)
    BY <2>2 DEF EnqueueSelect
  <2> QED BY <1>1, <2>1, <2>2
<1>2. ASSUME NEW e \in Enqueuers, EnqueueInsert(e) PROVE NoStrandedJob'
  BY <1>2 DEF EnqueueInsert
<1>3. ASSUME NEW e \in Enqueuers, EnqueueConflict(e) PROVE NoStrandedJob'
  BY <1>3 DEF EnqueueConflict, NoCall
<1>4. ASSUME NEW e \in Enqueuers, Publish(e) PROVE NoStrandedJob'
  BY <1>4 DEF Publish, NoCall
<1>5. ASSUME NEW e \in Enqueuers, EnqueueMarkFailed(e) PROVE NoStrandedJob'
  BY <1>5 DEF EnqueueMarkFailed, updateState, NoCall
<1>6. ASSUME NEW e \in Enqueuers, PublishError(e) PROVE NoStrandedJob'
  BY <1>6 DEF PublishError, Fault
<1>7. ASSUME NEW e \in Enqueuers, EnqueuerDies(e) PROVE NoStrandedJob'
  BY <1>7 DEF EnqueuerDies, Fault
<1>8. ASSUME NEW w \in Consumers, Deliver(w) PROVE NoStrandedJob'
  BY <1>8 DEF Deliver
<1>9. ASSUME NEW w \in Consumers, MarkProcessing(w) PROVE NoStrandedJob'
  <2>1. CASE jobs[worker[w].job].status \in Terminal
    BY <1>9, <2>1 DEF MarkProcessing, Goto
  <2>2. CASE jobs[worker[w].job].status \notin Terminal
    <3>1. unacked[w] = worker[w].job
      BY <1>9 DEF MarkProcessing
    <3>2. /\ \A i \in Jobs : i # worker[w].job => jobs'[i] = jobs[i]
          /\ UNCHANGED <<ready, enq, unacked>>
      BY <1>9, <2>2, MarkProcessingEffect
    <3> QED BY <3>1, <3>2
  <2> QED BY <2>1, <2>2
<1>10. ASSUME NEW w \in Consumers, HandlerReturns(w) PROVE NoStrandedJob'
  BY <1>10 DEF HandlerReturns, Goto
<1>11. ASSUME NEW w \in Consumers, MarkDone(w) PROVE NoStrandedJob'
  BY <1>11 DEF MarkDone, updateState, Goto
<1>12. ASSUME NEW w \in Consumers, GiveUp(w) PROVE NoStrandedJob'
  BY <1>12 DEF GiveUp, updateState, Goto
<1>13. ASSUME NEW w \in Consumers, Retry(w) PROVE NoStrandedJob'
  BY <1>13 DEF Retry, updateState, Goto
<1>14. ASSUME NEW w \in Consumers, NackDeadLetter(w) PROVE NoStrandedJob'
  BY <1>14 DEF NackDeadLetter, Unsettled, Idle
<1>15. ASSUME NEW w \in Consumers, Ack(w) PROVE NoStrandedJob'
  BY <1>15 DEF Ack, Idle
<1>16. ASSUME NEW w \in Consumers, ChannelLoss(w) PROVE NoStrandedJob'
  BY <1>16 DEF ChannelLoss, Fault
<1>17. ASSUME NEW w \in Consumers, Release(w), UNCHANGED <<jobs, dlq, enq>> PROVE NoStrandedJob'
  BY <1>17 DEF Release, Requeue, Unsettled, Idle
<1>18. CASE UNCHANGED vars
  BY <1>18 DEF vars
<1>19. ASSUME NEW w \in Consumers, StoreReplyLost(w) PROVE NoStrandedJob'
  <2>1. StoredThenReleased(w)
    BY <1>19, StoreReplyLostFacts
  <2>2. PICK j \in Jobs : j = worker[w].job /\ unacked[w] = j
    BY <2>1 DEF StoredThenReleased
  <2>3. /\ enq' = enq /\ ready' = ready \cup {j} /\ \A i \in Jobs : i # j => jobs'[i] = jobs[i]
        /\ \A v \in Consumers : v # w => unacked'[v] = unacked[v]
    BY <2>1, <2>2 DEF StoredThenReleased, Unsettled
  <2>4. ASSUME NEW i \in Jobs, jobs'[i].status \in Active
        PROVE  \/ i \in ready'
               \/ \E v \in Consumers : unacked'[v] = i
               \/ \E e \in Enqueuers : Owning(e)' /\ enq'[e].job = i
    <3>1. CASE i = j
      BY <2>3, <3>1
    <3>2. CASE i # j
      <4>1. \/ i \in ready
            \/ \E v \in Consumers : unacked[v] = i
            \/ \E e \in Enqueuers : Owning(e) /\ enq[e].job = i
        BY <2>3, <2>4, <3>2
      <4> HIDE DEF TypeOK, NoStrandedJob
      <4> QED BY <2>2, <2>3, <3>2, <4>1
    <3> QED BY <3>1, <3>2
  <2> QED BY <2>4
<1> QED
  BY <1>1, <1>2, <1>3, <1>4, <1>5, <1>6, <1>7, <1>8, <1>9, <1>10, <1>11,
     <1>12, <1>13, <1>14, <1>15, <1>16, <1>17, <1>18, <1>19
  DEF Next, EnqueueStep, EnqueuerFault, ConsumerStep, ConsumerFault,
      RetryConflict, NackRequeue, StoreError, WorkerCrash

\* An active job always has its message, if no channel closes under a handler
\* and no call dies between its INSERT and its publish or MarkFailed: crashes of
\* consumers, failing stores, publish errors and lost confirmations do no harm.
THEOREM NoStrandedJobCorrect ==
    ASSUME "channelLoss" \notin Faults, "enqueuerDies" \notin Faults
    PROVE  Spec => []NoStrandedJob
<1>1. Init => DroppedWhenEnded /\ NoStrandedJob
  BY DEF Init, DroppedWhenEnded, NoStrandedJob, Idle
<1>2. /\ TypeOK /\ Created /\ OneCopy /\ WorkerHoldsMessage /\ DroppedWhenEnded /\ [Next]_vars
      => DroppedWhenEnded'
  BY DroppedWhenEndedStep
<1>3. /\ TypeOK /\ WorkerHoldsMessage /\ DroppedWhenEnded /\ NoStrandedJob /\ [Next]_vars
      => NoStrandedJob'
  BY NoStrandedJobStep
<1> QED
  BY <1>1, <1>2, <1>3, TypeCorrect, CreatedCorrect, OneCopyCorrect, WorkerHoldsMessageCorrect, PTL
  DEF Spec

-----------------------------------------------------------------------------
(* The attempts of a job. *)

\* A consumer whose channel closed before it counted the attempt of its delivery will
\* still count it, although the message is with somebody else by then.
Late(j) == {w \in Consumers : worker[w].pc = "delivered" /\ worker[w].job = j /\ unacked[w] # j}
Spent(j) == jobs[j].attempts + Cardinality(Late(j))

\* A consumer that holds a message works on its job.
MessageOfWorker ==
    \A w \in Consumers : unacked[w] # NoJob => worker[w].pc # "idle" /\ worker[w].job = unacked[w]

\* Nobody works on a job that is not published.
NobodyBefore ==
    \A e \in Enqueuers : enq[e].pc = "publish" =>
        /\ jobs[enq[e].job].attempts = 0
        /\ \A w \in Consumers : worker[w].pc # "idle" => worker[w].job # enq[e].job

\* The attempts that were counted and that will be: a message that may be delivered leaves
\* room for one more, and the handler that holds the message knows how many there are, up to
\* the late ones.
Counted(j) ==
    /\ IsFiniteSet(Late(j)) /\ Cardinality(Late(j)) <= nfaults
    /\ Spent(j) <= MaxRetries + nfaults
    /\ j \in ready => Spent(j) < MaxRetries + nfaults
    /\ \A w \in Consumers : unacked[w] = j =>
        /\ worker[w].pc = "delivered" => Spent(j) < MaxRetries + nfaults
        /\ worker[w].pc \in {"handling", "succeeded", "erred", "retryWait"} => Spent(j) <= worker[w].attempts + nfaults
        /\ worker[w].pc = "retryWait" => worker[w].attempts < MaxRetries
AttemptsCounted == \A j \in Jobs : Counted(j)

\* A consumer that gives its message up, and the job it returns to the queue.
LEMMA ReleaseFacts ==
    ASSUME TypeOK, NEW w \in Consumers, Release(w)
    PROVE  /\ worker'[w].pc = "idle" /\ unacked'[w] = NoJob
           /\ \A v \in Consumers : v # w => worker'[v] = worker[v] /\ unacked'[v] = unacked[v]
           /\ \A j \in Jobs : j \in ready' => j \in ready \/ unacked[w] = j
BY DEF TypeOK, Release, Requeue, Unsettled, Idle

\* A job whose status changes keeps its attempts, and the others are as they were.
LEMMA UpdateStateFacts ==
    ASSUME TypeOK, NEW j \in Jobs, NEW s, updateState(j, s)
    PROVE  /\ \A i \in Jobs : jobs'[i].attempts = jobs[i].attempts
           /\ \A i \in Jobs : i # j => jobs'[i] = jobs[i]
           /\ jobs'[j].status = s
BY DEF TypeOK, updateState

\* The attempt MarkProcessing counts.
LEMMA MarkProcessingCounts ==
    ASSUME TypeOK, NEW w \in Consumers, MarkProcessing(w), jobs[worker[w].job].status \notin Terminal
    PROVE  /\ jobs[worker[w].job].attempts \in Nat
           /\ jobs'[worker[w].job].attempts = jobs[worker[w].job].attempts + 1
           /\ worker'[w].attempts = jobs[worker[w].job].attempts + 1
           /\ UNCHANGED nfaults
<1>1. worker[w].job \in Jobs
  BY DEF MarkProcessing, TypeOK
<1>2. /\ jobs' = [jobs EXCEPT ![worker[w].job] =
                    [res |-> jobs[worker[w].job].res, status |-> "processing",
                     attempts |-> jobs[worker[w].job].attempts + 1]]
      /\ worker' = [worker EXCEPT ![w] =
                    [pc |-> "handling", job |-> worker[w].job,
                     attempts |-> jobs[worker[w].job].attempts + 1]]
      /\ UNCHANGED nfaults
  BY DEF MarkProcessing
<1>3. DOMAIN jobs = Jobs /\ DOMAIN worker = Consumers /\ jobs[worker[w].job].attempts \in Nat
  BY <1>1 DEF TypeOK
<1> QED BY <1>1, <1>2, <1>3

\* Messages stay with the consumers of their jobs.
LEMMA MessageOfWorkerStep ==
    ASSUME TypeOK, MessageOfWorker, [Next]_vars
    PROVE  MessageOfWorker'
<1> USE NoneAssumption DEF TypeOK, MessageOfWorker
<1>1. ASSUME UNCHANGED <<worker, unacked>> PROVE MessageOfWorker'
  BY <1>1
<1>2. ASSUME NEW w \in Consumers, Deliver(w) PROVE MessageOfWorker'
  BY <1>2 DEF Deliver
<1>3. ASSUME NEW w \in Consumers, NEW p \in WorkerPcs \ {"idle"}, Goto(w, p), UNCHANGED unacked PROVE MessageOfWorker'
  <2> HIDE DEF TypeOK
  <2> QED BY <1>3, GotoFacts
<1>4. ASSUME NEW w \in Consumers, MarkProcessing(w) PROVE MessageOfWorker'
  <2>1. CASE jobs[worker[w].job].status \in Terminal
    BY <1>3, <1>4, <2>1 DEF MarkProcessing
  <2>2. CASE jobs[worker[w].job].status \notin Terminal
    <3> HIDE DEF TypeOK
    <3> QED BY <1>4, <2>2, MarkProcessingEffect
  <2> QED BY <2>1, <2>2
<1>5. ASSUME NEW w \in Consumers, HandlerReturns(w) \/ MarkDone(w) \/ GiveUp(w) \/ Retry(w) PROVE MessageOfWorker'
  BY <1>3, <1>5 DEF HandlerReturns, MarkDone, GiveUp, Retry
<1>6. ASSUME NEW w \in Consumers, Release(w) PROVE MessageOfWorker'
  <2> HIDE DEF TypeOK
  <2> QED BY <1>6, ReleaseFacts
<1>7. ASSUME NEW w \in Consumers, NackDeadLetter(w) \/ Ack(w) PROVE MessageOfWorker'
  BY <1>7 DEF NackDeadLetter, Ack
<1>8. ASSUME NEW w \in Consumers, ChannelLoss(w) PROVE MessageOfWorker'
  BY <1>8 DEF ChannelLoss, Requeue
<1>9. ASSUME NEW w \in Consumers, StoreReplyLost(w) PROVE MessageOfWorker'
  <2>1. StoredThenReleased(w)
    BY <1>9, StoreReplyLostFacts
  <2> QED BY <2>1 DEF StoredThenReleased
<1> QED
  BY <1>1, <1>2, <1>4, <1>5, <1>6, <1>7, <1>8, <1>9
  DEF Next, EnqueueStep, EnqueuerFault, ConsumerStep, ConsumerFault, vars,
      EnqueueFindsActive, EnqueueSelect, EnqueueInsert, EnqueueConflict, Publish, PublishError, EnqueueMarkFailed,
      EnqueuerDies, RetryConflict, NackRequeue, StoreError, WorkerCrash

\* A call publishes a job that nobody has tried.
LEMMA NobodyBeforeStep ==
    ASSUME TypeOK, Created, PublishedOnce, MessageOfWorker, NobodyBefore, [Next]_vars
    PROVE  NobodyBefore'
<1> USE NoneAssumption DEF TypeOK, NobodyBefore
<1>1. ASSUME NEW e \in Enqueuers, NEW r \in Resources,
             EnqueueFindsActive(e, r) \/ EnqueueSelect(e, r)
      PROVE  NobodyBefore'
  <2>1. CASE EnqueueFindsActive(e, r)
    BY <2>1 DEF EnqueueFindsActive, vars
  <2>2. CASE EnqueueSelect(e, r)
    BY <2>2 DEF EnqueueSelect
  <2> QED BY <1>1, <2>1, <2>2
<1>2. ASSUME NEW e \in Enqueuers, EnqueueInsert(e) PROVE NobodyBefore'
  BY <1>2 DEF EnqueueInsert, Created, Owning
<1>3. ASSUME NEW e \in Enqueuers, enq' = [enq EXCEPT ![e] = NoCall], UNCHANGED worker,
             \A i \in Jobs : jobs'[i].attempts = jobs[i].attempts
      PROVE  NobodyBefore'
  BY <1>3 DEF NoCall
<1>4. ASSUME NEW e \in Enqueuers, EnqueueConflict(e) \/ Publish(e) \/ EnqueuerDies(e) PROVE NobodyBefore'
  BY <1>3, <1>4 DEF EnqueueConflict, Publish, EnqueuerDies
<1>5. ASSUME NEW e \in Enqueuers, EnqueueMarkFailed(e) PROVE NobodyBefore'
  <2>1. \A i \in Jobs : jobs'[i].attempts = jobs[i].attempts
    BY <1>5, UpdateStateFacts DEF EnqueueMarkFailed
  <2> QED BY <1>3, <1>5, <2>1 DEF EnqueueMarkFailed
<1>6. ASSUME NEW e \in Enqueuers, PublishError(e) PROVE NobodyBefore'
  BY <1>6 DEF PublishError
<1>7. ASSUME NEW w \in Consumers, Deliver(w) PROVE NobodyBefore'
  BY <1>7 DEF Deliver, PublishedOnce, Unpublished
<1>8. ASSUME UNCHANGED enq, \A i \in Jobs : jobs'[i].attempts = jobs[i].attempts,
             \A v \in Consumers : worker'[v].pc # "idle" => worker[v].pc # "idle" /\ worker'[v].job = worker[v].job
      PROVE  NobodyBefore'
  BY <1>8
<1>9. ASSUME NEW w \in Consumers, MarkProcessing(w) PROVE NobodyBefore'
  <2>1. CASE jobs[worker[w].job].status \in Terminal
    <3>1. Goto(w, "ack") /\ worker[w].pc # "idle" /\ UNCHANGED <<jobs, enq>>
      BY <1>9, <2>1 DEF MarkProcessing
    <3> HIDE DEF TypeOK
    <3> QED BY <1>8, <3>1, GotoFacts
  <2>2. CASE jobs[worker[w].job].status \notin Terminal
    <3>1. worker[w].pc # "idle"
      BY <1>9 DEF MarkProcessing
    <3>2. \A e \in Enqueuers : enq[e].pc = "publish" => enq[e].job \in Jobs
      OBVIOUS
    <3> HIDE DEF TypeOK
    <3>3. /\ \A i \in Jobs : i # worker[w].job => jobs'[i] = jobs[i]
          /\ \A v \in Consumers : v # w => worker'[v] = worker[v]
          /\ worker'[w].job = worker[w].job
          /\ enq' = enq
      BY <1>9, <2>2, MarkProcessingEffect
    <3> QED BY <3>1, <3>2, <3>3
  <2> QED BY <2>1, <2>2
<1>10. ASSUME NEW w \in Consumers, HandlerReturns(w) \/ MarkDone(w) \/ GiveUp(w) \/ Retry(w) PROVE NobodyBefore'
  <2>1. PICK p \in WorkerPcs : Goto(w, p) /\ worker[w].pc # "idle"
    BY <1>10 DEF HandlerReturns, MarkDone, GiveUp, Retry
  <2>2. \A i \in Jobs : jobs'[i].attempts = jobs[i].attempts
    BY <1>10, UpdateStateFacts DEF HandlerReturns, MarkDone, GiveUp, Retry
  <2>3. enq' = enq
    BY <1>10 DEF HandlerReturns, MarkDone, GiveUp, Retry
  <2> HIDE DEF TypeOK
  <2> QED BY <1>8, <2>1, <2>2, <2>3, GotoFacts
<1>11. ASSUME NEW w \in Consumers, Release(w), UNCHANGED <<jobs, dlq, enq>> PROVE NobodyBefore'
  BY <1>8, <1>11, ReleaseFacts
<1>12. ASSUME NEW w \in Consumers, NackDeadLetter(w) \/ Ack(w) PROVE NobodyBefore'
  BY <1>8, <1>12 DEF NackDeadLetter, Ack, Idle
<1>13. ASSUME NEW w \in Consumers, ChannelLoss(w) PROVE NobodyBefore'
  BY <1>8, <1>13 DEF ChannelLoss
<1>14. CASE UNCHANGED vars
  BY <1>8, <1>14 DEF vars
<1>15. ASSUME NEW w \in Consumers, StoreReplyLost(w) PROVE NobodyBefore'
  <2>1. StoredThenReleased(w)
    BY <1>15, StoreReplyLostFacts
  <2>2. \A e \in Enqueuers : enq[e].pc = "publish" => enq[e].job \in Jobs /\ enq[e].job # worker[w].job
    BY <2>1 DEF StoredThenReleased
  <2> QED BY <2>1, <2>2 DEF StoredThenReleased, Idle
<1> QED
  BY <1>1, <1>2, <1>4, <1>5, <1>6, <1>7, <1>9, <1>10, <1>11, <1>12, <1>13, <1>14, <1>15
  DEF Next, EnqueueStep, EnqueuerFault, ConsumerStep, ConsumerFault,
      RetryConflict, NackRequeue, StoreError, WorkerCrash

\* Every step keeps count of the attempts.
LEMMA CountedStep ==
    ASSUME TypeOK, TypeOK', OneCopy, MessageOfWorker, NobodyBefore, AttemptsCounted, [Next]_vars
    PROVE  AttemptsCounted'
<1> USE NoneAssumption, MaxRetriesAssumption
<1> DEFINE Holding == {"handling", "succeeded", "erred", "retryWait"}
           Max == MaxRetries
<1>1. /\ nfaults \in Nat /\ nfaults' \in Nat /\ Max \in Nat \ {0}
      /\ \A j \in Jobs : /\ Counted(j) /\ jobs[j].attempts \in Nat /\ jobs'[j].attempts \in Nat
                         /\ IsFiniteSet(Late(j)) /\ Cardinality(Late(j)) \in Nat /\ Spent(j) \in Nat
                         /\ Spent(j) <= Max + nfaults
      /\ \A w \in Consumers : worker[w].attempts \in Nat /\ worker'[w].attempts \in Nat
      /\ \A w \in Consumers : unacked[w] \in Jobs \cup {NoJob} /\ unacked'[w] \in Jobs \cup {NoJob}
      /\ ready \subseteq Jobs /\ NoJob \notin Jobs
  BY FS_CardinalityType DEF TypeOK, AttemptsCounted, Counted, Spent
\* Nothing is counted, and the message of j goes where there is room for one more.
<1>2. ASSUME NEW j \in Jobs, Late(j)' \subseteq Late(j), jobs'[j].attempts <= jobs[j].attempts,
             nfaults <= nfaults',
             j \in ready' => Spent(j) < Max + nfaults',
             \A w \in Consumers : unacked'[w] = j =>
                /\ worker'[w].pc = "delivered" => Spent(j) < Max + nfaults'
                /\ worker'[w].pc \in Holding => Spent(j) <= worker'[w].attempts + nfaults'
                /\ worker'[w].pc = "retryWait" => worker'[w].attempts < Max
      PROVE  Counted(j)'
  <2>1. /\ IsFiniteSet(Late(j)') /\ Cardinality(Late(j)') <= Cardinality(Late(j))
        /\ Cardinality(Late(j)') \in Nat
    BY <1>1, <1>2, FS_Subset, FS_CardinalityType DEF Counted
  <2>2. Spent(j)' \in Nat /\ Spent(j)' <= Spent(j)
    BY <1>1, <1>2, <2>1 DEF Spent
  <2>3. Cardinality(Late(j)') <= nfaults' /\ Spent(j)' <= Max + nfaults'
    BY <1>1, <1>2, <2>1, <2>2 DEF Counted
  <2>4. j \in ready' => Spent(j)' < Max + nfaults'
    BY <1>1, <1>2, <2>2
  <2>5. ASSUME NEW w \in Consumers, unacked'[w] = j
        PROVE  /\ worker'[w].pc = "delivered" => Spent(j)' < Max + nfaults'
               /\ worker'[w].pc \in Holding => Spent(j)' <= worker'[w].attempts + nfaults'
               /\ worker'[w].pc = "retryWait" => worker'[w].attempts < Max
    <3>1. worker'[w].pc = "delivered" => Spent(j)' < Max + nfaults'
      BY <1>1, <1>2, <2>2, <2>5
    <3>2. ASSUME worker'[w].pc \in Holding PROVE Spent(j)' <= worker'[w].attempts + nfaults'
      BY <1>1, <1>2, <2>2, <2>5, <3>2
    <3> QED BY <1>2, <2>5, <3>1, <3>2
  <2> QED BY <2>1, <2>3, <2>4, <2>5 DEF Counted
\* What a holder knows goes on to hold when it stays where it is.
<1>3. ASSUME NEW j \in Jobs, NEW w \in Consumers, unacked[w] = j, unacked'[w] = j, worker'[w] = worker[w], nfaults <= nfaults'
      PROVE  /\ worker'[w].pc = "delivered" => Spent(j) < Max + nfaults'
             /\ worker'[w].pc \in Holding => Spent(j) <= worker'[w].attempts + nfaults'
             /\ worker'[w].pc = "retryWait" => worker'[w].attempts < Max
  <2>1. /\ worker[w].pc = "delivered" => Spent(j) < Max + nfaults
        /\ worker[w].pc \in Holding => Spent(j) <= worker[w].attempts + nfaults
        /\ worker[w].pc = "retryWait" => worker[w].attempts < Max
    BY <1>1, <1>3 DEF Counted
  <2> QED BY <1>1, <1>3, <2>1
<1>r. \A j \in Jobs : j \in ready => Spent(j) < Max + nfaults
  BY <1>1 DEF Counted
\* The consumers stay where they are.
<1>4. ASSUME UNCHANGED <<worker, unacked>>, nfaults <= nfaults',
             \A j \in Jobs : jobs'[j].attempts <= jobs[j].attempts,
             \A j \in Jobs : j \in ready' => Spent(j) < Max + nfaults'
      PROVE  AttemptsCounted'
  <2> SUFFICES ASSUME NEW j \in Jobs PROVE Counted(j)'
    BY DEF AttemptsCounted
  <2>1. Late(j)' \subseteq Late(j)
    BY <1>4 DEF Late
  <2>2. ASSUME NEW w \in Consumers, unacked'[w] = j PROVE unacked[w] = j /\ worker'[w] = worker[w]
    BY <1>4, <2>2
  <2> QED BY <1>2, <1>3, <1>4, <2>1, <2>2
\* A consumer goes on.
<1>5. ASSUME NEW w \in Consumers, NEW p \in WorkerPcs \ {"idle", "delivered"}, Goto(w, p),
             p \in Holding => worker[w].pc \in Holding, p = "retryWait" => worker[w].attempts < Max,
             \A j \in Jobs : jobs'[j].attempts = jobs[j].attempts,
             UNCHANGED <<ready, unacked, nfaults>>
      PROVE  AttemptsCounted'
  <2> SUFFICES ASSUME NEW j \in Jobs PROVE Counted(j)'
    BY DEF AttemptsCounted
  <2>1. /\ worker'[w].pc = p /\ worker'[w].job = worker[w].job /\ worker'[w].attempts = worker[w].attempts
        /\ \A v \in Consumers : v # w => worker'[v] = worker[v]
    BY <1>5, GotoFacts
  <2>2. Late(j)' \subseteq Late(j)
    BY <1>5, <2>1 DEF Late
  <2>3. nfaults <= nfaults' /\ jobs'[j].attempts <= jobs[j].attempts
    BY <1>1, <1>5
  <2>4. j \in ready' => Spent(j) < Max + nfaults'
    BY <1>r, <1>5
  <2>5. ASSUME NEW v \in Consumers, unacked'[v] = j
        PROVE  /\ worker'[v].pc = "delivered" => Spent(j) < Max + nfaults'
               /\ worker'[v].pc \in Holding => Spent(j) <= worker'[v].attempts + nfaults'
               /\ worker'[v].pc = "retryWait" => worker'[v].attempts < Max
    <3>1. CASE v = w
      <4>1. worker[w].pc \in Holding => Spent(j) <= worker[w].attempts + nfaults
        BY <1>1, <1>5, <2>5, <3>1 DEF Counted
      <4> QED BY <1>5, <2>1, <3>1, <4>1
    <3>2. CASE v # w
      BY <1>3, <1>5, <2>1, <2>3, <2>5, <3>2
    <3> QED BY <3>1, <3>2
  <2> QED BY <1>2, <2>2, <2>3, <2>4, <2>5
<1>u. jobs' = jobs => \A j \in Jobs : jobs'[j].attempts <= jobs[j].attempts
  BY <1>1
\* A consumer lets go of its message; the message may be delivered again where there is room.
<1>6. ASSUME NEW w \in Consumers, worker'[w].pc = "idle", unacked'[w] = NoJob,
             \A v \in Consumers : v # w => worker'[v] = worker[v] /\ unacked'[v] = unacked[v],
             \A j \in Jobs : jobs'[j].attempts <= jobs[j].attempts, nfaults <= nfaults',
             \A j \in Jobs : j \in ready' => j \in ready \/ (unacked[w] = j /\ Spent(j) < Max + nfaults')
      PROVE  AttemptsCounted'
  <2> SUFFICES ASSUME NEW j \in Jobs PROVE Counted(j)'
    BY DEF AttemptsCounted
  <2>1. Late(j)' \subseteq Late(j)
    BY <1>6 DEF Late
  <2>2. jobs'[j].attempts <= jobs[j].attempts
    BY <1>1, <1>6
  <2>3. j \in ready' => Spent(j) < Max + nfaults'
    <3>1. j \in ready => Spent(j) < Max + nfaults'
      BY <1>1, <1>r, <1>6
    <3> QED BY <1>6, <3>1
  <2>4. ASSUME NEW v \in Consumers, unacked'[v] = j PROVE v # w /\ unacked[v] = j /\ worker'[v] = worker[v]
    BY <1>1, <1>6, <2>4
  <2> QED BY <1>2, <1>3, <1>6, <2>1, <2>2, <2>3, <2>4
<1>7. ASSUME NEW w \in Consumers, Release(w), \A j \in Jobs : jobs'[j].attempts <= jobs[j].attempts, nfaults <= nfaults',
             \A j \in Jobs : unacked[w] = j => Spent(j) < Max + nfaults'
      PROVE  AttemptsCounted'
  <2>1. /\ worker'[w].pc = "idle" /\ unacked'[w] = NoJob
        /\ \A v \in Consumers : v # w => worker'[v] = worker[v] /\ unacked'[v] = unacked[v]
        /\ \A j \in Jobs : j \in ready' => j \in ready \/ unacked[w] = j
    BY <1>7, ReleaseFacts
  <2> QED BY <1>6, <1>7, <2>1
<1>8. ASSUME NEW w \in Consumers, NackDeadLetter(w) \/ Ack(w) PROVE AttemptsCounted'
  <2>1. /\ unacked' = [unacked EXCEPT ![w] = NoJob]
        /\ worker' = [worker EXCEPT ![w] = Idle]
        /\ UNCHANGED <<jobs, ready, nfaults>>
    BY <1>8 DEF NackDeadLetter, Ack
  <2>2. DOMAIN unacked = Consumers /\ DOMAIN worker = Consumers
    BY DEF TypeOK
  <2>3. /\ worker'[w].pc = "idle" /\ unacked'[w] = NoJob
        /\ \A v \in Consumers : v # w => worker'[v] = worker[v] /\ unacked'[v] = unacked[v]
    BY <2>1, <2>2 DEF Idle
  <2>4. nfaults <= nfaults'
    BY <1>1, <2>1
  <2> QED BY <1>6, <1>u, <2>1, <2>3, <2>4
\* The new holder of a message is not late.
<1>9. ASSUME NEW w \in Consumers, Deliver(w) PROVE AttemptsCounted'
  <2>1. PICK i \in ready : /\ ready' = ready \ {i}
                           /\ unacked' = [unacked EXCEPT ![w] = i]
                           /\ worker' = [worker EXCEPT ![w] = [pc |-> "delivered", job |-> i, attempts |-> 0]]
    BY <1>9 DEF Deliver
  <2>2. UNCHANGED <<jobs, nfaults>>
    BY <1>9 DEF Deliver
  <2>3. DOMAIN unacked = Consumers /\ DOMAIN worker = Consumers
    BY DEF TypeOK
  <2>4. /\ worker'[w].pc = "delivered" /\ worker'[w].job = i /\ unacked'[w] = i
        /\ \A v \in Consumers : v # w => worker'[v] = worker[v] /\ unacked'[v] = unacked[v]
    BY <2>1, <2>3
  <2> SUFFICES ASSUME NEW j \in Jobs PROVE Counted(j)'
    BY DEF AttemptsCounted
  <2>5. Late(j)' \subseteq Late(j)
    BY <2>4 DEF Late
  <2>6. nfaults <= nfaults' /\ jobs'[j].attempts <= jobs[j].attempts
    BY <1>1, <2>2
  <2>7. j \in ready => Spent(j) < Max + nfaults'
    BY <1>r, <2>2
  <2>8. ASSUME NEW v \in Consumers, unacked'[v] = j
        PROVE  /\ worker'[v].pc = "delivered" => Spent(j) < Max + nfaults'
               /\ worker'[v].pc \in Holding => Spent(j) <= worker'[v].attempts + nfaults'
               /\ worker'[v].pc = "retryWait" => worker'[v].attempts < Max
    <3>1. CASE v = w
      BY <2>4, <2>7, <2>8, <3>1
    <3>2. CASE v # w
      BY <1>3, <2>4, <2>6, <2>8, <3>2
    <3> QED BY <3>1, <3>2
  <2> QED BY <1>2, <2>1, <2>5, <2>6, <2>7, <2>8
\* A handler starts: its attempt was there to be counted, whether it holds the message or is late.
<1>10. ASSUME NEW w \in Consumers, MarkProcessing(w) PROVE AttemptsCounted'
  <2>1. CASE jobs[worker[w].job].status \in Terminal
    <3>1. /\ Goto(w, "ack") /\ UNCHANGED jobs /\ UNCHANGED <<ready, unacked, nfaults>>
      BY <1>10, <2>1 DEF MarkProcessing
    <3> QED BY <1>5, <3>1
  <2>2. CASE jobs[worker[w].job].status \notin Terminal
    <3>1. PICK i \in Jobs : i = worker[w].job
      BY <1>10, <2>2, MarkProcessingEffect
    <3>2. /\ jobs'[i].attempts = jobs[i].attempts + 1 /\ worker'[w].attempts = jobs[i].attempts + 1
          /\ UNCHANGED nfaults
      BY <1>10, <2>2, <3>1, MarkProcessingCounts
    <3>3. /\ \A k \in Jobs : k # i => jobs'[k] = jobs[k]
          /\ \A v \in Consumers : v # w => worker'[v] = worker[v]
          /\ worker'[w].pc = "handling" /\ worker'[w].job = i
          /\ UNCHANGED <<ready, unacked>>
      BY <1>10, <2>2, <3>1, MarkProcessingEffect
    <3>4. worker[w].pc = "delivered" /\ worker[w].job = i
      BY <1>10, <3>1 DEF MarkProcessing
    <3>5. nfaults <= nfaults'
      BY <1>1, <3>2
    <3>6. ASSUME NEW j \in Jobs, j # i PROVE Counted(j)'
      <4>1. Late(j)' \subseteq Late(j)
        BY <3>3, <3>4, <3>6 DEF Late
      <4>2. ASSUME NEW v \in Consumers, unacked'[v] = j PROVE v # w /\ unacked[v] = j /\ worker'[v] = worker[v]
        BY <1>1, <3>3, <3>4, <3>6, <4>2 DEF MessageOfWorker
      <4>3. j \in ready' => Spent(j) < Max + nfaults'
        BY <1>r, <3>2, <3>3
      <4>4. jobs'[j].attempts <= jobs[j].attempts
        BY <1>1, <3>3, <3>6
      <4> QED BY <1>2, <1>3, <3>5, <4>1, <4>2, <4>3, <4>4
    \* The consumer holds the message: it is the only holder, and it is not ready.
    <3>7. CASE unacked[w] = i
      <4>1. Late(i)' = Late(i)
        BY <3>3, <3>4, <3>7 DEF Late
      <4>2. Spent(i)' = Spent(i) + 1
        BY <1>1, <3>2, <4>1 DEF Spent
      <4>3. Spent(i) < Max + nfaults /\ Cardinality(Late(i)) <= nfaults
        BY <1>1, <3>4, <3>7 DEF Counted
      <4>4. Spent(i)' <= worker'[w].attempts + nfaults'
        BY <1>1, <3>2, <4>2, <4>3 DEF Spent
      <4>5. i \notin ready' /\ \A v \in Consumers : unacked'[v] = i => v = w
        BY <3>3, <3>7 DEF OneCopy
      <4>6. Spent(i)' <= Max + nfaults' /\ IsFiniteSet(Late(i)') /\ Cardinality(Late(i)') <= nfaults'
        BY <1>1, <3>2, <4>1, <4>2, <4>3
      <4>7. Counted(i)'
        BY <3>3, <4>4, <4>5, <4>6 DEF Counted
      <4> QED BY <3>6, <4>7 DEF AttemptsCounted
    \* The consumer is late: what it counts was counted as late before.
    <3>8. CASE unacked[w] # i
      <4>1. w \in Late(i) /\ Late(i)' = Late(i) \ {w}
        BY <3>3, <3>4, <3>8 DEF Late
      <4>2. /\ IsFiniteSet(Late(i)') /\ Cardinality(Late(i)') = Cardinality(Late(i)) - 1
        BY <1>1, <4>1, FS_RemoveElement
      <4>3. Spent(i)' = Spent(i)
        BY <1>1, <3>2, <4>2 DEF Spent
      <4>4. Spent(i)' <= Max + nfaults' /\ Cardinality(Late(i)') <= nfaults'
        BY <1>1, <3>2, <4>2, <4>3 DEF Counted
      <4>5. i \in ready' => Spent(i)' < Max + nfaults'
        BY <1>r, <3>2, <3>3, <4>3
      <4>6. ASSUME NEW v \in Consumers, unacked'[v] = i PROVE v # w /\ unacked[v] = i /\ worker'[v] = worker[v]
        BY <3>3, <3>8, <4>6
      <4>7. Counted(i)'
        BY <1>3, <3>5, <4>2, <4>3, <4>4, <4>5, <4>6 DEF Counted
      <4> QED BY <3>6, <4>7 DEF AttemptsCounted
    <3> QED BY <3>7, <3>8
  <2> QED BY <2>1, <2>2
\* A channel closes: its consumer may become late, and the fault makes room for it.
<1>11. ASSUME NEW w \in Consumers, ChannelLoss(w) PROVE AttemptsCounted'
  <2>1. PICK i \in Jobs : i = unacked[w]
    BY <1>1, <1>11 DEF ChannelLoss
  <2>2. /\ ready' = ready \cup {i} /\ unacked' = [unacked EXCEPT ![w] = NoJob]
        /\ UNCHANGED <<jobs, worker>> /\ nfaults' = nfaults + 1
    BY <1>1, <1>11, <2>1 DEF ChannelLoss, Requeue, Unsettled, Fault
  <2>3. unacked'[w] = NoJob /\ \A v \in Consumers : v # w => unacked'[v] = unacked[v]
    BY <2>2 DEF TypeOK
  <2>4. worker[w].pc # "idle" /\ worker[w].job = i
    BY <1>1, <2>1 DEF MessageOfWorker
  <2>5. nfaults <= nfaults'
    BY <1>1, <2>2
  <2>6. ASSUME NEW j \in Jobs, j # i PROVE Counted(j)'
    <3>1. Late(j)' \subseteq Late(j)
      BY <2>2, <2>3, <2>4, <2>6 DEF Late
    <3>2. ASSUME NEW v \in Consumers, unacked'[v] = j PROVE v # w /\ unacked[v] = j /\ worker'[v] = worker[v]
      BY <1>1, <2>2, <2>3, <2>6, <3>2
    <3>3. j \in ready' => Spent(j) < Max + nfaults'
      BY <1>1, <1>r, <2>2, <2>6
    <3>4. jobs'[j].attempts <= jobs[j].attempts
      BY <1>1, <2>2
    <3> QED BY <1>2, <1>3, <2>5, <3>1, <3>2, <3>3, <3>4
  <2>7. \A v \in Consumers : unacked'[v] # i
    BY <1>1, <2>1, <2>3 DEF OneCopy
  <2>8. CASE worker[w].pc = "delivered"
    <3>1. w \notin Late(i) /\ Late(i)' = Late(i) \cup {w}
      BY <1>1, <2>1, <2>2, <2>3, <2>4, <2>8 DEF Late
    <3>2. /\ IsFiniteSet(Late(i)') /\ Cardinality(Late(i)') = Cardinality(Late(i)) + 1
      BY <1>1, <3>1, FS_AddElement
    <3>3. Spent(i)' = Spent(i) + 1
      BY <1>1, <2>2, <3>2 DEF Spent
    <3>4. Spent(i) < Max + nfaults /\ Cardinality(Late(i)) <= nfaults
      BY <1>1, <2>1, <2>8 DEF Counted
    <3>5. /\ Spent(i)' < Max + nfaults' /\ Spent(i)' <= Max + nfaults' /\ Cardinality(Late(i)') <= nfaults'
      BY <1>1, <2>2, <3>2, <3>3, <3>4
    <3>6. Counted(i)'
      BY <2>7, <3>2, <3>5 DEF Counted
    <3> QED BY <2>6, <3>6 DEF AttemptsCounted
  <2>9. CASE worker[w].pc # "delivered"
    <3>1. Late(i)' \subseteq Late(i)
      BY <2>2, <2>3, <2>9 DEF Late
    <3>2. Spent(i) < Max + nfaults' /\ jobs'[i].attempts <= jobs[i].attempts
      BY <1>1, <2>2
    <3>3. Counted(i)'
      BY <1>2, <2>5, <2>7, <3>1, <3>2
    <3> QED BY <2>6, <3>3 DEF AttemptsCounted
  <2> QED BY <2>8, <2>9
\* The calls of EnqueueWithPayload.
<1>12. ASSUME NEW e \in Enqueuers, enq[e].pc = "publish" PROVE enq[e].job \in Jobs /\ Spent(enq[e].job) = 0
  <2>1. PICK i \in Jobs : i = enq[e].job
    BY <1>12 DEF TypeOK
  <2>2. Late(i) = {} /\ jobs[i].attempts = 0
    BY <1>12, <2>1 DEF Late, NobodyBefore
  <2>3. Spent(i) = 0
    BY <2>2, FS_EmptySet DEF Spent
  <2> QED BY <2>1, <2>3
<1>13. ASSUME NEW e \in Enqueuers, Publish(e) \/ PublishError(e) PROVE AttemptsCounted'
  <2>1. /\ UNCHANGED <<jobs, worker, unacked>> /\ enq[e].pc = "publish"
        /\ ready' = ready \/ ready' = ready \cup {enq[e].job}
        /\ nfaults' = nfaults \/ nfaults' = nfaults + 1
    BY <1>13 DEF Publish, PublishError, Fault
  <2>2. nfaults <= nfaults'
    BY <1>1, <2>1
  <2>3. ASSUME NEW j \in Jobs, j \in ready' PROVE Spent(j) < Max + nfaults'
    <3>1. CASE j \in ready
      BY <1>1, <1>r, <2>2, <3>1
    <3>2. CASE j = enq[e].job
      BY <1>1, <1>12, <2>1, <3>2
    <3> QED BY <2>1, <2>3, <3>1, <3>2
  <2>4. \A j \in Jobs : jobs'[j].attempts <= jobs[j].attempts
    BY <1>1, <2>1
  <2> QED BY <1>4, <2>1, <2>2, <2>3, <2>4
<1>14. ASSUME NEW e \in Enqueuers, EnqueueInsert(e) PROVE AttemptsCounted'
  <2>1. PICK i \in Jobs : jobs' = [jobs EXCEPT ![i] = [res |-> enq[e].res, status |-> "queued", attempts |-> 0]]
    BY <1>14 DEF EnqueueInsert
  <2>2. \A j \in Jobs : jobs'[j].attempts = jobs[j].attempts \/ jobs'[j].attempts = 0
    BY <2>1 DEF TypeOK
  <2>3. \A j \in Jobs : jobs'[j].attempts <= jobs[j].attempts
    BY <1>1, <2>2
  <2>4. UNCHANGED <<worker, unacked, ready, nfaults>>
    BY <1>14 DEF EnqueueInsert
  <2> QED BY <1>1, <1>4, <1>r, <2>3, <2>4
<1>15. ASSUME UNCHANGED <<worker, unacked, ready>>, nfaults <= nfaults', \A j \in Jobs : jobs'[j].attempts = jobs[j].attempts
       PROVE  AttemptsCounted'
  BY <1>1, <1>4, <1>r, <1>15
<1>16. ASSUME NEW e \in Enqueuers, EnqueueMarkFailed(e) PROVE AttemptsCounted'
  <2>1. enq[e].job \in Jobs
    BY <1>16 DEF EnqueueMarkFailed, TypeOK
  <2>2. \A j \in Jobs : jobs'[j].attempts = jobs[j].attempts
    BY <1>16, <2>1, UpdateStateFacts DEF EnqueueMarkFailed
  <2> QED BY <1>1, <1>15, <1>16, <2>2 DEF EnqueueMarkFailed
<1>17. ASSUME NEW e \in Enqueuers, EnqueueConflict(e) \/ EnqueuerDies(e) PROVE AttemptsCounted'
  BY <1>1, <1>15, <1>17 DEF EnqueueConflict, EnqueuerDies, Fault
<1>18. ASSUME NEW e \in Enqueuers, NEW r \in Resources, EnqueueFindsActive(e, r) \/ EnqueueSelect(e, r)
       PROVE  AttemptsCounted'
  BY <1>1, <1>15, <1>18 DEF EnqueueFindsActive, EnqueueSelect, vars
\* The handler has returned.
<1>19. ASSUME NEW w \in Consumers, HandlerReturns(w) PROVE AttemptsCounted'
  BY <1>5, <1>19 DEF HandlerReturns
<1>20. ASSUME NEW w \in Consumers, MarkDone(w) \/ GiveUp(w) \/ Retry(w) PROVE AttemptsCounted'
  <2>1. PICK p \in {"ack", "deadLetter", "retryWait"} :
          /\ Goto(w, p) /\ UNCHANGED <<ready, unacked, nfaults>>
          /\ p = "retryWait" => worker[w].pc = "erred" /\ worker[w].attempts < Max
    BY <1>20 DEF MarkDone, GiveUp, Retry
  <2>2. worker[w].job \in Jobs
    BY <1>20 DEF MarkDone, GiveUp, Retry, TypeOK
  <2>3. \A j \in Jobs : jobs'[j].attempts = jobs[j].attempts
    BY <1>20, <2>2, UpdateStateFacts DEF MarkDone, GiveUp, Retry
  <2> QED BY <1>5, <2>1, <2>3
<1>21. ASSUME NEW w \in Consumers, RetryConflict(w) \/ NackRequeue(w) PROVE AttemptsCounted'
  <2>1. /\ Release(w) /\ UNCHANGED <<jobs, nfaults>>
        /\ worker[w].pc \in {"erred", "retryWait"}
        /\ worker[w].pc = "erred" => worker[w].attempts < Max
    BY <1>21 DEF RetryConflict, NackRequeue
  <2>2. ASSUME NEW j \in Jobs, unacked[w] = j PROVE Spent(j) < Max + nfaults'
    <3>1. Spent(j) <= worker[w].attempts + nfaults /\ worker[w].attempts < Max
      BY <1>1, <2>1, <2>2 DEF Counted
    <3> QED BY <1>1, <2>1, <3>1
  <2> QED BY <1>1, <1>7, <1>u, <2>1, <2>2
<1>22. ASSUME NEW w \in Consumers, StoreError(w) \/ WorkerCrash(w) PROVE AttemptsCounted'
  <2>1. Release(w) /\ UNCHANGED jobs /\ nfaults' = nfaults + 1
    BY <1>22 DEF StoreError, WorkerCrash, Fault
  <2>2. nfaults <= nfaults' /\ \A j \in Jobs : Spent(j) < Max + nfaults'
    BY <1>1, <2>1
  <2> QED BY <1>7, <1>u, <2>1, <2>2
\* A store call whose reply is lost may have counted an attempt: the fault makes room for it.
<1>24. ASSUME NEW w \in Consumers, StoreReplyLost(w) PROVE AttemptsCounted'
  <2>1. StoredThenReleased(w)
    BY <1>24, StoreReplyLostFacts
  <2>2. PICK i \in Jobs : i = worker[w].job
    BY <2>1 DEF StoredThenReleased
  <2>3. /\ worker'[w].pc = "idle" /\ unacked'[w] = NoJob
        /\ \A v \in Consumers : v # w => worker'[v] = worker[v] /\ unacked'[v] = unacked[v]
        /\ \A j \in Jobs : j # i => jobs'[j] = jobs[j]
        /\ nfaults' = nfaults + 1
        /\ worker[w].pc # "idle"
    BY <2>1, <2>2 DEF StoredThenReleased, Idle
  <2>4. nfaults <= nfaults'
    BY <1>1, <2>3
  <2>5. unacked[w] \in {i, NoJob} /\ ready' = ready \cup ({unacked[w]} \ {NoJob})
    BY <1>1, <2>1, <2>2 DEF StoredThenReleased, Unsettled, MessageOfWorker
  <2>6. CASE worker[w].pc # "delivered"
    <3>1. jobs'[i].attempts = jobs[i].attempts
      BY <2>1, <2>2, <2>6 DEF StoredThenReleased
    <3>2. \A j \in Jobs : jobs'[j].attempts <= jobs[j].attempts
      BY <1>1, <2>3, <3>1
    <3>3. \A j \in Jobs : j \in ready' => j \in ready \/ (unacked[w] = j /\ Spent(j) < Max + nfaults')
      BY <1>1, <2>3, <2>5
    <3> QED BY <1>6, <2>3, <2>4, <3>2, <3>3
  <2>7. CASE worker[w].pc = "delivered"
    <3>1. jobs'[i].attempts = jobs[i].attempts + 1
      BY <2>1, <2>2, <2>7 DEF StoredThenReleased
    <3>2. ASSUME NEW j \in Jobs, j # i PROVE Counted(j)'
      <4>1. Late(j)' \subseteq Late(j)
        BY <2>3 DEF Late
      <4>2. ASSUME NEW v \in Consumers, unacked'[v] = j PROVE v # w /\ unacked[v] = j /\ worker'[v] = worker[v]
        BY <1>1, <2>3, <4>2
      <4>3. j \in ready' => Spent(j) < Max + nfaults'
        BY <1>1, <1>r, <2>3, <2>5, <3>2
      <4>4. jobs'[j].attempts <= jobs[j].attempts
        BY <1>1, <2>3, <3>2
      <4> QED BY <1>2, <1>3, <2>4, <4>1, <4>2, <4>3, <4>4
    <3>3. CASE unacked[w] = i
      <4>1. Late(i)' = Late(i)
        BY <1>1, <2>2, <2>3, <3>3 DEF Late
      <4>2. Spent(i)' = Spent(i) + 1
        BY <1>1, <3>1, <4>1 DEF Spent
      <4>3. Spent(i) < Max + nfaults /\ Cardinality(Late(i)) <= nfaults
        BY <1>1, <2>7, <3>3 DEF Counted
      <4>4. /\ Spent(i)' < Max + nfaults' /\ Spent(i)' <= Max + nfaults'
            /\ IsFiniteSet(Late(i)') /\ Cardinality(Late(i)') <= nfaults'
        BY <1>1, <2>3, <4>1, <4>2, <4>3
      <4>5. \A v \in Consumers : unacked'[v] # i
        BY <1>1, <2>3, <3>3 DEF OneCopy
      <4>6. Counted(i)'
        BY <4>4, <4>5 DEF Counted
      <4> QED BY <3>2, <4>6 DEF AttemptsCounted
    <3>4. CASE unacked[w] # i
      <4>1. w \in Late(i) /\ Late(i)' = Late(i) \ {w}
        BY <2>2, <2>3, <2>7, <3>4 DEF Late
      <4>2. IsFiniteSet(Late(i)') /\ Cardinality(Late(i)') = Cardinality(Late(i)) - 1
        BY <1>1, <4>1, FS_RemoveElement
      <4>3. Spent(i)' = Spent(i)
        BY <1>1, <3>1, <4>2 DEF Spent
      <4>4. Spent(i)' <= Max + nfaults' /\ Cardinality(Late(i)') <= nfaults'
        BY <1>1, <2>3, <4>2, <4>3 DEF Counted
      <4>5. i \in ready' => Spent(i)' < Max + nfaults'
        BY <1>1, <1>r, <2>3, <2>5, <3>4, <4>3
      <4>6. ASSUME NEW v \in Consumers, unacked'[v] = i PROVE v # w /\ unacked[v] = i /\ worker'[v] = worker[v]
        BY <1>1, <2>3, <4>6
      <4>7. Counted(i)'
        BY <1>3, <2>4, <4>2, <4>3, <4>4, <4>5, <4>6 DEF Counted
      <4> QED BY <3>2, <4>7 DEF AttemptsCounted
    <3> QED BY <3>3, <3>4
  <2> QED BY <2>6, <2>7
<1>23. CASE UNCHANGED vars
  BY <1>1, <1>15, <1>23 DEF vars
<1> QED
  BY <1>8, <1>9, <1>10, <1>11, <1>13, <1>14, <1>16, <1>17, <1>18, <1>19, <1>20, <1>21, <1>22, <1>23, <1>24
  DEF Next, EnqueueStep, EnqueuerFault, ConsumerStep, ConsumerFault

\* A handler runs at most MaxRetries times for a job and once more for each fault, whatever
\* the faults and however many consumers share the queue: handleProcessingError compares the
\* count its own MarkProcessing returned, which by then may not be the count in the row.
THEOREM AttemptsBoundedCorrect == Spec => []AttemptsBounded
<1>1. Init => MessageOfWorker /\ NobodyBefore /\ AttemptsCounted
  <2> SUFFICES ASSUME Init PROVE MessageOfWorker /\ NobodyBefore /\ AttemptsCounted
    OBVIOUS
  <2>1. MessageOfWorker /\ NobodyBefore
    BY DEF Init, MessageOfWorker, NobodyBefore, NoCall, Idle
  <2>2. ASSUME NEW j \in Jobs PROVE Counted(j)
    <3>1. Late(j) = {} /\ jobs[j].attempts = 0 /\ nfaults = 0 /\ ready = {}
      BY DEF Init, Late, Idle
    <3>2. Cardinality(Late(j)) = 0 /\ IsFiniteSet(Late(j)) /\ Spent(j) = 0
      BY <3>1, FS_EmptySet DEF Spent
    <3>3. \A w \in Consumers : unacked[w] # j
      BY NoneAssumption DEF Init
    <3> QED BY <3>1, <3>2, <3>3, MaxRetriesAssumption DEF Counted
  <2> QED BY <2>1, <2>2 DEF AttemptsCounted
<1>2. TypeOK /\ AttemptsCounted => AttemptsBounded
  <2> SUFFICES ASSUME TypeOK, AttemptsCounted, NEW j \in Jobs PROVE jobs[j].attempts <= MaxRetries + nfaults
    BY DEF AttemptsBounded
  <2>1. Cardinality(Late(j)) \in Nat /\ jobs[j].attempts \in Nat /\ nfaults \in Nat
    BY FS_CardinalityType DEF AttemptsCounted, Counted, TypeOK
  <2>2. jobs[j].attempts + Cardinality(Late(j)) <= MaxRetries + nfaults
    BY DEF AttemptsCounted, Counted, Spent
  <2> QED BY <2>1, <2>2, MaxRetriesAssumption
<1> QED
  BY <1>1, <1>2, MessageOfWorkerStep, NobodyBeforeStep, CountedStep, TypeCorrect, CreatedCorrect, OneCopyCorrect, PTL DEF Spec
-----------------------------------------------------------------------------
(* The dead-letter queue. *)

\* What makes DeadLetterMatchesFailed inductive: a message is dead-lettered for a job that
\* failed, and a job whose call may still fail it was never tried.
DeadLetterHolder ==
    /\ \A w \in Consumers : worker[w].pc = "deadLetter" => jobs[worker[w].job].status = "failed"
    /\ \A e \in Enqueuers : Owning(e) => jobs[enq[e].job].attempts = 0


\* Every step keeps the dead-letter queue and the rows in agreement.
LEMMA DeadLetterStep ==
    ASSUME "channelLoss" \notin Faults, "lostConfirm" \notin Faults, "workerCrash" \notin Faults,
           "storeReplyLost" \notin Faults,
           TypeOK, Created, OneCopy, PublishedOnce, WorkerHoldsMessage, RowMatchesHolder,
           DeadLetterHolder, DeadLetterMatchesFailed, [Next]_vars
    PROVE  DeadLetterHolder' /\ DeadLetterMatchesFailed'
<1> USE NoneAssumption, MaxRetriesAssumption
<1> DEFINE Goal == DeadLetterHolder' /\ DeadLetterMatchesFailed'
<1>1. /\ \A w \in Consumers : worker[w].pc # "idle" => worker[w].job \in Jobs /\ unacked[w] = worker[w].job
      /\ \A w \in Consumers : worker[w].pc = "idle" => unacked[w] = NoJob
      /\ \A w \in Consumers : unacked[w] \in Jobs \cup {NoJob}
      /\ \A e \in Enqueuers : Owning(e) => enq[e].job \in Jobs
      /\ dlq \subseteq Jobs /\ ready \subseteq Jobs /\ NoJob \notin Jobs
      /\ \A j \in Jobs : jobs[j].attempts \in Nat
  BY DEF TypeOK, WorkerHoldsMessage, Owning
\* The rows, the dead-letter queue and the messages of those who dead-letter stay.
<1>2. ASSUME UNCHANGED <<jobs, dlq, unacked>>,
             \A w \in Consumers : (worker[w].pc = "deadLetter") = (worker'[w].pc = "deadLetter"),
             \A w \in Consumers : worker'[w].pc = "deadLetter" => worker'[w].job = worker[w].job,
             \A e \in Enqueuers : Owning(e)' => Owning(e) /\ enq'[e].job = enq[e].job
      PROVE  Goal
  BY <1>2 DEF DeadLetterHolder, DeadLetterMatchesFailed
\* A consumer that goes on changes the row of its own job, and not to failed.
<1>3. ASSUME NEW w \in Consumers, worker[w].pc \in {"delivered", "handling", "succeeded", "erred"},
             NEW p \in WorkerPcs \ {"deadLetter"},
             worker'[w].pc = p, \A v \in Consumers : v # w => worker'[v] = worker[v],
             \A i \in Jobs : i # worker[w].job => jobs'[i] = jobs[i],
             jobs'[worker[w].job].status # "failed",
             UNCHANGED <<dlq, unacked, enq>>
      PROVE  Goal
  <2>1. PICK i \in Jobs : i = worker[w].job /\ unacked[w] = i
    BY <1>1, <1>3
  <2>2. i \notin dlq /\ \A v \in Consumers : unacked[v] = i => v = w
    BY <2>1 DEF OneCopy
  <2>3. \A e \in Enqueuers : Owning(e) => enq[e].job # i /\ enq[e].job \in Jobs
    BY <1>1, <2>1 DEF RowMatchesHolder, Unpublished
  <2>4. DeadLetterHolder'
    <3>1. ASSUME NEW v \in Consumers, worker'[v].pc = "deadLetter" PROVE jobs'[worker'[v].job].status = "failed"
      <4>1. v # w /\ worker'[v] = worker[v]
        BY <1>3, <3>1
      <4>2. worker[v].job \in Jobs /\ worker[v].job # i
        BY <1>1, <2>2, <3>1, <4>1
      <4> QED BY <1>3, <2>1, <3>1, <4>1, <4>2 DEF DeadLetterHolder
    <3>2. ASSUME NEW e \in Enqueuers, Owning(e)' PROVE jobs'[enq'[e].job].attempts = 0
      BY <1>3, <2>1, <2>3, <3>2 DEF DeadLetterHolder, Owning
    <3> QED BY <3>1, <3>2 DEF DeadLetterHolder
  <2>5. \A j \in dlq' : jobs'[j].status = "failed"
    BY <1>1, <1>3, <2>1, <2>2 DEF DeadLetterMatchesFailed
  <2>6. ASSUME NEW j \in Jobs, jobs'[j].status = "failed", jobs'[j].attempts >= MaxRetries
        PROVE  j \in dlq' \/ \E v \in Consumers : unacked'[v] = j /\ worker'[v].pc = "deadLetter"
    <3>1. j # i /\ jobs'[j] = jobs[j]
      BY <1>3, <2>1, <2>6
    <3>2. j \in dlq \/ \E v \in Consumers : unacked[v] = j /\ worker[v].pc = "deadLetter"
      BY <2>6, <3>1 DEF DeadLetterMatchesFailed
    <3> QED BY <1>3, <2>1, <3>1, <3>2
  <2> QED BY <2>4, <2>5, <2>6 DEF DeadLetterMatchesFailed
<1>4. ASSUME NEW e \in Enqueuers, NEW r \in Resources, EnqueueFindsActive(e, r) \/ EnqueueSelect(e, r) PROVE Goal
  <2>1. UNCHANGED <<jobs, dlq, unacked, worker>>
    BY <1>4 DEF EnqueueFindsActive, EnqueueSelect, vars
  <2>2. \A f \in Enqueuers : Owning(f)' => Owning(f) /\ enq'[f].job = enq[f].job
    BY <1>4 DEF EnqueueFindsActive, EnqueueSelect, vars, Owning, TypeOK
  <2> QED BY <1>2, <2>1, <2>2
<1>5. ASSUME NEW e \in Enqueuers, EnqueueInsert(e) PROVE Goal
  <2>1. PICK i \in Jobs : /\ jobs[i].status = "absent"
                          /\ jobs' = [jobs EXCEPT ![i] = [res |-> enq[e].res, status |-> "queued", attempts |-> 0]]
                          /\ enq' = [enq EXCEPT ![e] = [pc |-> "publish", res |-> enq[e].res, job |-> i]]
    BY <1>5 DEF EnqueueInsert
  <2>2. UNCHANGED <<dlq, unacked, worker>>
    BY <1>5 DEF EnqueueInsert
  <2>3. /\ jobs'[i].status = "queued" /\ jobs'[i].attempts = 0
        /\ \A j \in Jobs : j # i => jobs'[j] = jobs[j]
        /\ enq'[e].job = i /\ \A f \in Enqueuers : f # e => enq'[f] = enq[f]
    BY <2>1 DEF TypeOK
  <2>4. DeadLetterHolder'
    <3>1. ASSUME NEW v \in Consumers, worker'[v].pc = "deadLetter" PROVE jobs'[worker'[v].job].status = "failed"
      BY <1>1, <2>1, <2>2, <2>3, <3>1 DEF DeadLetterHolder, Created
    <3>2. ASSUME NEW f \in Enqueuers, Owning(f)' PROVE jobs'[enq'[f].job].attempts = 0
      <4>1. CASE f = e
        BY <2>3, <4>1
      <4>2. CASE f # e
        BY <1>1, <2>1, <2>3, <3>2, <4>2 DEF DeadLetterHolder, Created, Owning
      <4> QED BY <4>1, <4>2
    <3> QED BY <3>1, <3>2 DEF DeadLetterHolder
  <2>5. \A j \in dlq' : jobs'[j].status = "failed"
    BY <1>1, <2>1, <2>2, <2>3 DEF DeadLetterMatchesFailed, Created
  <2> QED BY <2>2, <2>3, <2>4, <2>5 DEF DeadLetterMatchesFailed
<1>6. ASSUME NEW e \in Enqueuers, EnqueueConflict(e) \/ Publish(e) \/ EnqueuerDies(e) \/ PublishError(e) PROVE Goal
  <2>1. UNCHANGED <<jobs, dlq, unacked, worker>>
    BY <1>6 DEF EnqueueConflict, Publish, EnqueuerDies, PublishError
  <2>2. \A f \in Enqueuers : Owning(f)' => Owning(f) /\ enq'[f].job = enq[f].job
    BY <1>6 DEF EnqueueConflict, Publish, EnqueuerDies, PublishError, Owning, TypeOK, NoCall
  <2> QED BY <1>2, <2>1, <2>2
\* A call fails its job: it was never tried.
<1>7. ASSUME NEW e \in Enqueuers, EnqueueMarkFailed(e) PROVE Goal
  <2>1. PICK i \in Jobs : i = enq[e].job /\ Owning(e)
    BY <1>7 DEF EnqueueMarkFailed, Owning, TypeOK
  <2>2. /\ UNCHANGED <<dlq, unacked, worker>> /\ enq' = [enq EXCEPT ![e] = NoCall]
    BY <1>7 DEF EnqueueMarkFailed
  <2>3. /\ \A j \in Jobs : jobs'[j].attempts = jobs[j].attempts
        /\ \A j \in Jobs : j # i => jobs'[j] = jobs[j]
        /\ jobs'[i].status = "failed"
    BY <1>7, <2>1, UpdateStateFacts DEF EnqueueMarkFailed
  <2>4. jobs[i].attempts = 0
    BY <2>1 DEF DeadLetterHolder
  <2>5. ~ Owning(e)' /\ \A f \in Enqueuers : f # e => enq'[f] = enq[f]
    BY <2>2 DEF Owning, NoCall, TypeOK
  <2>6. DeadLetterHolder'
    <3>1. ASSUME NEW v \in Consumers, worker'[v].pc = "deadLetter" PROVE jobs'[worker'[v].job].status = "failed"
      BY <1>1, <2>2, <2>3, <3>1 DEF DeadLetterHolder
    <3>2. ASSUME NEW f \in Enqueuers, Owning(f)' PROVE jobs'[enq'[f].job].attempts = 0
      BY <1>1, <2>3, <2>5, <3>2 DEF DeadLetterHolder, Owning
    <3> QED BY <3>1, <3>2 DEF DeadLetterHolder
  <2>7. \A j \in dlq' : jobs'[j].status = "failed"
    BY <1>1, <2>2, <2>3 DEF DeadLetterMatchesFailed
  <2>8. ASSUME NEW j \in Jobs, jobs'[j].status = "failed", jobs'[j].attempts >= MaxRetries
        PROVE  j \in dlq' \/ \E v \in Consumers : unacked'[v] = j /\ worker'[v].pc = "deadLetter"
    <3>1. j # i
      BY <2>3, <2>4, <2>8
    <3> QED BY <2>2, <2>3, <2>8, <3>1 DEF DeadLetterMatchesFailed
  <2> QED BY <2>6, <2>7, <2>8 DEF DeadLetterMatchesFailed
<1>8. ASSUME NEW w \in Consumers, Deliver(w) PROVE Goal
  <2>1. PICK i \in ready : /\ unacked' = [unacked EXCEPT ![w] = i]
                           /\ worker' = [worker EXCEPT ![w] = [pc |-> "delivered", job |-> i, attempts |-> 0]]
    BY <1>8 DEF Deliver
  <2>2. UNCHANGED <<jobs, dlq, enq>> /\ worker[w].pc = "idle"
    BY <1>8 DEF Deliver
  <2>3. /\ worker'[w].pc = "delivered"
        /\ \A v \in Consumers : v # w => worker'[v] = worker[v] /\ unacked'[v] = unacked[v]
    BY <2>1 DEF TypeOK
  <2>4. \A v \in Consumers : worker[v].pc = "deadLetter" => v # w
    BY <2>2
  <2>5. \A v \in Consumers : worker'[v].pc = "deadLetter" => v # w
    BY <2>3
  <2> QED BY <2>2, <2>3, <2>4, <2>5 DEF DeadLetterHolder, DeadLetterMatchesFailed, Owning
<1>9. ASSUME NEW w \in Consumers, MarkProcessing(w) PROVE Goal
  <2>1. CASE jobs[worker[w].job].status \in Terminal
    <3>1. /\ Goto(w, "ack") /\ worker[w].pc = "delivered" /\ UNCHANGED <<jobs, dlq, unacked, enq>>
      BY <1>9, <2>1 DEF MarkProcessing
    <3>2. worker'[w].pc = "ack" /\ \A v \in Consumers : v # w => worker'[v] = worker[v]
      BY <3>1, GotoFacts
    <3> QED BY <1>2, <3>1, <3>2 DEF Owning
  <2>2. CASE jobs[worker[w].job].status \notin Terminal
    <3>1. worker[w].pc = "delivered"
      BY <1>9 DEF MarkProcessing
    <3>2. /\ \A i \in Jobs : i # worker[w].job => jobs'[i] = jobs[i]
          /\ jobs'[worker[w].job].status = "processing" /\ worker'[w].pc = "handling"
          /\ \A v \in Consumers : v # w => worker'[v] = worker[v]
          /\ UNCHANGED <<dlq, unacked, enq>>
      BY <1>9, <2>2, MarkProcessingEffect
    <3> QED BY <1>3, <3>1, <3>2
  <2> QED BY <2>1, <2>2
<1>10. ASSUME NEW w \in Consumers, HandlerReturns(w) PROVE Goal
  <2>1. PICK p \in {"succeeded", "erred"} : Goto(w, p)
    BY <1>10 DEF HandlerReturns
  <2>2. worker[w].pc = "handling" /\ UNCHANGED <<jobs, dlq, unacked, enq>>
    BY <1>10 DEF HandlerReturns
  <2>3. worker'[w].pc = p /\ \A v \in Consumers : v # w => worker'[v] = worker[v]
    BY <2>1, GotoFacts
  <2> QED BY <1>2, <2>2, <2>3 DEF Owning
<1>11. ASSUME NEW w \in Consumers, MarkDone(w) \/ Retry(w) PROVE Goal
  <2>1. PICK p \in {"ack", "retryWait"}, s \in {"done", "queued"} : Goto(w, p) /\ updateState(worker[w].job, s)
    BY <1>11 DEF MarkDone, Retry
  <2>2. worker[w].pc \in {"succeeded", "erred"} /\ UNCHANGED <<dlq, unacked, enq>>
    BY <1>11 DEF MarkDone, Retry
  <2>3. worker'[w].pc = p /\ \A v \in Consumers : v # w => worker'[v] = worker[v]
    BY <2>1, GotoFacts
  <2>4. jobs'[worker[w].job].status = s /\ \A i \in Jobs : i # worker[w].job => jobs'[i] = jobs[i]
    BY <1>1, <2>1, <2>2, UpdateStateFacts
  <2> QED BY <1>3, <2>2, <2>3, <2>4
\* The retries are used up: the row fails and its message is about to be dead-lettered.
<1>12. ASSUME NEW w \in Consumers, GiveUp(w) PROVE Goal
  <2>1. /\ Goto(w, "deadLetter") /\ updateState(worker[w].job, "failed") /\ worker[w].pc = "erred"
        /\ UNCHANGED <<dlq, unacked, enq>>
    BY <1>12 DEF GiveUp
  <2>2. PICK i \in Jobs : i = worker[w].job /\ unacked[w] = i
    BY <1>1, <2>1
  <2>3. /\ worker'[w].pc = "deadLetter" /\ worker'[w].job = i
        /\ \A v \in Consumers : v # w => worker'[v] = worker[v]
    BY <2>1, <2>2, GotoFacts
  <2>4. jobs'[i].status = "failed" /\ \A j \in Jobs : j # i => jobs'[j] = jobs[j]
    BY <2>1, <2>2, UpdateStateFacts
  <2>5. \A e \in Enqueuers : Owning(e) => enq[e].job # i /\ enq[e].job \in Jobs
    BY <1>1, <2>2 DEF RowMatchesHolder, Unpublished
  <2>6. DeadLetterHolder'
    <3>1. ASSUME NEW v \in Consumers, worker'[v].pc = "deadLetter" PROVE jobs'[worker'[v].job].status = "failed"
      <4>1. CASE v = w
        BY <2>3, <2>4, <4>1
      <4>2. CASE v # w
        BY <1>1, <2>3, <2>4, <3>1, <4>2 DEF DeadLetterHolder
      <4> QED BY <4>1, <4>2
    <3>2. ASSUME NEW e \in Enqueuers, Owning(e)' PROVE jobs'[enq'[e].job].attempts = 0
      BY <2>1, <2>4, <2>5, <3>2 DEF DeadLetterHolder, Owning
    <3> QED BY <3>1, <3>2 DEF DeadLetterHolder
  <2>7. \A j \in dlq' : jobs'[j].status = "failed"
    BY <1>1, <2>1, <2>4 DEF DeadLetterMatchesFailed
  <2>8. ASSUME NEW j \in Jobs, jobs'[j].status = "failed", jobs'[j].attempts >= MaxRetries
        PROVE  j \in dlq' \/ \E v \in Consumers : unacked'[v] = j /\ worker'[v].pc = "deadLetter"
    <3>1. CASE j = i
      BY <2>1, <2>2, <2>3, <3>1
    <3>2. CASE j # i
      <4>1. j \in dlq \/ \E v \in Consumers : unacked[v] = j /\ worker[v].pc = "deadLetter"
        BY <2>4, <2>8, <3>2 DEF DeadLetterMatchesFailed
      <4> QED BY <2>1, <2>3, <4>1
    <3> QED BY <3>1, <3>2
  <2> QED BY <2>6, <2>7, <2>8 DEF DeadLetterMatchesFailed
<1>13. ASSUME NEW w \in Consumers, NackDeadLetter(w) PROVE Goal
  <2>1. PICK i \in Jobs : i = worker[w].job /\ unacked[w] = i /\ worker[w].pc = "deadLetter"
    BY <1>1, <1>13 DEF NackDeadLetter
  <2>2. dlq' = dlq \cup {i} /\ UNCHANGED <<jobs, enq>>
    BY <1>1, <1>13, <2>1 DEF NackDeadLetter, Unsettled
  <2>3. /\ worker'[w].pc = "idle"
        /\ \A v \in Consumers : v # w => worker'[v] = worker[v] /\ unacked'[v] = unacked[v]
    BY <1>13 DEF NackDeadLetter, Idle, TypeOK
  <2>4. jobs[i].status = "failed"
    BY <2>1 DEF DeadLetterHolder
  <2> QED BY <2>1, <2>2, <2>3, <2>4 DEF DeadLetterHolder, DeadLetterMatchesFailed, Owning
\* A consumer that does not dead-letter lets go of its message.
<1>14. ASSUME NEW w \in Consumers, worker[w].pc # "deadLetter", worker'[w].pc = "idle",
              \A v \in Consumers : v # w => worker'[v] = worker[v] /\ unacked'[v] = unacked[v],
              UNCHANGED <<jobs, dlq, enq>>
       PROVE  Goal
  <2>1. DeadLetterHolder'
    BY <1>14 DEF DeadLetterHolder, Owning
  <2>2. ASSUME NEW j \in Jobs, jobs'[j].status = "failed", jobs'[j].attempts >= MaxRetries
        PROVE  j \in dlq' \/ \E v \in Consumers : unacked'[v] = j /\ worker'[v].pc = "deadLetter"
    <3>1. j \in dlq \/ \E v \in Consumers : unacked[v] = j /\ worker[v].pc = "deadLetter"
      BY <1>14, <2>2 DEF DeadLetterMatchesFailed
    <3> QED BY <1>14, <3>1
  <2> QED BY <1>14, <2>1, <2>2 DEF DeadLetterMatchesFailed
<1>15. ASSUME NEW w \in Consumers, Ack(w) PROVE Goal
  <2>1. /\ worker'[w].pc = "idle" /\ worker[w].pc # "deadLetter"
        /\ \A v \in Consumers : v # w => worker'[v] = worker[v] /\ unacked'[v] = unacked[v]
    BY <1>15 DEF Ack, Idle, TypeOK
  <2>2. UNCHANGED <<jobs, dlq, enq>>
    BY <1>15 DEF Ack
  <2> QED BY <1>14, <2>1, <2>2
<1>16. ASSUME NEW w \in Consumers, RetryConflict(w) \/ NackRequeue(w) \/ StoreError(w) PROVE Goal
  <2>1. Release(w) /\ UNCHANGED <<jobs, dlq, enq>> /\ worker[w].pc # "deadLetter"
    BY <1>16 DEF RetryConflict, NackRequeue, StoreError
  <2> QED BY <1>14, <2>1, ReleaseFacts
<1>17. ASSUME NEW w \in Consumers, ChannelLoss(w) \/ WorkerCrash(w) \/ StoreReplyLost(w) PROVE Goal
  BY <1>17 DEF ChannelLoss, WorkerCrash, StoreReplyLost, Fault
<1>18. CASE UNCHANGED vars
  BY <1>2, <1>18 DEF vars, Owning
<1> QED
  BY <1>4, <1>5, <1>6, <1>7, <1>8, <1>9, <1>10, <1>11, <1>12, <1>13, <1>15, <1>16, <1>17, <1>18
  DEF Next, EnqueueStep, EnqueuerFault, ConsumerStep, ConsumerFault

\* The dead-letter queue holds failed jobs, and every job that used up its retries is there or
\* about to be: handleProcessingError writes the row and Nacks the message in two steps.
\* Publish errors, dying calls and store errors are allowed; a consumer that stops between the
\* two steps, a MarkFailed whose reply is lost (its message is delivered again and then
\* acknowledged), a lost channel and a lost confirmation are not.
THEOREM DeadLetterMatchesFailedCorrect ==
    ASSUME "channelLoss" \notin Faults, "lostConfirm" \notin Faults, "workerCrash" \notin Faults,
           "storeReplyLost" \notin Faults
    PROVE  Spec => []DeadLetterMatchesFailed
<1>1. Init => DeadLetterHolder /\ DeadLetterMatchesFailed
  BY MaxRetriesAssumption DEF Init, DeadLetterHolder, DeadLetterMatchesFailed, NoCall, Idle, Owning
<1>2. /\ TypeOK /\ Created /\ OneCopy /\ PublishedOnce /\ WorkerHoldsMessage /\ RowMatchesHolder
      /\ DeadLetterHolder /\ DeadLetterMatchesFailed /\ [Next]_vars
      => DeadLetterHolder' /\ DeadLetterMatchesFailed'
  BY DeadLetterStep
<1>3. Spec => [](WorkerHoldsMessage /\ RowMatchesHolder)
  BY WorkerHoldsMessageCorrect, RowMatchesHolderCorrect, PTL
<1> QED BY <1>1, <1>2, <1>3, TypeCorrect, CreatedCorrect, OneCopyCorrect, PTL DEF Spec

=============================================================================
