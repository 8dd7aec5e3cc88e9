------------------------------ MODULE JobQueue ------------------------------
(***************************************************************************)
(* The asynchronous job queue of the ingest and indexer services           *)
(* (backend/pkg/queue): RabbitMQJobQueue moves one message per job through *)
(* a durable queue with manual acknowledgements and a dead-letter queue,   *)
(* PostgresJobStore keeps the state of each job in async_job_models and    *)
(* deduplicates by a unique partial index over the active jobs.            *)
(*                                                                         *)
(* One queue is modelled: one job_type and resource_type, so the unique    *)
(* index is over the resource alone. A message is named by the job it      *)
(* carries, since a job is published at most once. Any ready message may   *)
(* be the next one delivered: after a requeue RabbitMQ promises no order.  *)
(***************************************************************************)
EXTENDS Integers, FiniteSets

CONSTANTS
    Jobs,         \* job ids that util.NewID can hand out, each used once
    Resources,    \* resource ids (books)
    Enqueuers,    \* concurrent calls of EnqueueWithPayload
    Consumers,    \* consumeLoop goroutines, of all replicas of the service
    NoJob,        \* no job
    NoResource,   \* the resource of a job that is not created yet
    MaxRetries,   \* RabbitMQQueueConfig.MaxRetries
    Faults,       \* the kinds of fault that happen
    MaxFaults     \* bound: how many faults happen in a behaviour

(***************************************************************************)
(* publishError : publish returns an error and the broker has no message   *)
(* lostConfirm  : publish returns an error, but the broker has the message *)
(*                (the 3s context ends before the confirmation arrives)    *)
(* enqueuerDies : the process, or the MarkFailed that reports a publish    *)
(*                error on the same, already expired, context, fails       *)
(* storeError   : a Postgres call of a consumer fails without effect       *)
(* storeReplyLost : a Postgres call of a consumer commits, but its context *)
(*                ends before the reply arrives, and it returns an error   *)
(* workerCrash  : the consumer's process stops (a crash or a shutdown)     *)
(* channelLoss  : the consumer's AMQP channel or connection closes while   *)
(*                its handler goroutine goes on                            *)
(***************************************************************************)
FaultKinds == {"publishError", "lostConfirm", "enqueuerDies",
               "storeError", "storeReplyLost", "workerCrash", "channelLoss"}

ASSUME MaxRetriesAssumption == MaxRetries \in Nat \ {0}
ASSUME FaultsAssumption == Faults \subseteq FaultKinds /\ MaxFaults \in Nat
ASSUME NoneAssumption == NoJob \notin Jobs /\ NoResource \notin Resources

VARIABLES
    jobs,     \* async_job_models: job id -> [res, status, attempts]
    ready,    \* messages in the work queue, not delivered
    dlq,      \* messages in the dead-letter queue
    enq,      \* program counter and locals of each EnqueueWithPayload call
    worker,   \* program counter and locals of each consumer goroutine
    unacked,  \* the message delivered and not acknowledged on its channel
    nfaults   \* faults so far

vars == <<jobs, ready, dlq, enq, worker, unacked, nfaults>>

Active == {"queued", "processing"}
Terminal == {"done", "failed"}
Statuses == Active \cup Terminal \cup {"absent"}

NoCall == [pc |-> "idle", res |-> NoResource, job |-> NoJob]
Idle == [pc |-> "idle", job |-> NoJob, attempts |-> 0]

Init ==
    /\ jobs = [j \in Jobs |-> [res |-> NoResource, status |-> "absent", attempts |-> 0]]
    /\ ready = {}
    /\ dlq = {}
    /\ enq = [e \in Enqueuers |-> NoCall]
    /\ worker = [w \in Consumers |-> Idle]
    /\ unacked = [w \in Consumers |-> NoJob]
    /\ nfaults = 0

ActiveJobs(r) == {j \in Jobs : jobs[j].res = r /\ jobs[j].status \in Active}

Fault(kind) ==
    /\ kind \in Faults
    /\ nfaults < MaxFaults
    /\ nfaults' = nfaults + 1

\* PostgresJobStore.updateState: an UPDATE by id, whatever the status was.
updateState(j, status) == jobs' = [jobs EXCEPT ![j].status = status]

-----------------------------------------------------------------------------
(* EnqueueWithPayload *)

\* CreateOrGetActiveJob's first SELECT finds an active job: it is the answer
\* of the call and nothing is published.
EnqueueFindsActive(e, r) ==
    /\ enq[e].pc = "idle"
    /\ ActiveJobs(r) # {}
    /\ UNCHANGED vars

\* The first SELECT finds none; the INSERT is a statement of its own.
EnqueueSelect(e, r) ==
    /\ enq[e].pc = "idle"
    /\ ActiveJobs(r) = {}
    /\ enq' = [enq EXCEPT ![e] = [pc |-> "insert", res |-> r, job |-> NoJob]]
    /\ UNCHANGED <<jobs, ready, dlq, worker, unacked, nfaults>>

\* Mutant: the table has no unique index.
InsertWithoutIndex(e) ==
    /\ enq[e].pc = "insert"
    /\ \E j \in Jobs :
        /\ jobs[j].status = "absent"
        /\ jobs' = [jobs EXCEPT ![j] = [res |-> enq[e].res, status |-> "queued", attempts |-> 0]]
        /\ enq' = [enq EXCEPT ![e] = [pc |-> "publish", res |-> enq[e].res, job |-> j]]
    /\ UNCHANGED <<ready, dlq, worker, unacked, nfaults>>

\* The INSERT succeeds under idx_async_jobs_active_resource.
EnqueueInsert(e) ==
    /\ enq[e].pc = "insert"
    /\ ActiveJobs(enq[e].res) = {}
    /\ \E j \in Jobs :
        /\ jobs[j].status = "absent"
        /\ jobs' = [jobs EXCEPT ![j] = [res |-> enq[e].res, status |-> "queued", attempts |-> 0]]
        /\ enq' = [enq EXCEPT ![e] = [pc |-> "publish", res |-> enq[e].res, job |-> j]]
    /\ UNCHANGED <<ready, dlq, worker, unacked, nfaults>>

\* Another call inserted first: the unique index refuses the row, and the
\* second SELECT answers with the job that won (or with the insert's error,
\* if that job has ended since). Nothing is published.
EnqueueConflict(e) ==
    /\ enq[e].pc = "insert"
    /\ ActiveJobs(enq[e].res) # {}
    /\ enq' = [enq EXCEPT ![e] = NoCall]
    /\ UNCHANGED <<jobs, ready, dlq, worker, unacked, nfaults>>

\* Mutant: a confirmed publish is taken for a failed one.
PublishThenMarkFailed(e) ==
    /\ enq[e].pc = "publish"
    /\ ready' = ready \cup {enq[e].job}
    /\ enq' = [enq EXCEPT ![e].pc = "markFailed"]
    /\ UNCHANGED <<jobs, dlq, worker, unacked, nfaults>>

\* publish puts the message in the queue and the confirmation arrives.
Publish(e) ==
    /\ enq[e].pc = "publish"
    /\ ready' = ready \cup {enq[e].job}
    /\ enq' = [enq EXCEPT ![e] = NoCall]
    /\ UNCHANGED <<jobs, dlq, worker, unacked, nfaults>>

PublishError(e) ==
    /\ enq[e].pc = "publish"
    /\ \/ Fault("publishError") /\ UNCHANGED ready
       \/ Fault("lostConfirm") /\ ready' = ready \cup {enq[e].job}
    /\ enq' = [enq EXCEPT ![e].pc = "markFailed"]
    /\ UNCHANGED <<jobs, dlq, worker, unacked>>

\* Mutant: a publish error is returned, but not written to the job.
PublishErrorNotRecorded(e) ==
    /\ enq[e].pc = "markFailed"
    /\ enq' = [enq EXCEPT ![e] = NoCall]
    /\ UNCHANGED <<jobs, ready, dlq, worker, unacked, nfaults>>

EnqueueMarkFailed(e) ==
    /\ enq[e].pc = "markFailed"
    /\ updateState(enq[e].job, "failed")
    /\ enq' = [enq EXCEPT ![e] = NoCall]
    /\ UNCHANGED <<ready, dlq, worker, unacked, nfaults>>

EnqueuerDies(e) ==
    /\ enq[e].pc # "idle"
    /\ Fault("enqueuerDies")
    /\ enq' = [enq EXCEPT ![e] = NoCall]
    /\ UNCHANGED <<jobs, ready, dlq, worker, unacked>>

-----------------------------------------------------------------------------
(* consumeDeliveries and handleDelivery; the channel has prefetch 1 *)

\* The message an Ack or Nack of w settles: none once its channel has closed,
\* when an Ack or a Nack fails without effect.
Unsettled(w) == {unacked[w]} \ {NoJob}

\* The broker makes the message of a Nack(requeue), and of a channel that
\* closes, ready again.
Requeue(w) ==
    /\ ready' = ready \cup Unsettled(w)
    /\ unacked' = [unacked EXCEPT ![w] = NoJob]

\* handleDelivery requeues the message and returns.
Release(w) ==
    /\ Requeue(w)
    /\ worker' = [worker EXCEPT ![w] = Idle]

Goto(w, pc) == worker' = [worker EXCEPT ![w].pc = pc]

Deliver(w) ==
    /\ worker[w].pc = "idle"
    /\ \E j \in ready :
        /\ ready' = ready \ {j}
        /\ unacked' = [unacked EXCEPT ![w] = j]
        /\ worker' = [worker EXCEPT ![w] = [pc |-> "delivered", job |-> j, attempts |-> 0]]
    /\ UNCHANGED <<jobs, dlq, enq, nfaults>>

\* Mutant: the handler is given the attempts from before the increment.
ProcessingWithOldAttempts(w) ==
    /\ worker[w].pc = "delivered"
    /\ LET j == worker[w].job
       IN  IF jobs[j].status \in Terminal
           THEN /\ Goto(w, "ack")
                /\ UNCHANGED jobs
           ELSE /\ jobs' = [jobs EXCEPT ![j] =
                                [res |-> jobs[j].res, status |-> "processing", attempts |-> jobs[j].attempts + 1]]
                /\ worker' = [worker EXCEPT ![w] =
                                [pc |-> "handling", job |-> j, attempts |-> jobs[j].attempts]]
    /\ UNCHANGED <<ready, dlq, enq, unacked, nfaults>>

\* MarkProcessing: one transaction that locks the row.
MarkProcessing(w) ==
    /\ worker[w].pc = "delivered"
    /\ LET j == worker[w].job
       IN  IF jobs[j].status \in Terminal
           THEN /\ Goto(w, "ack")
                /\ UNCHANGED jobs
           ELSE /\ jobs' = [jobs EXCEPT ![j] =
                                [res |-> jobs[j].res, status |-> "processing", attempts |-> jobs[j].attempts + 1]]
                /\ worker' = [worker EXCEPT ![w] =
                                [pc |-> "handling", job |-> j, attempts |-> jobs[j].attempts + 1]]
    /\ UNCHANGED <<ready, dlq, enq, unacked, nfaults>>

\* The service's handler (ingest's or indexer's process) returns.
HandlerReturns(w) ==
    /\ worker[w].pc = "handling"
    /\ \E result \in {"succeeded", "erred"} :
        Goto(w, result)
    /\ UNCHANGED <<jobs, ready, dlq, enq, unacked, nfaults>>

MarkDone(w) ==
    /\ worker[w].pc = "succeeded"
    /\ updateState(worker[w].job, "done")
    /\ Goto(w, "ack")
    /\ UNCHANGED <<ready, dlq, enq, unacked, nfaults>>

\* Mutant: a job that used up its retries is acknowledged.
GiveUpThenAck(w) ==
    /\ worker[w].pc = "erred"
    /\ worker[w].attempts >= MaxRetries
    /\ updateState(worker[w].job, "failed")
    /\ Goto(w, "ack")
    /\ UNCHANGED <<ready, dlq, enq, unacked, nfaults>>

\* handleProcessingError gives up: MarkFailed, then Nack without requeue.
GiveUp(w) ==
    /\ worker[w].pc = "erred"
    /\ worker[w].attempts >= MaxRetries
    /\ updateState(worker[w].job, "failed")
    /\ Goto(w, "deadLetter")
    /\ UNCHANGED <<ready, dlq, enq, unacked, nfaults>>

\* Mutant: a job to be retried is acknowledged.
RetryThenAck(w) ==
    /\ worker[w].pc = "erred"
    /\ worker[w].attempts < MaxRetries
    /\ LET j == worker[w].job
       IN  /\ ActiveJobs(jobs[j].res) \subseteq {j}
           /\ updateState(j, "queued")
    /\ Goto(w, "ack")
    /\ UNCHANGED <<ready, dlq, enq, unacked, nfaults>>

\* handleProcessingError retries: MarkQueued, then the retry delay.
Retry(w) ==
    /\ worker[w].pc = "erred"
    /\ worker[w].attempts < MaxRetries
    /\ LET j == worker[w].job
       IN  /\ ActiveJobs(jobs[j].res) \subseteq {j}
           /\ updateState(j, "queued")
    /\ Goto(w, "retryWait")
    /\ UNCHANGED <<ready, dlq, enq, unacked, nfaults>>

\* The unique index refuses to make a terminal job active again next to a
\* newer active one; MarkQueued's error requeues the message.
RetryConflict(w) ==
    /\ worker[w].pc = "erred"
    /\ worker[w].attempts < MaxRetries
    /\ ~ ActiveJobs(jobs[worker[w].job].res) \subseteq {worker[w].job}
    /\ Release(w)
    /\ UNCHANGED <<jobs, dlq, enq, nfaults>>

\* The retry delay is over: Nack(requeue).
NackRequeue(w) ==
    /\ worker[w].pc = "retryWait"
    /\ Release(w)
    /\ UNCHANGED <<jobs, dlq, enq, nfaults>>

\* Mutant: the message is copied to the dead-letter queue, whatever has become
\* of the delivery.
CopyToDeadLetter(w) ==
    /\ worker[w].pc = "deadLetter"
    /\ dlq' = dlq \cup {worker[w].job}
    /\ unacked' = [unacked EXCEPT ![w] = NoJob]
    /\ worker' = [worker EXCEPT ![w] = Idle]
    /\ UNCHANGED <<jobs, ready, enq, nfaults>>

NackDeadLetter(w) ==
    /\ worker[w].pc = "deadLetter"
    /\ dlq' = dlq \cup Unsettled(w)
    /\ unacked' = [unacked EXCEPT ![w] = NoJob]
    /\ worker' = [worker EXCEPT ![w] = Idle]
    /\ UNCHANGED <<jobs, ready, enq, nfaults>>

Ack(w) ==
    /\ worker[w].pc = "ack"
    /\ unacked' = [unacked EXCEPT ![w] = NoJob]
    /\ worker' = [worker EXCEPT ![w] = Idle]
    /\ UNCHANGED <<jobs, ready, dlq, enq, nfaults>>

\* A store call fails: MarkProcessing, MarkDone, MarkFailed or MarkQueued; the
\* message is requeued.
StoreError(w) ==
    /\ worker[w].pc \in {"delivered", "succeeded", "erred"}
    /\ Fault("storeError")
    /\ Release(w)
    /\ UNCHANGED <<jobs, dlq, enq>>

\* What a store call of the consumer writes.
StoreCommits(w) ==
    LET j == worker[w].job
    IN  \/ /\ worker[w].pc = "delivered"
           /\ jobs[j].status \notin Terminal
           /\ jobs' = [jobs EXCEPT ![j] =
                            [res |-> jobs[j].res, status |-> "processing", attempts |-> jobs[j].attempts + 1]]
        \/ worker[w].pc = "succeeded" /\ updateState(j, "done")
        \/ /\ worker[w].pc = "erred"
           /\ \/ worker[w].attempts >= MaxRetries /\ updateState(j, "failed")
              \/ /\ worker[w].attempts < MaxRetries
                 /\ ActiveJobs(jobs[j].res) \subseteq {j}
                 /\ updateState(j, "queued")

\* The call has its effect, and the message is requeued as after an error.
StoreReplyLost(w) ==
    /\ StoreCommits(w)
    /\ Fault("storeReplyLost")
    /\ Release(w)
    /\ UNCHANGED <<dlq, enq>>

\* The process stops at any point, also in the select over ctx.Done() during
\* the retry delay: the channel closes with the message unacknowledged.
WorkerCrash(w) ==
    /\ worker[w].pc # "idle"
    /\ Fault("workerCrash")
    /\ Release(w)
    /\ UNCHANGED <<jobs, dlq, enq>>

\* The broker requeues the message of a closed channel while the goroutine
\* still works on it; the goroutine reconnects once handleDelivery returns.
ChannelLoss(w) ==
    /\ unacked[w] # NoJob
    /\ Fault("channelLoss")
    /\ Requeue(w)
    /\ UNCHANGED <<jobs, dlq, enq, worker>>

-----------------------------------------------------------------------------
EnqueueStep(e) ==
    \/ EnqueueInsert(e) \/ EnqueueConflict(e)
    \/ Publish(e) \/ EnqueueMarkFailed(e)

ConsumerStep(w) ==
    \/ Deliver(w) \/ MarkProcessing(w) \/ HandlerReturns(w)
    \/ MarkDone(w) \/ GiveUp(w) \/ Retry(w) \/ RetryConflict(w)
    \/ NackRequeue(w) \/ NackDeadLetter(w) \/ Ack(w)

EnqueuerFault(e) == PublishError(e) \/ EnqueuerDies(e)
ConsumerFault(w) == StoreError(w) \/ StoreReplyLost(w) \/ WorkerCrash(w) \/ ChannelLoss(w)

Next ==
    \/ \E e \in Enqueuers, r \in Resources : EnqueueFindsActive(e, r) \/ EnqueueSelect(e, r)
    \/ \E e \in Enqueuers : EnqueueStep(e) \/ EnqueuerFault(e)
    \/ \E w \in Consumers : ConsumerStep(w) \/ ConsumerFault(w)

Spec == Init /\ [][Next]_vars

\* A call that has begun goes on, and so does each consumer goroutine: none of
\* them waits for another. Calls need not begin and faults need not happen.
Fairness ==
    /\ \A e \in Enqueuers : WF_vars(EnqueueStep(e))
    /\ \A w \in Consumers : WF_vars(ConsumerStep(w))

FairSpec == Spec /\ Fairness

-----------------------------------------------------------------------------
(* Properties *)

EnqPcs == {"idle", "insert", "publish", "markFailed"}
WorkerPcs == {"idle", "delivered", "handling", "succeeded", "erred",
              "retryWait", "deadLetter", "ack"}

\* Every variable has the shape the code gives it, and whoever works on a job
\* has one.
TypeOK ==
    /\ jobs \in [Jobs -> [res : Resources \cup {NoResource}, status : Statuses, attempts : Nat]]
    /\ ready \subseteq Jobs
    /\ dlq \subseteq Jobs
    /\ enq \in [Enqueuers -> [pc : EnqPcs, res : Resources \cup {NoResource},
                              job : Jobs \cup {NoJob}]]
    /\ worker \in [Consumers -> [pc : WorkerPcs, job : Jobs \cup {NoJob}, attempts : Nat]]
    /\ unacked \in [Consumers -> Jobs \cup {NoJob}]
    /\ nfaults \in 0..MaxFaults
    /\ \A e \in Enqueuers : enq[e].pc \in {"publish", "markFailed"} => enq[e].job \in Jobs
    /\ \A w \in Consumers : worker[w].pc # "idle" => worker[w].job \in Jobs

\* A resource has at most one active job, whatever the interleaving of
\* concurrent EnqueueWithPayload calls, retries of MarkQueued and redelivered
\* messages: CreateOrGetActiveJob looks before it inserts, and the look is
\* stale by then.
OneActiveJob ==
    \A i, j \in Jobs :
        /\ jobs[i].status \in Active
        /\ jobs[j].status \in Active
        /\ jobs[i].res = jobs[j].res
        => i = j

\* A message is in one place: ready, dead-lettered, or unacknowledged at one
\* channel. Crashes and Nacks of handleDelivery neither copy nor fork it.
OneCopy ==
    \A j \in Jobs :
        /\ j \in ready => j \notin dlq
        /\ \A w \in Consumers : unacked[w] = j =>
            /\ j \notin ready \cup dlq
            /\ \A v \in Consumers : unacked[v] = j => v = w

\* Every job that the broker, a consumer or a call refers to has its row, and a
\* call that has not published its job yet is the only one to know it. This is
\* what makes OneActiveJob and OneCopy inductive.
Owning(e) == enq[e].pc \in {"publish", "markFailed"}

Created ==
    /\ \A j \in ready \cup dlq : jobs[j].status # "absent"
    /\ \A w \in Consumers : unacked[w] # NoJob => jobs[unacked[w]].status # "absent"
    /\ \A w \in Consumers : worker[w].pc # "idle" => jobs[worker[w].job].status # "absent"
    /\ \A e \in Enqueuers : Owning(e) => jobs[enq[e].job].status # "absent"

Unpublished(e) ==
    /\ enq[e].job \notin ready \cup dlq
    /\ \A w \in Consumers : unacked[w] # enq[e].job

PublishedOnce ==
    /\ \A e \in Enqueuers : enq[e].pc = "publish" => Unpublished(e)
    /\ \A e, f \in Enqueuers : Owning(e) /\ Owning(f) /\ enq[e].job = enq[f].job => e = f

\* Without channel losses a consumer holds the message of the job it works on.
WorkerHoldsMessage ==
    \A w \in Consumers : unacked[w] = IF worker[w].pc = "idle" THEN NoJob ELSE worker[w].job

\* Without channel losses and lost confirmations, a job that a handler has in
\* hand is processing, and one that a call has in hand is queued and unpublished.
RowMatchesHolder ==
    /\ \A w \in Consumers : worker[w].pc \in {"handling", "succeeded", "erred"} =>
            jobs[worker[w].job].status = "processing"
    /\ \A e \in Enqueuers : Owning(e) => Unpublished(e) /\ jobs[enq[e].job].status = "queued"

\* Without channel losses a message is dropped only for a job that has ended.
DroppedWhenEnded ==
    \A w \in Consumers : worker[w].pc \in {"ack", "deadLetter"} =>
        jobs[worker[w].job].status \in Terminal

\* A handler runs at most MaxRetries times for a job and once more for each
\* fault: MarkProcessing counts attempts in the row, so requeues, crashes and
\* redeliveries to other consumers cannot reset the count.
AttemptsBounded == \A j \in Jobs : jobs[j].attempts <= MaxRetries + nfaults

\* Two handlers never work on the same resource at the same time (ingest's
\* process would replace chunks under indexer's feet). handleDelivery takes no
\* lock: this rests on the unique index and on RabbitMQ handing out the one
\* message of a job once. It needs that no channel closes under a running
\* handler and no confirmation is lost. It is the part of RunsExclusively, below,
\* that Pipeline relies on most.
ExclusiveHandler ==
    \A v, w \in Consumers :
        /\ worker[v].pc = "handling"
        /\ worker[w].pc = "handling"
        /\ jobs[worker[v].job].res = jobs[worker[w].job].res
        => v = w

\* Only failed jobs are in the dead-letter queue, and a failed job that used
\* up its retries is there, or its message still is with a consumer that
\* will Nack it.
DeadLetterMatchesFailed ==
    /\ \A j \in dlq : jobs[j].status = "failed"
    /\ \A j \in Jobs :
        jobs[j].status = "failed" /\ jobs[j].attempts >= MaxRetries =>
            \/ j \in dlq
            \/ \E w \in Consumers : unacked[w] = j /\ worker[w].pc = "deadLetter"

\* An active job has a message in the broker, or the call that created it has
\* still to publish it. A job without one would never run and, through the
\* unique index, would swallow every later Enqueue of its resource.
NoStrandedJob ==
    \A j \in Jobs : jobs[j].status \in Active =>
        \/ j \in ready
        \/ \E w \in Consumers : unacked[w] = j
        \/ \E e \in Enqueuers : Owning(e) /\ enq[e].job = j

\* done and failed are final, as ErrJobTerminal assumes: no late MarkQueued,
\* MarkDone or MarkFailed of updateState, which has no condition on the
\* status, hits a job that has ended.
TerminalIsFinal ==
    [][\A j \in Jobs : jobs[j].status \in Terminal => jobs'[j].status = jobs[j].status]_vars

\* The consumers whose handler works on a job of the resource.
Handlers(r) == {w \in Consumers : worker[w].pc = "handling" /\ jobs[worker[w].job].res = r}

Exclusive == INSTANCE ExclusiveJobs WITH
    active <- [r \in Resources |-> ActiveJobs(r) # {}],
    handlers <- [r \in Resources |-> Handlers(r)]

\* The queue is what Pipeline takes it for: a resource's job is accepted when none is
\* active, runs on one consumer at a time, stays active while it does, and ends while no
\* handler works on it, however EnqueueWithPayload and handleDelivery spread this over the
\* table, the broker and the consumers. It needs what ExclusiveHandler needs.
RunsExclusively == Exclusive!Spec

\* Every job that is accepted ends, done or failed, once faults stop.
JobsSettle ==
    \A j \in Jobs : (jobs[j].status = "queued") ~> (jobs[j].status \in Terminal)
=============================================================================
