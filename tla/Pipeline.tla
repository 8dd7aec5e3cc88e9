------------------------------ MODULE Pipeline ------------------------------
(***************************************************************************)
(* The life of one book between the services: the book service keeps its   *)
(* row and an outbox of ingest requests, the ingest service parses the     *)
(* file and replaces the chunks in Postgres, the indexer service puts the  *)
(* chunks in Qdrant and OpenSearch, and both report the status back with   *)
(* the processing generation their job carries.                            *)
(*                                                                         *)
(* Each service has a job queue. JobQueue models it in full; here it is    *)
(* what that module shows of it: a book has one active job per queue, with *)
(* the payload it was created with, and one handler runs it at a time      *)
(* (OneActiveJob, ExclusiveHandler). The second is a condition of use: it  *)
(* holds while no consumer loses its channel and no publisher confirmation *)
(* is lost. Under those two faults the broker gives a job to a second      *)
(* handler while the first one works, and nothing here is said of that.    *)
(***************************************************************************)
EXTENDS Integers, FiniteSets

CONSTANTS
    Msgs,         \* outbox message ids, each used once
    Dispatchers,  \* concurrent calls of dispatchPendingIngestOutbox
    Requests,     \* concurrent requests that read the book and save it
    Environments, \* what users ask for, the kinds of fault, the outbox messages, and the
                  \* retries (RabbitMQQueueConfig.MaxRetries of both services)
    MaxFaults     \* bound: how many faults happen in a behaviour

(***************************************************************************)
(* enqueueError   : a call of Enqueue fails and leaves no active job       *)
(* lostReply      : a call has its effect, but the caller sees an error    *)
(* statusError    : the UpdateStatus that reports a failure fails          *)
(* outboxError    : MarkOutboxDispatched or ReleaseOutboxMessage fails     *)
(* slowDispatch   : a dispatcher holds a message longer than its lease     *)
(* dispatcherDies : the book service stops while it dispatches             *)
(* workerCrash    : the ingest or the indexer service stops in its         *)
(*                  handler, or the store call that records its end fails  *)
(* JobQueue's channelLoss and lostConfirm, which end its ExclusiveHandler,  *)
(* are not among them, nor is its enqueuerDies, which loses a message.      *)
(***************************************************************************)
FaultKinds == {"enqueueError", "lostReply", "statusError", "outboxError",
               "slowDispatch", "dispatcherDies", "workerCrash"}

ASSUME PipelineAssumption ==
    /\ MaxFaults \in Nat
    /\ Environments \subseteq [operations : SUBSET {"update", "reprocess", "delete"},
                               faults : SUBSET FaultKinds,
                               msgs : SUBSET Msgs,
                               retries : Nat \ {0}]

VARIABLES
    book,      \* the book's row: [status, gen, deleted]
    outbox,    \* outbox_message_models: [gen, state, lock]
    disp,      \* program counter and locals of each dispatcher
    req,       \* the row that each UpdateBook or ReprocessBook has read
    job,       \* the active job of each queue: [active, gen, attempts]
    hand,      \* program counter and chunks of each queue's handler
    chunks,    \* the run of ingest whose chunks are in Postgres, 0 if none
    sync,      \* chunk_index_status of those chunks, per tier and search engine
    vectors,   \* Qdrant's points of the book
    lexical,   \* OpenSearch's documents of the book
    nfaults,   \* faults so far
    env        \* the environment of this behaviour, which never changes

bookVars == <<book, req>>
outboxVars == <<outbox, disp>>
queueVars == <<job, hand>>
indexVars == <<chunks, sync, vectors, lexical>>
vars == <<bookVars, outboxVars, queueVars, indexVars, nfaults, env>>

Queues == {"ingest", "index"}
Working == {"queued", "processing"}
Settled == {"ready", "failed"}

NoBook == [status |-> "absent", gen |-> 0, deleted |-> FALSE]
NoRequest == [op |-> "none", row |-> NoBook]
NoBatch == [pc |-> "idle", batch |-> {}, msg |-> {}]
NoActiveJob == [active |-> FALSE, gen |-> 0, attempts |-> 0]
NoHandler == [pc |-> "idle", run |-> 0]

\* A chunk is of one tier, and a tier has one engine of the two its
\* chunk_index_status row has a column for.
Tiers == {"semantic", "lexical"}
Engines == {"qdrant", "opensearch"}
Pending == [place \in Tiers \X Engines |-> "pending"]
Synced == [Pending EXCEPT ![<<"semantic", "qdrant">>] = "synced", ![<<"lexical", "opensearch">>] = "synced"]

Init ==
    /\ book = NoBook
    /\ outbox = [m \in Msgs |-> [gen |-> 0, state |-> "absent", lock |-> "free"]]
    /\ disp = [d \in Dispatchers |-> NoBatch]
    /\ req = [r \in Requests |-> NoRequest]
    /\ job = [q \in Queues |-> NoActiveJob]
    /\ hand = [q \in Queues |-> NoHandler]
    /\ chunks = 0
    /\ sync = Pending
    /\ vectors = {}
    /\ lexical = {}
    /\ nfaults = 0
    /\ env \in Environments

Fault(kind) ==
    /\ kind \in env.faults
    /\ nfaults < MaxFaults
    /\ nfaults' = nfaults + 1

\* What a run of ingest writes: buildRetrievalChunks cuts every block twice, into
\* chunks of each tier. A tier has two batches, so that a bulk write can stop half-way.
Batches(tier, run) == {run} \X {tier} \X {1, 2}

\* Chunk ids are fresh in every run. A run nothing refers to any more may give
\* its number to a new one.
NewRun ==
    LET used == {chunks, hand["index"].run} \cup {b[1] : b \in vectors \cup lexical}
    IN  CHOOSE n \in 1..5 : n \notin used /\ \A k \in 1..(n - 1) : k \in used

-----------------------------------------------------------------------------
(* The book service: requests *)

\* SaveBookAndOutbox: the row and a message with its generation, in one
\* transaction.
SaveBookAndOutbox(row) ==
    /\ book' = row
    /\ \E m \in env.msgs :
        /\ outbox[m].state = "absent"
        /\ \A n \in Msgs : n < m => outbox[n].state # "absent"
        /\ outbox' = [outbox EXCEPT ![m] =
                        [gen |-> row.gen, state |-> "unsent", lock |-> "free"]]

UploadBook ==
    /\ book.status = "absent"
    /\ SaveBookAndOutbox([status |-> "queued", gen |-> 1, deleted |-> FALSE])
    /\ UNCHANGED <<req, disp, queueVars, indexVars, nfaults>>

GetBook(r, op) ==
    /\ req[r].op = "none"
    /\ op \in env.operations
    /\ book.status # "absent"
    /\ ~ book.deleted
    /\ req' = [req EXCEPT ![r] = [op |-> op, row |-> book]]
    /\ UNCHANGED <<book, outboxVars, queueVars, indexVars, nfaults>>

UpdateBookRead(r) == GetBook(r, "update")

\* SaveBook writes every column, the status, the generation and deleted_at as
\* they were read included.
UpdateBookSave(r) ==
    /\ req[r].op = "update"
    /\ book' = req[r].row
    /\ req' = [req EXCEPT ![r] = NoRequest]
    /\ UNCHANGED <<outboxVars, queueVars, indexVars, nfaults>>

\* A book that is queued or processing is returned as it is.
ReprocessBookRead(r) ==
    /\ book.status \notin Working
    /\ GetBook(r, "reprocess")

ReprocessBookSave(r) ==
    /\ req[r].op = "reprocess"
    /\ SaveBookAndOutbox([req[r].row EXCEPT !.status = "queued", !.gen = @ + 1])
    /\ req' = [req EXCEPT ![r] = NoRequest]
    /\ UNCHANGED <<disp, queueVars, indexVars, nfaults>>

\* DeleteBook: MarkBookDeleted's UPDATE.
DeleteBook ==
    /\ "delete" \in env.operations
    /\ book.status # "absent"
    /\ ~ book.deleted
    /\ book' = [book EXCEPT !.deleted = TRUE]
    /\ UNCHANGED <<req, outboxVars, queueVars, indexVars, nfaults>>

-----------------------------------------------------------------------------
(* The queues *)

\* CreateOrGetActiveJob: while a job of the book is active it is the answer,
\* whatever generation its payload has.
Accept(q, gen) ==
    IF job[q].active
    THEN job
    ELSE [job EXCEPT ![q] = [active |-> TRUE, gen |-> gen, attempts |-> 0]]

Enqueue(q, gen) == job' = Accept(q, gen)

Goto(q, pc) == hand' = [hand EXCEPT ![q].pc = pc]

\* handleDelivery up to the handler; a retried or redelivered job comes here
\* again. That no other handler has the job is JobQueue's ExclusiveHandler.
Deliver(q) ==
    /\ job[q].active
    /\ hand[q].pc = "idle"
    /\ job' = [job EXCEPT ![q].attempts = @ + 1]
    /\ Goto(q, "begin")
    /\ UNCHANGED <<bookVars, outboxVars, indexVars, nfaults>>

\* The handler returned nil: MarkDone and Ack.
Finish(q) ==
    /\ hand[q].pc = "done"
    /\ job' = [job EXCEPT ![q] = NoActiveJob]
    /\ hand' = [hand EXCEPT ![q] = NoHandler]
    /\ UNCHANGED <<bookVars, outboxVars, indexVars, nfaults>>

\* handleProcessingError: the job waits for its next attempt, or ends failed.
ReturnError(q) ==
    /\ hand[q].pc = "erred"
    /\ job' = IF job[q].attempts >= env.retries
              THEN [job EXCEPT ![q] = NoActiveJob]
              ELSE job
    /\ hand' = [hand EXCEPT ![q] = NoHandler]
    /\ UNCHANGED <<bookVars, outboxVars, indexVars, nfaults>>

WorkerCrash(q) ==
    /\ hand[q].pc # "idle"
    /\ Fault("workerCrash")
    /\ hand' = [hand EXCEPT ![q] = NoHandler]
    /\ UNCHANGED <<job, bookVars, outboxVars, indexVars>>

-----------------------------------------------------------------------------
(* The book service: outbox *)

\* Mutant: a message that was claimed once is not claimed again.
ClaimableWhenFree(m) == outbox[m].state = "unsent" /\ outbox[m].lock = "free"

\* ClaimOutboxMessages: not dispatched, and never locked or locked longer ago
\* than the lease. Backoffs only delay: any such message may be due.
Claimable(m) == outbox[m].state = "unsent" /\ outbox[m].lock # "held"

ClaimOutboxMessages(d) ==
    /\ disp[d].pc = "idle"
    /\ \E batch \in SUBSET {m \in Msgs : Claimable(m)} :
        /\ batch # {}
        /\ outbox' = [m \in Msgs |-> IF m \in batch
                                     THEN [outbox[m] EXCEPT !.lock = "held"]
                                     ELSE outbox[m]]
        /\ disp' = [disp EXCEPT ![d] = [pc |-> "enqueue", batch |-> batch, msg |-> {}]]
    /\ UNCHANGED <<bookVars, queueVars, indexVars, nfaults>>

\* 30 seconds pass since the claim. A dispatcher is done with its message by
\* then, unless it is slow (ten calls of up to ten seconds each).
LeaseExpires(m) ==
    /\ outbox[m].lock = "held"
    /\ IF \E d \in Dispatchers : m \in disp[d].batch
       THEN Fault("slowDispatch")
       ELSE UNCHANGED nfaults
    /\ outbox' = [outbox EXCEPT ![m].lock = "expired"]
    /\ UNCHANGED <<disp, bookVars, queueVars, indexVars>>

\* The loop takes the next message of the batch and calls ingest.
DispatchTo(d, m, pc) ==
    /\ disp[d].pc = "enqueue"
    /\ m \in disp[d].batch
    /\ disp' = [disp EXCEPT ![d].pc = pc, ![d].msg = {m}]
    /\ UNCHANGED <<outbox, bookVars, hand, indexVars>>

DispatchEnqueue(d, m) ==
    /\ DispatchTo(d, m, "mark")
    /\ Enqueue("ingest", outbox[m].gen)
    /\ UNCHANGED nfaults

DispatchEnqueueFails(d, m) ==
    /\ DispatchTo(d, m, "release")
    /\ \/ Fault("enqueueError") /\ UNCHANGED job
       \/ Fault("lostReply") /\ Enqueue("ingest", outbox[m].gen)

\* The loop goes on to the next message of the batch, or returns.
Advance(d) ==
    LET rest == disp[d].batch \ disp[d].msg
    IN  disp' = [disp EXCEPT ![d] =
            IF rest = {} THEN NoBatch ELSE [pc |-> "enqueue", batch |-> rest, msg |-> {}]]

MarkOutboxDispatched(d) ==
    /\ disp[d].pc = "mark"
    /\ Advance(d)
    /\ \/ /\ outbox' = [m \in Msgs |-> IF m \in disp[d].msg
                                      THEN [outbox[m] EXCEPT !.state = "sent", !.lock = "free"]
                                      ELSE outbox[m]]
          /\ UNCHANGED nfaults
       \/ Fault("outboxError") /\ UNCHANGED outbox
    /\ UNCHANGED <<bookVars, queueVars, indexVars>>

\* Mutant: a message whose call failed counts as dispatched.
ReleaseAsSent(d) ==
    /\ disp[d].pc = "release"
    /\ Advance(d)
    /\ outbox' = [m \in Msgs |-> IF m \in disp[d].msg
                                 THEN [outbox[m] EXCEPT !.state = "sent", !.lock = "free"]
                                 ELSE outbox[m]]
    /\ UNCHANGED <<bookVars, queueVars, indexVars, nfaults>>

ReleaseOutboxMessage(d) ==
    /\ disp[d].pc = "release"
    /\ Advance(d)
    /\ \/ /\ outbox' = [m \in Msgs |-> IF m \in disp[d].msg
                                      THEN [outbox[m] EXCEPT !.lock = "free"]
                                      ELSE outbox[m]]
          /\ UNCHANGED nfaults
       \/ Fault("outboxError") /\ UNCHANGED outbox
    /\ UNCHANGED <<bookVars, queueVars, indexVars>>

DispatcherDies(d) ==
    /\ disp[d].pc # "idle"
    /\ Fault("dispatcherDies")
    /\ disp' = [disp EXCEPT ![d] = NoBatch]
    /\ UNCHANGED <<outbox, bookVars, queueVars, indexVars>>

-----------------------------------------------------------------------------
(* What the handlers of both queues do: ingest's and indexer's process *)

\* Mutant: the UPDATE has no condition on the generation.
AnyGeneration(q) == ~ book.deleted

\* SetStatusIfGeneration finds the row: its job is not stale.
Current(q) == ~ book.deleted /\ book.gen = job[q].gen

SetStatus(status) == book' = [book EXCEPT !.status = status]

\* The first call: the book is processing, or the job is stale and the handler
\* returns nil. If the reply is lost the handler fails.
Begin(q, next) ==
    /\ hand[q].pc = "begin"
    /\ IF Current(q)
       THEN /\ SetStatus("processing")
            /\ \/ Goto(q, next) /\ UNCHANGED nfaults
               \/ Goto(q, "fail") /\ Fault("lostReply")
       ELSE /\ Goto(q, "done")
            /\ UNCHANGED <<book, nfaults>>
    /\ UNCHANGED <<req, outboxVars, job, indexVars>>

\* A call of the handler fails before it has an effect. One that fails after
\* its effect is the call followed by this step.
CallPcs == {"begin", "parse", "replace", "list", "deleteVectors", "deleteLexical",
            "embed", "vectorsSynced", "indexLexical", "lexicalSynced", "ready"}

HandlerError(q) ==
    /\ hand[q].pc \in CallPcs
    /\ Goto(q, "fail")
    /\ UNCHANGED <<job, bookVars, outboxVars, indexVars, nfaults>>

\* The handler reports the failure, best effort, and returns the error.
ReportFailure(q) ==
    /\ hand[q].pc = "fail"
    /\ \/ /\ IF Current(q) THEN SetStatus("failed") ELSE UNCHANGED book
          /\ UNCHANGED nfaults
       \/ Fault("statusError") /\ UNCHANGED book
    /\ Goto(q, "erred")
    /\ UNCHANGED <<req, outboxVars, job, indexVars>>

-----------------------------------------------------------------------------
(* Ingest's process *)

IngestBegin == Begin("ingest", "parse")

\* FetchFile refuses a deleted book; then download, parseAndChunk,
\* buildRetrievalChunks and UpdateBookDocumentProfile.
IngestParse ==
    /\ hand["ingest"].pc = "parse"
    /\ Goto("ingest", IF book.deleted THEN "fail" ELSE "replace")
    /\ UNCHANGED <<job, bookVars, outboxVars, indexVars, nfaults>>

\* ReplaceChunks: new chunks with new ids, all pending, in one transaction.
IngestReplaceChunks ==
    /\ hand["ingest"].pc = "replace"
    /\ chunks' = NewRun
    /\ sync' = Pending
    /\ Goto("ingest", "enqueue")
    /\ UNCHANGED <<job, bookVars, outboxVars, vectors, lexical, nfaults>>

IngestEnqueueIndex ==
    /\ hand["ingest"].pc = "enqueue"
    /\ Enqueue("index", job["ingest"].gen)
    /\ Goto("ingest", "done")
    /\ UNCHANGED <<bookVars, outboxVars, indexVars, nfaults>>

IngestEnqueueFails ==
    /\ hand["ingest"].pc = "enqueue"
    /\ \/ Fault("enqueueError") /\ UNCHANGED job
       \/ Fault("lostReply") /\ Enqueue("index", job["ingest"].gen)
    /\ Goto("ingest", "fail")
    /\ UNCHANGED <<bookVars, outboxVars, indexVars>>

-----------------------------------------------------------------------------
(* Indexer's process *)

run == hand["index"].run

\* UpdateChunkIndexStatus: by the ids of the chunks of one tier, for one engine; a
\* no-op once the chunks are replaced.
UpdateChunkIndexStatus(tier, engine, status) ==
    sync' = IF run = chunks THEN [sync EXCEPT ![<<tier, engine>>] = status] ELSE sync

IndexStep(from, to) ==
    /\ hand["index"].pc = from
    /\ Goto("index", to)
    /\ UNCHANGED <<job, bookVars, outboxVars, chunks, nfaults>>

IndexBegin == Begin("index", "list")

\* ListChunksByBook, splitChunksByTier, EnsureCollection and EnsureIndex. A run has
\* chunks of both tiers or none: "no semantic chunks to index" comes with no chunks.
IndexListChunks ==
    /\ hand["index"].pc = "list"
    /\ hand' = [hand EXCEPT !["index"] =
                    [pc |-> IF chunks = 0 THEN "fail" ELSE "deleteVectors", run |-> chunks]]
    /\ UNCHANGED <<job, bookVars, outboxVars, indexVars, nfaults>>

\* Mutant: Qdrant's points of earlier runs are kept.
KeepOldVectors ==
    /\ IndexStep("deleteVectors", "deleteLexical")
    /\ UNCHANGED <<sync, vectors, lexical>>

IndexDeleteVectors ==
    /\ IndexStep("deleteVectors", "deleteLexical")
    /\ vectors' = {}
    /\ UNCHANGED <<sync, lexical>>

IndexDeleteLexical ==
    /\ IndexStep("deleteLexical", "embed")
    /\ lexical' = {}
    /\ UNCHANGED <<sync, vectors>>

\* Mutant: Qdrant gets the chunks of both tiers.
EmbedBothTiers ==
    /\ IndexStep("embed", "vectorsSynced")
    /\ vectors' = vectors \cup Batches("semantic", run) \cup Batches("lexical", run)
    /\ UNCHANGED <<sync, lexical>>

\* Qdrant gets the semantic chunks only, OpenSearch the lexical ones.
IndexEmbedAndStore ==
    /\ IndexStep("embed", "vectorsSynced")
    /\ vectors' = vectors \cup Batches("semantic", run)
    /\ UNCHANGED <<sync, lexical>>

\* Some batches are stored when one fails. The failure is recorded (this
\* commutes with all that others do in between).
IndexEmbedFails ==
    /\ IndexStep("embed", "fail")
    /\ \E stored \in SUBSET Batches("semantic", run) : vectors' = vectors \cup stored
    /\ UpdateChunkIndexStatus("semantic", "qdrant", "failed")
    /\ UNCHANGED lexical

IndexVectorsSynced ==
    /\ IndexStep("vectorsSynced", "indexLexical")
    /\ UpdateChunkIndexStatus("semantic", "qdrant", "synced")
    /\ UNCHANGED <<vectors, lexical>>

IndexLexical ==
    /\ IndexStep("indexLexical", "lexicalSynced")
    /\ lexical' = lexical \cup Batches("lexical", run)
    /\ UNCHANGED <<sync, vectors>>

IndexLexicalFails ==
    /\ IndexStep("indexLexical", "fail")
    /\ \E stored \in SUBSET Batches("lexical", run) : lexical' = lexical \cup stored
    /\ UpdateChunkIndexStatus("lexical", "opensearch", "failed")
    /\ UNCHANGED vectors

IndexLexicalSynced ==
    /\ IndexStep("lexicalSynced", "ready")
    /\ UpdateChunkIndexStatus("lexical", "opensearch", "synced")
    /\ UNCHANGED <<vectors, lexical>>

\* The book is ready, unless the job has become stale: then it ends in an error.
IndexReady ==
    /\ hand["index"].pc = "ready"
    /\ IF Current("index")
       THEN /\ SetStatus("ready")
            /\ \/ Goto("index", "done") /\ UNCHANGED nfaults
               \/ Goto("index", "fail") /\ Fault("lostReply")
       ELSE /\ Goto("index", "fail")
            /\ UNCHANGED <<book, nfaults>>
    /\ UNCHANGED <<req, outboxVars, job, indexVars>>

-----------------------------------------------------------------------------
RequestStep(r) ==
    \/ UpdateBookRead(r) \/ UpdateBookSave(r)
    \/ ReprocessBookRead(r) \/ ReprocessBookSave(r)

DispatchStep(d) ==
    \/ ClaimOutboxMessages(d)
    \/ \E m \in Msgs : DispatchEnqueue(d, m)
    \/ MarkOutboxDispatched(d) \/ ReleaseOutboxMessage(d)

DispatchFault(d) ==
    \/ \E m \in Msgs : DispatchEnqueueFails(d, m)
    \/ DispatcherDies(d)

IngestStep ==
    \/ Deliver("ingest") \/ Finish("ingest") \/ ReturnError("ingest")
    \/ ReportFailure("ingest") \/ HandlerError("ingest")
    \/ IngestBegin \/ IngestParse \/ IngestReplaceChunks
    \/ IngestEnqueueIndex

IndexerStep ==
    \/ Deliver("index") \/ Finish("index") \/ ReturnError("index")
    \/ ReportFailure("index") \/ HandlerError("index")
    \/ IndexBegin \/ IndexListChunks \/ IndexDeleteVectors \/ IndexDeleteLexical
    \/ IndexEmbedAndStore \/ IndexEmbedFails \/ IndexVectorsSynced
    \/ IndexLexical \/ IndexLexicalFails \/ IndexLexicalSynced \/ IndexReady

HandlerFault == IngestEnqueueFails \/ \E q \in Queues : WorkerCrash(q)

Next ==
    /\ \/ UploadBook
       \/ DeleteBook
       \/ \E r \in Requests : RequestStep(r)
       \/ \E d \in Dispatchers : DispatchStep(d) \/ DispatchFault(d)
       \/ \E m \in Msgs : LeaseExpires(m)
       \/ IngestStep
       \/ IndexerStep
       \/ HandlerFault
    /\ UNCHANGED env

Spec == Init /\ [][Next]_vars

\* The outbox ticker, the consumers of both services and time go on. Users need
\* not ask for anything, and faults need not happen.
Fairness ==
    /\ \A d \in Dispatchers : WF_vars(DispatchStep(d) /\ UNCHANGED env)
    /\ \A m \in Msgs : WF_vars(LeaseExpires(m) /\ UNCHANGED env)
    /\ WF_vars(IngestStep /\ UNCHANGED env)
    /\ WF_vars(IndexerStep /\ UNCHANGED env)

FairSpec == Spec /\ Fairness

-----------------------------------------------------------------------------
(* Properties *)

HandPcs == CallPcs \cup {"idle", "enqueue", "fail", "erred", "done"}
SyncStatuses == {"pending", "synced", "failed"}
Row == [status : {"absent"} \cup Working \cup Settled, gen : Nat, deleted : BOOLEAN]

\* Every variable has the shape the code gives it, and a job runs no more often
\* than it may be retried, plus once for each fault.
TypeOK ==
    /\ book \in Row
    /\ outbox \in [Msgs -> [gen : Nat, state : {"absent", "unsent", "sent"},
                            lock : {"free", "held", "expired"}]]
    /\ \A d \in Dispatchers :
        /\ disp[d].pc \in {"idle", "enqueue", "mark", "release"}
        /\ disp[d].msg \subseteq disp[d].batch
        /\ disp[d].batch \subseteq Msgs
        /\ disp[d].pc \in {"mark", "release"} => Cardinality(disp[d].msg) = 1
    /\ req \in [Requests -> [op : {"none", "update", "reprocess"}, row : Row]]
    /\ job \in [Queues -> [active : BOOLEAN, gen : Nat, attempts : 0..(env.retries + MaxFaults)]]
    /\ hand \in [Queues -> [pc : HandPcs, run : Nat]]
    /\ \A q \in Queues : hand[q].pc # "idle" => job[q].active
    /\ chunks \in Nat
    /\ sync \in [Tiers \X Engines -> SyncStatuses]
    /\ vectors \cup lexical \subseteq Nat \X Tiers \X {1, 2}
    /\ nfaults \in 0..MaxFaults

\* What the environment does: no more than refuse calls, or lose reports of failures.
Refuses == env.faults \subseteq {"enqueueError"}
RefusesOrMisses == env.faults \subseteq {"enqueueError", "statusError"}

Indexed ==
    /\ vectors = Batches("semantic", chunks)
    /\ lexical = Batches("lexical", chunks)
    /\ sync = Synced

\* The search engines never mix the chunks of two runs of ingest, whichever run
\* failed, crashed half-way or was superseded, and whatever stale row a request
\* saved, as long as indexer's handlers of one book do not run at once: every run of
\* process deletes before it writes. (Two at once, after a lost channel or a lost
\* confirmation, can both delete before either writes.)
OneRunIndexed ==
    \A engine \in {vectors, lexical} : \A b, c \in engine : b[1] = c[1]

\* A ready book is searchable: Qdrant holds exactly the semantic chunks that are in
\* Postgres, OpenSearch exactly the lexical ones, and the status of each chunk is
\* synced for the engine of its tier and still pending for the other, however often
\* runs failed half-way, were retried, or were superseded by a reprocess, as long as
\* no process stops, no reply and no channel is lost. indexer's process deletes,
\* writes and records in six separate calls, and ingest's ReplaceChunks gives every
\* chunk a new id.
ReadyIsIndexed == RefusesOrMisses /\ book.status = "ready" => Indexed

\* A book stays ready until a user reprocesses it: no retry, late message or
\* stale job takes it back to processing or failed, as long as no process stops
\* and no reply and no channel is lost.
ReadyUntilReprocessed ==
    [][RefusesOrMisses /\ book.status = "ready" /\ book'.status # "ready" => book'.gen > book.gen]_vars

\* A queued book has an outbox message still to be dispatched, or an ingest job,
\* of its generation: dispatchPendingIngestOutbox loses no request, whichever call of
\* the book service fails or dies, while ingest's queue keeps a job until it ends.
QueuedHasWork ==
    book.status = "queued" /\ ~ book.deleted =>
        \/ \E m \in Msgs : outbox[m].gen = book.gen /\ outbox[m].state = "unsent"
        \/ job["ingest"].active /\ job["ingest"].gen = book.gen

\* Every outbox message is dispatched in the end: failed calls are retried, and
\* the messages of a dispatcher that died are claimed again after their lease.
OutboxDelivers ==
    \A m \in Msgs : (outbox[m].state = "unsent") ~> (outbox[m].state = "sent")

\* A book that is accepted becomes ready or failed, unless it is deleted first, when
\* calls may be refused but no reply is lost and no process stops.
BookSettles ==
    (Refuses /\ book.status \in Working) ~> (book.status \in Settled \/ book.deleted)

\* A deleted book stays deleted.
DeletedStaysDeleted == [][book.deleted => book'.deleted]_vars
=============================================================================
