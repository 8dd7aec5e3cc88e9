# OneBook AI: TLA+ verification project

TLA+ models of OneBook AI (`src/`): the job queue of the ingest and indexer services,
the pipeline that takes a book from upload to the search engines, the accounts, tokens,
codes and sessions of the auth service and the gateway, uploads and their cleanup, the
eval center, and the way of a reader's question from the route to a grounded answer.
TLC checks the models on small instances; TLAPS proves their safety properties for every
size.

## 1. The system

Six Go services (`src/backend/services`), a React frontend, and two Python
services, over Postgres, Redis, RabbitMQ, MinIO, Qdrant and OpenSearch.

| Component | State | Operations | Talks to |
| --- | --- | --- | --- |
| gateway | OAuth states (Redis), refreshes under way; cookies in the browser | the REST API, sessions, OAuth login, administration | auth, book, chat |
| auth | users and identities (Postgres), refresh tokens, revocations, one-time codes (Redis), eval runs (Postgres) | sign-up, login, refresh, logout, user administration, eval worker | Redis, Postgres |
| book | book rows, outbox, idempotency records (Postgres), files (MinIO) | upload, update, reprocess, delete, status reports, outbox worker, cleanup worker | ingest (HTTP) |
| ingest | job queue, chunks (Postgres) | Enqueue, `process`, parser and chunker | book and indexer (HTTP), RabbitMQ |
| indexer | job queue, vectors (Qdrant), documents (OpenSearch), chunk index status (Postgres) | Enqueue, `process` | book (HTTP), RabbitMQ |
| chat | conversations, messages, idempotency records | ask, stream, rename, delete, list | Postgres, Qdrant, OpenSearch, language models |
| job queue (`pkg/queue`) | job rows (Postgres), messages (RabbitMQ) | EnqueueWithPayload, consumers, retry, dead letter | used by ingest and indexer |
| token stores (`pkg/store`) | Redis keys | NewToken, RotateToken, RevokeUser, ... | used by auth |
| rate limiter (`internal/ratelimit`) | a count per key and window (Redis) | Allow | used by gateway and auth |

An upload stores the file in MinIO and, in one Postgres transaction, the book row
(`queued`, generation 1) and an outbox message. The outbox worker hands the message
to ingest, whose job parses the file, replaces the book's chunks and hands an index
job to indexer, which empties and refills both search engines and reports `ready`.
Each report carries the processing generation of its job; `SetStatusIfGeneration`
ignores those of an older generation. ReprocessBook starts a new generation. A question
passes the gateway's session and rate limit, is routed by its words, answered from
retrieved chunks and saved with its answer as one exchange of a conversation.

What is hard, and therefore modelled: several replicas and goroutines over the same
rows and keys with few locks; two-step operations (insert and publish, mark and
acknowledge, read and save, enqueue and record) that can stop in between; messages
delivered again while an earlier delivery is still being worked on; replies that
are lost after the call had its effect; leases that end too early; cookies of
overlapping requests; retries with idempotency keys; chunks replaced under a running
question. The list, with lines, is `hazards` in `PROJECT.json`.

What makes each part correct:

- job queue: one active job per book; a job's message is in one place; bounded
  retries; one handler per book; an ended job stays ended; no active job without a
  message; every job ends;
- refresh tokens: a token is redeemed once; a revoked family stays dead; the
  holder of the current token is not locked out; revoking a user reaches every family;
- pipeline: of a ready book the vector engine holds the semantic chunks and the text
  engine the lexical ones; a request is not lost between outbox and queue; a book becomes ready or failed; a deleted book stays deleted;
- accounts and codes: a revocation holds for every token issued before it; nobody gets
  in without a right code for that identifier and purpose; an identity keeps its owner;
- sessions: requests that overlap do not end the session, and the browser keeps a usable
  refresh cookie; an OAuth login ends where it was started, once;
- services: one book, run or exchange per idempotency key; listed books have their
  files; deleted ones are cleaned up; results are kept; queued runs are taken;
- requests: the calls of the gateway land; the quota holds; the text of a file reaches
  the chunks; evidence respects the ranks; claims cite real evidence.

## 2. Modules

| Module | What it is | Run in |
| --- | --- | --- |
| `JobQueue`, `JobQueueProofs` | `RabbitMQJobQueue` with `PostgresJobStore`; its theorems | `MCJobQueue` |
| `ExclusiveJobs` | abstract: what the handlers of ingest and indexer rely on: a book's job runs on one consumer at a time | refined by `JobQueue`, assumed by `Pipeline` |
| `TokenFamilies` | abstract: what a `RefreshTokenStore` promises | refined by the next one and by `GatewaySessions` |
| `RefreshTokens`, `RefreshTokensProofs` | `RedisRefreshTokenStore`, one step per Redis command; its theorems | `MCRefreshTokens` |
| `Pipeline`, `PipelineProofs` | book row, outbox, both queues and both handlers composed; their theorems | `MCPipeline` |
| `Accounts` | users, identities, access tokens, families, revocations: the requests of the auth service | `MCAuth` |
| `Verification` | one-time codes: `otp_store.go` and the handlers that use it | `MCAuth` |
| `OAuthLogin` | start and callback of a login through a provider | `MCAuth` |
| `GatewaySessions` | cookies, shared refreshes, answers on their way to the browser | `MCAuth` |
| `AdminActions` | an administrator's request as a series of calls | `MCAuth` |
| `Idempotency` | the decisions of the idempotency protocol that three services share | with the next three |
| `BookUploads` | uploads once per key, files, soft delete, cleanup worker | `MCServices` |
| `EvalRuns` | eval runs, their worker, cancellation, datasets | `MCServices` |
| `ChatExchange` | a question's exchange, its conversation and its key | `MCRequests` |
| `ApiRoutes` | routes, methods, roles and keys from the gateway to the services | `MCRequests` |
| `RateLimiter` | the fixed-window script for one key | `MCRequests` |
| `Orders` | sets in order, parts of sequences and sums, for the next three | with them |
| `Chunking` | from a file to its chunks | `MCRequests` |
| `Retrieval` | searches, fusion, reranking and packing | `MCRequests` |
| `Answering` | routing, planning, evidence, citations and refusals over a conversation | `MCRequests` |
| `AuthProofs` | theorems of `Accounts` and `Verification` | |
| `GatewayProofs` | theorems of `OAuthLogin`, `AdminActions`, `GatewaySessions`, `ApiRoutes` and `RateLimiter` | |
| `ServicesProofs` | theorems of `EvalRuns` and `BookUploads` | |
| `ChatProofs` | theorems of `ChatExchange`, `Answering` and `Retrieval`, lemmas about `Orders` | |
| `ChunkingProofs` | theorem of `Chunking`, by the lemmas about `Orders` | |

`map` in `PROJECT.json` gives the source lines of every definition. Operators whose
comment begins "As it would be if" or "Mutant" are plausible bugs, used by the `mutants` only.

`MCAuth`, `MCServices` and `MCRequests` each check several components in one run. A
variable `scenario`, chosen initially, says which component a behaviour follows; the
others stay in one initial state, so that the run's states are the sum of the
components' and not their product. These components meet only through calls that each
module models as the caller sees them.

### JobQueue

`jobs` is `async_job_models`, `ready`, `unacked` and `dlq` are the broker's view of
the messages, `enq` and `worker` are the program counters and locals of the
`EnqueueWithPayload` calls and of the consumer goroutines. Every SQL statement,
publish, Ack and Nack is a step. A message is named by its job because a job is
published once. Any ready message may be next: after a requeue RabbitMQ promises no
order. The handler is a step that succeeds or fails. A fault is a step of its own;
the constant `Faults` says which kinds happen and `MaxFaults` how many:

| Fault | In the code |
| --- | --- |
| publishError | publish fails, the broker has nothing |
| lostConfirm | the context ends before the confirmation arrives; the broker has the message |
| enqueuerDies | the process stops, or MarkFailed fails, between insert and publish |
| storeError | a Postgres call of a consumer fails without effect |
| storeReplyLost | a Postgres call of a consumer commits and its reply is lost: the code takes it for failed |
| workerCrash | the consumer's process stops |
| channelLoss | the channel closes while the handler goroutine goes on |

`ExclusiveJobs` says what the two services need of the queue: a book's job is accepted
when none is active, has its handler on one consumer at a time, stays active while it
has one, and ends while it has none. `RunsExclusively` is this specification under the
mapping that makes a book active when it has an active row and gives it the consumers in
`handling`. It holds as long as no channel closes under a handler and no
confirmation is lost.

Abstracted: one job type, so the unique index is over the book alone; error texts,
timestamps and payloads (Pipeline has the one payload that matters, the generation).

### RefreshTokens and TokenFamilies

The variables are the Redis keys (`tokenFamily`, `current`/`owner`, `familyTokens`,
`userFamilies`), the calls' locals, and `watching`, the calls whose WATCH is intact.
`issued` and `redeemed` are history. A GET, HGETALL, SMEMBERS, DEL or MULTI/EXEC is
one step, so calls interleave between any two commands. Any call may present any
token ever issued. Keys expire; a command may fail (`RedisErrors`), an EXEC may
succeed with its reply lost. A token stands for its hash.

`TokenFamilies` is the promise: Issue, Redeem and Revoke as single steps, as under
the mutex of `MemoryRefreshTokenStore`. The refinement mapping is the identity on
`owner`, `current`, `issued` and `redeemed`: the linearisation points are the EXECs.

### Pipeline

One book. `book` is its row (status, generation, deleted), `outbox` the messages with
their lease, `disp` the concurrent dispatchers, `req` the row that an UpdateBook or
ReprocessBook has read and will write back. `job` and `hand` are the active job and
the running handler of each of the two queues: `JobQueue` shows that there is at
most one of each and that handlers come and go as the steps of `ExclusiveJobs` do
(OneActiveJob, RunsExclusively), so the queue is reduced to CreateOrGetActiveJob's answer,
the retries and the redelivery after a crash. This is a condition on all that Pipeline
shows: a handler whose channel closes while it runs (`channelLoss`, or `lostConfirm` of a
failed job) is beside the one that the message is delivered to next, and the two can mix
runs in an engine. Every
call that ingest's and indexer's `process` makes to another service is a step, and
any of them may fail. `chunks` is the ingest run whose chunks are in Postgres,
`vectors` and `lexical` what Qdrant and OpenSearch hold. splitChunksByTier sends the
semantic chunks of a run to Qdrant and the lexical ones to OpenSearch, each tier in two
batches so that bulk writes can stop half-way; a run without semantic chunks fails. `sync`
is `chunk_index_status`, by tier and engine: the chunks of a tier are recorded for the
engine of that tier and stay pending for the other. Run numbers are
reused once nothing refers to them, which keeps the state space finite without a cap.

A behaviour belongs to an environment, chosen initially: the operations users ask for, the
kinds of faults, the number of outbox messages and of retries. The properties that hold
only without some faults name them (`RefusesOrMisses`: calls are refused and failure
reports lost; `Refuses`: calls are refused).

The lease is three-valued: free, held, expired. It expires while its dispatcher
still works only through the fault `slowDispatch`; otherwise only when the holder is
gone.

### Accounts

`users` and `identities` are the two tables, `token` the access tokens ever issued with
their whole-second issue time, `cutoff` the revoked-since keys, `family` the refresh token
families: whether each lives, what the client holds, and whether the user's set lists it.
RevokeUserRefreshTokens is the reading of that set, the end of one family after the other
and the DEL of the set, in steps of their own, so that it drops the family of a login that
comes between (finding 1; `dropped` is history); the other calls of the store are one step
each, as TokenFamilies allows. `call` the locals of
each request. A request reads, decides and writes in separate steps: sign-up, login by
password or code, OAuth completion with its conflicts, refresh, logout, change of email
and password, reset, and the administrator's disabling, enabling, change of email and
deletion. Any step may fail (`Fail`). The clock has `Second` instants a second, so that
rounding of issue times against cutoffs is seen. The administrator also changes roles. `promised` is history: the latest
revocation that returned and met no other one of that user.

### Verification, OAuthLogin, GatewaySessions, AdminActions

`Verification`: the Redis keys of challenges, resend windows and verification tokens; each
GET, TTL, SET, DEL is a step of the request that makes it, keys expire by the clock. A
code is right or wrong. `proved` and `granted` are history.

`OAuthLogin`: the saved states, the codes the providers gave out, and the callbacks, which
may bring any state together with any code to any provider's callback. PKCE and nonce are
checked as equality of the login they were made for; the provider is external.

`GatewaySessions`: the browser's two cookies, its requests with the cookies they were sent
with, the refreshes under way at each gateway instance (`refreshSingle`), and the answers,
which arrive in any order or not at all. The auth service is reduced to the current token
of each family, and this reduction is checked to implement `TokenFamilies`, which
`RefreshTokens` implements too.

`AdminActions`: each console's request runs through the calls of the handler (read before,
list and delete the books, the operation itself, audit log), each checked anew by its
service, each of which may fail. A reprocess or repair reads the row and saves it whole
later. Users upload and rename meanwhile (`edit`): they are checked and their row is read
first, and the row is saved after other calls. `SaveRow` writes every column, so a deleted
book is back (finding 3). `late` and `revived` are history.

### Idempotency, BookUploads, EvalRuns, ChatExchange

`Idempotency` holds the decision after the first read of a record and after an insert that
met the unique index. The three services have their own copies of the protocol around it.

`BookUploads`: records, book rows, objects, requests and the cleanup worker
(claim, search engine, object, row), with failing calls, a commit whose answer is lost and
stops of the service. `EvalRuns`: records, runs, the dataset, requests and the worker, whose
evaluation succeeds or fails; `SaveEvalRun` writes the whole row its caller has read.
The worker takes the newest of the queued runs, one at a time.
`ChatExchange`: records, conversations, exchanges and book rows; `SaveConversationExchange`
is one transaction that also completes the record.

What the code does not protect against is told apart by history variables (`excused`,
`undeleted`, `stranded`, `retried`, `late`), and the properties name the excuse.

### ApiRoutes, RateLimiter

`ApiRoutes` is a function from a request (method, path, cookies, session, key) to the gateway's
reply, the calls its clients make, and where each lands in the mux and handler of the
service. The state machine delivers the calls one after the other. `RateLimiter` has the
clock reading, the script, the expiry and failing calls apart, since a script may run
after its window has ended.

### Chunking, Retrieval, Answering

`Chunking`: a PDF is what the tools read on each page (native, OCR, poor or short); what the
OCR command writes is a list of page items in files, numbered from 0, from 1, by their place
in the file, or a file without items that is page 1. An EPUB is
its sections, a text its lines with lengths and sentence ends; pages are merged, blocks cut
into units, and units put together to chunks with an overlap, one unit per step.
`Retrieval`: each query gives any order of hits; merging, fusion, loading (any of the chunks
may be gone), reranking by the service or its fallback, and packing follow the code. The weights
are whole numbers, and so are the reciprocals of the ranks, times a common multiple of
their divisors (`ScoreScale`); the code takes scores less than 1e-9 apart for equal, which
those of different ranks are not before rank 31000. `Answering`: a question is the words
the code looks for; routing, planning, reuse of cited chunks, selection by block, the
abstain policy and the model's reply (any the code accepts or not) follow the code, while
the book may be reprocessed, first its rows and then its index.

## 3. Runs

| Run | Checks | Shows |
| --- | --- | --- |
| `jobqueue_all_faults` | OneActiveJob, OneCopy, AttemptsBounded | hold under every fault of `JobQueue` |
| `jobqueue_orderly` | RunsExclusively, TerminalIsFinal, DeadLetterMatchesFailed | hold while no consumer stops, no channel closes, and no confirmation and no reply of the store is lost: the queue implements `ExclusiveJobs`. The first two need less (consumers may stop and replies be lost), which is what their theorems show |
| `jobqueue_live` | NoStrandedJob, JobsSettle | hold unless an enqueuer dies or a channel closes under a handler |
| `refresh_tokens_all` | CurrentTokenUsable, RevokedStaysDead, RevokeUserReachesAll, ImplementsTokenFamilies | hold, failing Redis commands included, with one user revocation |
| `refresh_tokens_missed` | RevokeUserReachesAll | **violated** by a login during an earlier revocation |
| `pipeline_all` | OneRunIndexed, ReadyIsIndexed, ReadyUntilReprocessed | the first for every operation and fault of `Pipeline`, which has one handler per queue; the others over three generations while calls are refused and failure reports lost |
| `pipeline_outbox` | QueuedHasWork, OutboxDelivers, BookSettles | no request of an upload is lost, it is dispatched in the end, and with refused calls only the book becomes ready or failed |
| `pipeline_lost_generation` | BookSettles | **violated** by a reprocess, without any fault |
| `pipeline_undelete` | DeletedStaysDeleted | **violated** by UpdateBook's whole-row save |
| `auth` | RevocationHolds, SubjectKeepsOwner; OnlyByCode, GuessesBounded; LoginMatchesStart; OverlapIsNoReplay, CookieIsCurrent, SessionsAreFamilies; DeletedUserOwnsNothing | accounts, codes, OAuth, sessions and administration with overlapping requests and failing calls |
| `services` | OneBookPerKey, BookHasObject, CleanupFinishes; OneRunPerKey, ResultKept, QueuedRunIsTaken | books and eval runs with their workers, failing calls and stops |
| `requests` | CallsLand; QuotaHolds; OneAnswerPerKey, ConversationKeepsBook; TextKept; BestEvidence; AnswersAreGrounded | the way of a reader's request and of a book's text |

The three violations are the `findings` of `PROJECT.json`:

1. `RevokeUserRefreshTokens` deletes the user's set of families, with a family that
   was added since it read the set. The family stays live, and the next revocation
   does not find it.
2. `CreateOrGetActiveJob` answers with the active job whatever its generation. If
   ReprocessBook comes while the previous generation's job waits for its retry (the
   book shows `failed` then), the new generation is never processed, the book stays
   `queued`, and ReprocessBook does nothing for a queued book. The same happens at
   the index queue, where the book stays `processing`.
3. UpdateBook and ReprocessBook write back the whole row they read, `deleted_at`
   included.

### What the properties leave out

The passing runs leave out, by choice of the constants or by an excuse the property
names, the cases in which a property does not hold. Adding them yields counterexamples;
they mark what the code does not protect against:

- RunsExclusively and TerminalIsFinal fail with channelLoss or
  lostConfirm: `updateState` has no condition on the status, so a handler that outlived its
  channel reopens a job that another consumer finished. OneRunIndexed and the other
  properties of Pipeline rest on them: with two handlers on one job, the one can write the
  chunks of its run into an engine that the other has emptied for the next. NoStrandedJob fails with channelLoss or enqueuerDies;
  DeadLetterMatchesFailed fails with workerCrash, and with storeReplyLost, when MarkFailed
  commits and reports an error (rabbitmq_queue.go:265): the redelivered message of a
  failed job is acknowledged.
- RevokedStaysDead is about revocations that run to their end. RotateToken drops the
  error of revokeFamily and reports the replay all the same; the model tells that
  verdict apart (`unrevoked`), and the family then lives on.
- ReadyIsIndexed, ReadyUntilReprocessed and BookSettles fail with lostReply,
  outboxError, dispatcherDies or workerCrash. Each of them makes ingest run twice for
  one generation; the second run replaces the chunks while the index job of the first
  is active, and its own Enqueue is answered with that job. The book becomes ready
  with the ids of deleted chunks, or stays processing. BookSettles also fails with
  slowDispatch, and with statusError when the last report of a failure is lost.
- QueuedHasWork and BookSettles fail as soon as books are reprocessed (finding 2).
- RevocationHolds does not cover two overlapping revocations of one user: the earlier
  cutoff can overwrite the later. Nor does it cover the families that an earlier
  revocation dropped from the user's set (finding 1): a later one does not find them.
- GuessesBounded does not cover challenges whose verifications overlap or break off
  before the count is written: attempts are lost, and two right answers both succeed.
- OverlapIsNoReplay and CookieIsCurrent do not cover a request that comes late with an
  old cookie, two gateway instances, lost or overtaken answers, and a Refresh that fails
  after the rotation: the session then ends with the next refresh.
- OneBookPerKey and OneRunPerKey do not cover a failed record that two requests take up
  again at once; OneBookPerKey and BookHasObject not a commit whose answer was lost (the
  upload deletes the object of a book that exists) and a book brought back by finding 3.
- CleanupFinishes does not cover a cleanup that was cut off while running: no claim
  selects it again. ResultKept lets a cancellation that read the run earlier overwrite a
  result; a run that was running when the service stopped stays running. QueuedRunIsTaken
  is about a time in which no run is created: the list is in the order newest first, so
  runs that keep coming starve an older one (eval_center.go:92, gorm_store.go:1479).
- DeletedUserOwnsNothing does not cover a book uploaded after the books were listed, nor a
  deleted one that a rename or a reprocess brings back after that by saving the row it read
  before; ConversationKeepsBook not an answer saved while its book was being removed.
- The rate limiter's quota holds for a window of the clock. Any other time as long as a
  window meets two windows, and a third with delayed calls; a call delayed past the life of
  its window's count begins another count. QuotaHolds allows what these add up to
  (`SlidingQuota`): two quotas, three less one, or five less two, which small cases reach.

- CallsLand excepts one call, the logout of a browser that has only its refresh cookie
  left: the gateway makes it without an access token and the auth service answers 401
  (`services/auth/internal/server/server.go:786`).
- TextKept counts the pages of the OCR command only where their numbers are those of the
  pages. A file without page items is page 1 (parser.go:549), and items without numbers are
  counted in each file anew; mergePDFPages keeps the last page of each number, and the
  others are lost. A file without text makes the whole reading fail.

Two statements of the documents do not hold and have no run of their own:

- `src/backend/api/rest/openapi.yaml:467` says that a logout revokes the current session,
  but when the access cookie has expired, so that the logout above is refused, the cookies
  are cleared and the refresh token family lives on.
- `src/README.md:673` says that every strong operation is logged, but the log is the last
  of several calls and may fail after the others took effect.

Met while modelling, not stated as properties: an answer in which the model itself says
that the evidence is insufficient is not marked `abstained` (`src/README.md:244`); a text
file is one block, evidence is counted by blocks, and so questions that need two blocks
are refused for it; EPUB sections keep the order of the archive; and
GetBookIndexStatusSummary (`services/book/internal/app/app.go:285`) counts a chunk as synced
when both engines have it, while each chunk goes to one engine, so that it reports every
chunk of a ready book as pending.

### Bounds

JobQueue: one book suffices for properties about one book, since rows of
different books share nothing but the consumers; two enqueuers and two consumers
are needed for every race in the code; three jobs let a second and a third job exist
beside a first that is still being handled; two retries have a first, a middle and a
last attempt once a fault adds one. RefreshTokens: two families and four tokens
allow a rotation in one family while another is revoked, and a replay of a rotated
token; two calls race. Pipeline: two or three outbox messages are two or three
generations, two dispatchers race for a lease.

`auth`: two requests at a time, of any two kinds, for the administrator, a member and a new
user; three for logins and password changes, with a clock of two seconds so that a token
and a cutoff fall into one second or into different ones. One challenge with two attempts
has a first and a last one; two identifiers can be mixed up, as two states, two codes and two
providers. Sessions: three tokens are a login and two rotations, over two gateways and two
requests. Administration: two consoles, two books, one failing call. `services`: two
requests and a worker, one or two keys, three books so that two failed uploads come before
a good one, two faults. `requests`: every path the services have and each with one more
segment, five methods, all sessions, with and without a key; a quota of two for two calls
over two windows, up to one tick late; texts of up to four lines with every order of five kinds of lines (blank, short, open, sentence, longer than a unit); an
index of six chunks in three blocks, two queries; questions that meet every word list of
the code, two turns and one reprocessing.

`CHECK_DEADLOCK FALSE` throughout: job ids, tokens, messages and requests are finite, and a
system whose users ask for nothing more may stop. Symmetry is used only in runs without
liveness.

### Fairness

`JobQueue!FairSpec`: weak fairness of each call that has begun and of each
consumer goroutine; none of them waits for another and Go schedules them all.
`Pipeline!FairSpec`: weak fairness of each dispatcher (a two second ticker), of the
passing of a lease, and of the consumers of both services. `MCServices!Spec`: weak fairness
of the eval worker and of the cleanup worker, goroutines with a ticker. No request need be
made and no fault need happen; faults are finite in number.

Every property of a passing run has a mutant in `PROJECT.json`, a plausible bug of
the code under which TLC finds that property violated.

## 4. Proofs

Proved by TLAPS for every value of the constants: any number of jobs, books, requests,
consumers, gateways, tokens and paths, and whatever faults a theorem does not exclude by
name. Every safety property that a passing run checks is a theorem. Each proof goes by an
inductive invariant, with one step per action; those of the later modules were checked by
TLC on the instances of the runs before they were proved.

`JobQueueProofs`
- `TypeCorrect`: Spec => []TypeOK.
- `OneActiveJobCorrect`. Inductive with `Created`: whatever the broker, a consumer or
  a call refers to has a row, so a fresh row is unknown to all. EnqueueInsert and
  Retry are the only steps that make a job active, and both meet the unique index.
- `OneCopyCorrect`. Inductive with `PublishedOnce`: a call about to publish is the
  only one to know its job.
- `ExclusiveHandlerCorrect`, `TerminalIsFinalCorrect`, assuming that channelLoss and
  lostConfirm are not among the faults. `WorkerHoldsMessage` (a consumer holds the
  message of its job) and OneCopy make the holder unique; `RowMatchesHolder` (a job in
  a handler's hands is processing, one in a call's hands queued) makes it active, and
  OneActiveJob does the rest.
- `RunsExclusivelyCorrect`: Spec => Exclusive!Spec under the same two assumptions. The
  same invariant; each step of the queue is shown to be an Accept, Begin, Return or End of
  one book, or to change neither its activity nor its handlers (`ExclusiveStep`).
- `NoStrandedJobCorrect`, assuming no channelLoss and no enqueuerDies, with
  `DroppedWhenEnded`: a message is dropped only for a job that has ended.
- `AttemptsBoundedCorrect`, under any faults. `Counted` bounds the attempts that were
  counted together with those that late handlers (their channel closed before they counted)
  have still to count: a message that may be delivered leaves room for one more, and the
  handler that holds the message knows the number up to the late ones. `MessageOfWorker`
  says who holds it, `NobodyBefore` that nobody works on an unpublished job.
- `DeadLetterMatchesFailedCorrect`, assuming no channelLoss, lostConfirm, workerCrash and
  storeReplyLost:
  with `DeadLetterHolder`, a failed job that used up its retries is still with the one
  consumer that will Nack it.

`RefreshTokensProofs`
- `TypeCorrect`, with `WatchIsCurrent` (an intact WATCH still describes its family) and
  `CurrentIsFresh` (a live family's token is issued, not redeemed, and its own).
- `Refinement`: Spec => TF!Spec; a step lemma maps RotateExec to Redeem, NewToken to
  Issue, RevokeExec and ExpireFamily to Revoke, and every other step to a stutter.
- `CurrentTokenUsableCorrect`, with `TokensOfFamily`: what a revocation has listed
  never includes another live family's current token.
- `RevokedStaysDeadCorrect`, Redis errors included, with `NamedFamilyCreated`: a
  family that anything names is not drawn again.

- `RevokeUserReachesAllCorrect`, assuming `MaxRevokes <= 1`, that is, for the first call
  of RevokeUserRefreshTokens: until then every live family is listed under its user
  (`ListedBefore`), and of those live at its start each is dead, still to be revoked or at
  hand (`Reaching`). For a second call it is false; that is finding 1.

`PipelineProofs`
- `TypeCorrect`: Spec => []TypeOK, part of `PipelineInv`.
- `OneRunIndexedCorrect`, for every environment and every fault of the module, which takes
  one handler per queue from `RunsExclusivelyCorrect`. `OneRunInv` says what an engine
  can hold at each place of indexer's process: nothing of an earlier run once it deleted.
- `ReadyIsIndexedCorrect` and `ReadyUntilReprocessedCorrect`, assuming `OrderlyRequests`:
  one request at a time, and no UpdateBook in an environment without stops and lost
  replies. Requests save the row they have read, status and generation included, so that two
  of them, or an update, can write a stale "ready" back. `ReadyInv`: a message is claimed by
  one dispatcher, the message that waits has a generation no job has (`Generations`), a job
  of the current generation indexes the chunks in Postgres (`Indexing`), and when the book is
  ready its jobs are done (`ReadyQuiet`).
- `QueuedHasWorkCorrect`, assuming `UploadsOnly`: books are uploaded and deleted, and no
  report of a failure is lost. All other faults of the module may happen. `WorkedInv`: a message counts as
  dispatched only when it has left a job. With a reprocess it is false (finding 2).

`AuthProofs`
- `OnlyByCodeCorrect`, `GuessesBoundedCorrect`: `OtpInv` follows a right code through the
  challenge, the request and the token it leads to (`CodesGiven`), and counts the guesses of
  a challenge whose verifications do not overlap (`GuessesCounted`).
- `RevocationHoldsCorrect`, `SubjectKeepsOwnerCorrect`: `AccountsInv` says what each request
  has found out or done at each step (`LoginFacts`, `RevokingFacts`), that a promised
  revocation is never ahead of the cutoff (`PromisesSet`), that one which met no other
  is the only one (`AloneIsOnly`), and that a family is listed, dropped, or ended.

`GatewayProofs`
- `LoginMatchesStartCorrect`: a state is in Redis, in the hands of one callback, or used up
  (`StateInOnePlace`).
- `DeletedUserOwnsNothingCorrect`: a request that deletes a user has listed every book of
  his that is left, but the late and the revived ones (`BooksAccountedFor`); rows that are
  about to be saved are those of their owner.
- `OverlapIsNoReplayCorrect`, `CookieIsCurrentCorrect`: nothing carries a token that was not
  issued (`OnlyIssued`), tokens fall into families with their current one not rotated
  (`FamiliesPartition`), and at each gateway one refresh runs per token (`FlightsOrderly`).
- `SessionsImplementFamilies`: GatewaySessionsSpec => SessionsAreFamilies. The refresh that
  reaches the auth service is Redeem, a login Issue, a logout and a replay Revoke.
- `CallsLandCorrect`, for all paths and methods. Each call that a client builds is taken to
  its operation at the service, but for a logout without an access token; each handler of the gateway, whatever the path, replies with
  such calls, the audit log last; `LandingInvariant` follows them one by one.
- `LimiterTypeCorrect`, `QuotaHoldsCorrect`: a call runs while its window or the delay after
  it lasts (`CallsInTime`); the counts of a window follow each other, a window apart, and
  give each number up to the limit once (`CountsApart`, `CountsKept`). Requests let through
  in a time as long as a window thus differ in window, count or number, and are no more
  than there are of these.

`ServicesProofs`
- `OneRunPerKeyCorrect`, `OneBookPerKeyCorrect`: a request past its idempotency record is the
  only one of its key, and what it is to make is not made yet (`OneAnswers`, `OneBooks`).
- `ResultKeptCorrect`, an action property: the worker has a run that has not ended
  (`WorksOn`), so that only a cancellation can write over a result.
- `BookHasObjectCorrect`: an id that is being filed is one request's and new, with its file
  stored before the row (`Filings`); what the cleanup claimed is deleted (`Cleaning`).

`ChatProofs`, for any requests, questions, chunks, texts, weights and limits
- `OneAnswerPerKeyCorrect`: as above for exchanges (`OneExchanges`).
- `ConversationKeepsBookCorrect`: a conversation that a request makes is its own, and one it
  goes on with has its book (`Placings`); while a book is removed, only late conversations
  are about it (`Removals`).
- `AnsweringTypeCorrect`, `AnswersAreGroundedCorrect`: from the question on, the chunks of
  the book as it is are among those the turn may cite, and the evidence that is left after
  the selection has each block once (`TurnGrounded`). So an answer that passes the check of
  its number of hits cites as many blocks (`CitedBlocksCounted`), and what it cites was in
  the database, however often the book is processed again meanwhile.
- `RetrievalTypeCorrect`, `BestEvidenceCorrect`: the hit kept of a block has the score of its
  best rank (`HitKept`, over all queries), so that a block which outranks another has more,
  and comes before it (`RanksRespected`). What is ranked is one hit of each of some blocks
  up to the packing (`RankedFused`), and `PackedSoFar` holds after each hit that is packed
  or passed over.
- The lemmas about `Orders` say what sorting, filtering and adding up yield. A fold of the
  community modules goes by a function that is chosen by its equation; the lemmas show that
  there is such a function, and what it gives after each element, by the least place at
  which it would not. `Orders` has its own operators for orders and filters because those of
  the modules (SetToSortSeq, SelectSeq) are no definitions to the prover.

`ChunkingProofs`, for files of any pages, sections and lines and any sizes
- `TextKeptCorrect`. `ChunkingInv` has three parts. `PagesHeld`: what is read so far is a
  set of pages that a tool could read, all of them where they keep their numbers, each once
  and in order (`Reads`), and an OCR is among
  them only for a page whose native reading is poor or absent (`OcrWherePoor`); merging keeps
  that (`MergeRight`). `CutRight`: the chunks of the tier that is being cut, the units of the
  next chunk and the rest of the units join without a gap (`CutSoFar`), and what is cut of the
  tiers before it stays as it is (`EarlierDone`, `DoneStays`). A chunk that is closed is
  followed by an end of it that is as long as the overlap needs and no longer (`KeptFacts`),
  or, where that would be too long, by the next unit alone (`NextChunk`). `FileTypes` says
  what the files hold.
- That the units hold what the lines hold (`UnitsAreKept`) is no matter of states but of the
  folds that make them: lines to paragraphs, a paragraph to sentences, a sentence to parts.
  For each fold the sum of what it has put out and of what it still has in its buffer is the
  sum over the lines read so far (`EndedParagraph`, `ReadOn`, `SentencesFacts`, `SplitFacts`),
  with one more for a space that joins two lines of a sentence.

Assumptions. The constants' are the named ASSUMEs of the modules, which TLC evaluates in
every run: bounds are natural numbers, and placeholders differ from what they stand in for
(`"none"` is no provider, gateway, key or hash; `NoToken` is no token). AccountsAssumption
also keeps emails and OAuth subjects apart, which are keys of two tables in the code. The
hypotheses of single theorems are named above; they exclude cases in which the property is
false (section 3), or, with `OrderlyRequests`, those whose stale writes are finding 3.

Refinement. `RefreshTokens` and `GatewaySessions` both implement `TokenFamilies`, the one as
the store, the other as its user (checked and proved).

Only model-checked: liveness under fairness (JobsSettle, OutboxDelivers, BookSettles,
QueuedRunIsTaken, CleanupFinishes), which the prover does not handle.

## 5. Not modelled, and the plan

Not modelled, and why:

- evaluation metrics: floating-point averages over files, without state;
- text extraction and OCR (external tools), language models, embeddings and rerankers
  (external services): their results are inputs of the models;
- HTTP clients without state; profiles, avatars, login activity, normalisation of names and
  titles, error texts: data that no property tells apart;
- service tokens: signing and verification by a library, no state that changes;
- the idempotency record of a reprocess, which repeats the protocol of an upload;
- the frontend: presentation; the browser is in `GatewaySessions`;
- the Redis stream queue, which no service starts.

Next: a weaker form of ReadyIsIndexed for overlapping requests that excuses the stale
writes by a history variable instead of excluding them; and the type invariants of the
modules of `auth`, `services` and the other modules of `requests` as theorems of their own.
