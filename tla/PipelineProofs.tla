--------------------------- MODULE PipelineProofs ---------------------------
(* Proofs about Pipeline for any number of dispatchers, requests, outbox     *)
(* messages, retries and faults, and for every environment: types, what the  *)
(* search engines hold, and what a ready and a queued book can rely on.      *)
EXTENDS Pipeline, FiniteSetTheorems, TLAPS

USE DEF Working, Settled

-----------------------------------------------------------------------------
(* Types, and one run per engine. *)

\* TypeOK and what makes it inductive: the environment stays, a dispatcher that has called
\* ingest has one message in hand, and a job that waits has an attempt left.
HasAttempt(q) ==
    /\ job[q].attempts <= env.retries + nfaults
    /\ hand[q].pc = "idle" => job[q].attempts < env.retries + nfaults
DispTypes ==
    /\ disp \in [Dispatchers -> [pc : {"idle", "enqueue", "mark", "release"},
                                 batch : SUBSET Msgs, msg : SUBSET Msgs]]
    /\ \A d \in Dispatchers :
        IF disp[d].pc \in {"mark", "release"}
        THEN \E m \in disp[d].batch : disp[d].msg = {m}
        ELSE disp[d].msg = {}
BookTypes ==
    /\ book \in Row
    /\ outbox \in [Msgs -> [gen : Nat, state : {"absent", "unsent", "sent"}, lock : {"free", "held", "expired"}]]
    /\ req \in [Requests -> [op : {"none", "update", "reprocess"}, row : Row]]
    /\ env \in Environments
QueueTypes ==
    /\ job \in [Queues -> [active : BOOLEAN, gen : Nat, attempts : Nat]]
    /\ hand \in [Queues -> [pc : HandPcs, run : Nat]]
    /\ \A q \in Queues : hand[q].pc # "idle" => job[q].active
    /\ \A q \in Queues : HasAttempt(q)
    /\ nfaults \in 0..MaxFaults
\* A chunk never has a status for the engine its tier does not go to.
SyncShape ==
    /\ sync \in [Tiers \X Engines -> SyncStatuses]
    /\ sync[<<"semantic", "opensearch">>] = "pending"
    /\ sync[<<"lexical", "qdrant">>] = "pending"
IndexTypes ==
    /\ chunks \in Nat
    /\ SyncShape
    /\ vectors \subseteq Nat \X Tiers \X {1, 2} /\ lexical \subseteq Nat \X Tiers \X {1, 2}

\* The two columns that are written.
LEMMA StatusFacts ==
    ASSUME SyncShape, NEW s \in SyncStatuses, NEW tier, NEW engine, UpdateChunkIndexStatus(tier, engine, s),
           \/ tier = "semantic" /\ engine = "qdrant"
           \/ tier = "lexical" /\ engine = "opensearch"
    PROVE  /\ SyncShape'
           /\ run = chunks => sync'[<<tier, engine>>] = s
           /\ tier = "lexical" => sync'[<<"semantic", "qdrant">>] = sync[<<"semantic", "qdrant">>]
BY DEF SyncShape, UpdateChunkIndexStatus, Tiers, Engines

LEMMA PendingFacts ==
    ASSUME sync = Pending
    PROVE  SyncShape
BY DEF SyncShape, Pending, Tiers, Engines, SyncStatuses

\* Where indexer's process is, an engine holds nothing of an earlier run.
OneRunInv ==
    /\ OneRunIndexed
    /\ hand["index"].pc \in {"deleteLexical", "embed"} => vectors = {}
    /\ hand["index"].pc \in {"embed", "vectorsSynced", "indexLexical"} => lexical = {}

\* What the steps of a handler do to its place.
LEMMA GotoFacts ==
    ASSUME QueueTypes, NEW q \in Queues, NEW p \in HandPcs, Goto(q, p)
    PROVE  /\ hand' \in [Queues -> [pc : HandPcs, run : Nat]]
           /\ hand'[q].pc = p /\ hand'[q].run = hand[q].run
           /\ \A o \in Queues : o # q => hand'[o] = hand[o]
BY DEF QueueTypes, Goto

\* A handler that is gone.
LEMMA GoneFacts ==
    ASSUME QueueTypes, NEW q \in Queues, hand' = [hand EXCEPT ![q] = NoHandler]
    PROVE  /\ hand' \in [Queues -> [pc : HandPcs, run : Nat]]
           /\ hand'[q].pc = "idle"
           /\ \A o \in Queues : o # q => hand'[o] = hand[o]
BY DEF QueueTypes, NoHandler, HandPcs

\* The status of the book changes, and nothing else of its row.
LEMMA SetStatusFacts ==
    ASSUME book \in Row, NEW s \in {"absent"} \cup Working \cup Settled, SetStatus(s)
    PROVE  /\ book' \in Row /\ book'.status = s
           /\ book'.gen = book.gen /\ book'.deleted = book.deleted
BY DEF Row, SetStatus

\* A fault of the environment.
LEMMA FaultFacts ==
    ASSUME QueueTypes, NEW kind, Fault(kind)
    PROVE  kind \in env.faults /\ nfaults' = nfaults + 1 /\ nfaults' \in 0..MaxFaults
BY PipelineAssumption DEF QueueTypes, Fault

\* A call of Enqueue: the active job stays, or a new one has the caller's generation.
LEMMA AcceptFacts ==
    ASSUME QueueTypes, BookTypes, NEW q \in Queues, NEW g \in Nat, job' = Accept(q, g)
    PROVE  /\ job' \in [Queues -> [active : BOOLEAN, gen : Nat, attempts : Nat]]
           /\ \A o \in Queues : o # q => job'[o] = job[o]
           /\ job'[q].active
           /\ job[q].active => job' = job
           /\ ~ job[q].active => job'[q].gen = g /\ job'[q].attempts = 0
BY DEF QueueTypes, Accept

\* What the environment allows.
LEMMA EnvFacts ==
    ASSUME BookTypes
    PROVE  env.retries \in Nat \ {0} /\ env.operations \subseteq {"update", "reprocess", "delete"} /\ env.msgs \subseteq Msgs
BY PipelineAssumption DEF BookTypes

\* The queues after a step that is no step of theirs.
LEMMA QueuesStay ==
    ASSUME QueueTypes, BookTypes, UNCHANGED <<job, hand, env>>, nfaults' \in 0..MaxFaults, nfaults <= nfaults'
    PROVE  QueueTypes'
<1>1. ASSUME NEW o \in Queues PROVE HasAttempt(o)'
  <2>1. HasAttempt(o) /\ job[o].attempts \in Nat /\ nfaults \in 0..MaxFaults /\ env.retries \in Nat
    BY EnvFacts DEF QueueTypes
  <2> QED BY <2>1 DEF HasAttempt
<1> QED BY <1>1 DEF QueueTypes

\* The handler goes on with its job.
LEMMA GoesOn ==
    ASSUME QueueTypes, BookTypes, UNCHANGED <<job, env>>, nfaults' \in 0..MaxFaults, nfaults <= nfaults',
           NEW q \in Queues, hand[q].pc # "idle", hand'[q].pc # "idle",
           hand' \in [Queues -> [pc : HandPcs, run : Nat]], \A o \in Queues : o # q => hand'[o] = hand[o]
    PROVE  QueueTypes'
<1>1. ASSUME NEW o \in Queues PROVE HasAttempt(o)'
  <2>1. HasAttempt(o) /\ job[o].attempts \in Nat /\ nfaults \in 0..MaxFaults /\ env.retries \in Nat
    BY EnvFacts DEF QueueTypes
  <2> QED BY <2>1 DEF HasAttempt
<1> QED BY <1>1 DEF QueueTypes

\* Every step keeps the types of the queues; the attempts of a job are bounded.
LEMMA QueueTypesStep ==
    ASSUME QueueTypes, BookTypes, IndexTypes, [Next]_vars
    PROVE  QueueTypes'
<1>1. /\ nfaults \in Nat /\ nfaults <= nfaults /\ nfaults \in 0..MaxFaults /\ nfaults <= nfaults + 1
      /\ env.retries \in Nat \ {0}
      /\ "ingest" \in Queues /\ "index" \in Queues
      /\ \A q \in Queues : HasAttempt(q) /\ job[q].attempts \in Nat
  BY EnvFacts DEF QueueTypes, Queues
<1>f. ASSUME NEW kind, Fault(kind) PROVE nfaults' \in 0..MaxFaults /\ nfaults <= nfaults'
  BY <1>1, <1>f, FaultFacts
<1>2. ASSUME UNCHANGED <<job, hand, env>>, UNCHANGED nfaults \/ \E kind : Fault(kind) PROVE QueueTypes'
  BY <1>1, <1>2, <1>f, QueuesStay
<1>3. ASSUME NEW q \in Queues, NEW p \in HandPcs \ {"idle"}, hand[q].pc # "idle", Goto(q, p), UNCHANGED <<job, env>>,
             UNCHANGED nfaults \/ \E kind : Fault(kind)
      PROVE  QueueTypes'
  <2>1. nfaults' \in 0..MaxFaults /\ nfaults <= nfaults'
    BY <1>1, <1>3, <1>f
  <2>2. /\ hand' \in [Queues -> [pc : HandPcs, run : Nat]] /\ hand'[q].pc # "idle"
        /\ \A o \in Queues : o # q => hand'[o] = hand[o]
    BY <1>3, GotoFacts
  <2> QED BY <1>3, <2>1, <2>2, GoesOn
\* A job is accepted; its handler does not stand where a new job would have it run.
<1>4. ASSUME NEW q \in Queues, NEW g \in Nat, job' = Accept(q, g), UNCHANGED env,
             UNCHANGED nfaults \/ \E kind : Fault(kind),
             hand' \in [Queues -> [pc : HandPcs, run : Nat]],
             \A o \in Queues : (hand'[o].pc = "idle") = (hand[o].pc = "idle")
      PROVE  QueueTypes'
  <2>1. nfaults' \in 0..MaxFaults /\ nfaults <= nfaults'
    BY <1>1, <1>4, <1>f
  <2>2. /\ job' \in [Queues -> [active : BOOLEAN, gen : Nat, attempts : Nat]]
        /\ \A o \in Queues : o # q => job'[o] = job[o]
        /\ job'[q].active
        /\ job[q].active => job' = job
        /\ ~ job[q].active => job'[q].gen = g /\ job'[q].attempts = 0
    BY <1>4, AcceptFacts
  <2>3. ASSUME NEW o \in Queues PROVE (hand'[o].pc # "idle" => job'[o].active) /\ HasAttempt(o)'
    <3>1. HasAttempt(o) /\ job[o].attempts \in Nat /\ nfaults \in Nat /\ env.retries \in Nat \ {0} /\ nfaults' \in Nat
      BY <1>1, <2>1
    <3>2. job'[o] = job[o] \/ job'[o].attempts = 0
      BY <2>2
    <3>3. hand'[o].pc # "idle" => job'[o].active
      BY <1>4, <2>2 DEF QueueTypes
    <3> QED BY <1>4, <2>1, <3>1, <3>2, <3>3 DEF HasAttempt
  <2> QED BY <2>1, <2>2, <2>3, <1>4 DEF QueueTypes
<1>5. ASSUME NEW q \in Queues, Deliver(q), UNCHANGED env PROVE QueueTypes'
  <2>1. /\ job' = [job EXCEPT ![q].attempts = @ + 1] /\ job[q].active /\ hand[q].pc = "idle"
        /\ Goto(q, "begin") /\ UNCHANGED nfaults
    BY <1>5 DEF Deliver
  <2>2. /\ hand' \in [Queues -> [pc : HandPcs, run : Nat]] /\ hand'[q].pc = "begin"
        /\ \A o \in Queues : o # q => hand'[o] = hand[o]
    BY <2>1, GotoFacts DEF HandPcs, CallPcs
  <2>3. /\ job' \in [Queues -> [active : BOOLEAN, gen : Nat, attempts : Nat]]
        /\ job'[q].active /\ job'[q].attempts = job[q].attempts + 1
        /\ \A o \in Queues : o # q => job'[o] = job[o]
    BY <2>1 DEF QueueTypes
  <2>4. ASSUME NEW o \in Queues PROVE (hand'[o].pc # "idle" => job'[o].active) /\ HasAttempt(o)'
    <3>1. CASE o = q
      BY <1>1, <1>5, <2>1, <2>2, <2>3, <3>1 DEF HasAttempt
    <3>2. CASE o # q
      BY <1>1, <1>5, <2>1, <2>2, <2>3, <3>2 DEF HasAttempt, QueueTypes
    <3> QED BY <3>1, <3>2
  <2> QED BY <1>1, <2>1, <2>2, <2>3, <2>4 DEF QueueTypes
\* The handler is gone: its job has ended, or waits with an attempt left.
<1>6. ASSUME NEW q \in Queues, hand' = [hand EXCEPT ![q] = NoHandler], UNCHANGED env,
             \/ job' = [job EXCEPT ![q] = NoActiveJob] /\ UNCHANGED nfaults
             \/ job' = job /\ UNCHANGED nfaults /\ job[q].attempts < env.retries
             \/ job' = job /\ \E kind : Fault(kind)
      PROVE  QueueTypes'
  <2>1. nfaults' \in 0..MaxFaults /\ nfaults <= nfaults'
    BY <1>1, <1>6, <1>f
  <2>2. /\ hand' \in [Queues -> [pc : HandPcs, run : Nat]] /\ hand'[q].pc = "idle"
        /\ \A o \in Queues : o # q => hand'[o] = hand[o]
    BY <1>6, GoneFacts
  <2>3. /\ job' \in [Queues -> [active : BOOLEAN, gen : Nat, attempts : Nat]]
        /\ \A o \in Queues : o # q => job'[o] = job[o]
        /\ \/ job'[q].attempts = 0
           \/ job'[q].attempts = job[q].attempts /\ (job[q].attempts < env.retries \/ nfaults' = nfaults + 1)
    <3>1. CASE job' = [job EXCEPT ![q] = NoActiveJob]
      BY <3>1 DEF QueueTypes, NoActiveJob
    <3>2. CASE job' = job /\ job[q].attempts < env.retries
      BY <3>2 DEF QueueTypes
    <3>3. CASE job' = job /\ \E kind : Fault(kind)
      BY <3>3, FaultFacts DEF QueueTypes
    <3> QED BY <1>6, <3>1, <3>2, <3>3
  <2>4. ASSUME NEW o \in Queues PROVE (hand'[o].pc # "idle" => job'[o].active) /\ HasAttempt(o)'
    <3>0. HasAttempt(o) /\ job[o].attempts \in Nat /\ nfaults \in Nat /\ env.retries \in Nat \ {0} /\ nfaults' \in Nat
      BY <1>1, <2>1
    <3>1. CASE o = q
      <4>1. hand'[o].pc = "idle" /\ env' = env
        BY <1>6, <2>2, <3>1
      <4>2. CASE job'[q].attempts = 0
        <5>1. 0 < env.retries + nfaults' /\ 0 <= env.retries + nfaults'
          BY <3>0
        <5> QED BY <3>1, <4>1, <4>2, <5>1 DEF HasAttempt
      <4>3. CASE /\ job'[q].attempts = job[q].attempts
                 /\ job[q].attempts < env.retries \/ nfaults' = nfaults + 1
        <5>1. job[q].attempts <= env.retries + nfaults
          BY <3>0, <3>1 DEF HasAttempt
        <5>2. job[q].attempts < env.retries + nfaults' /\ job[q].attempts <= env.retries + nfaults'
          BY <3>0, <3>1, <4>3, <5>1
        <5> QED BY <3>1, <4>1, <4>3, <5>2 DEF HasAttempt
      <4> QED BY <2>3, <4>2, <4>3
    <3>2. CASE o # q
      BY <1>6, <2>1, <2>2, <2>3, <3>0, <3>2 DEF HasAttempt, QueueTypes
    <3> QED BY <3>1, <3>2
  <2> QED BY <2>1, <2>2, <2>3, <2>4 DEF QueueTypes
<1>7. ASSUME UploadBook \/ DeleteBook \/ (\E r \in Requests : RequestStep(r)), UNCHANGED env PROVE QueueTypes'
  BY <1>2, <1>7 DEF UploadBook, DeleteBook, RequestStep, UpdateBookRead, UpdateBookSave, ReprocessBookRead,
     ReprocessBookSave, GetBook, queueVars
<1>8. ASSUME NEW m \in Msgs, LeaseExpires(m), UNCHANGED env PROVE QueueTypes'
  BY <1>2, <1>8 DEF LeaseExpires, queueVars
<1>9. ASSUME NEW d \in Dispatchers, NEW m \in Msgs, DispatchEnqueue(d, m) \/ DispatchEnqueueFails(d, m), UNCHANGED env
      PROVE  QueueTypes'
  <2>1. hand' = hand /\ (UNCHANGED nfaults \/ \E kind : Fault(kind))
    BY <1>9 DEF DispatchEnqueue, DispatchEnqueueFails, DispatchTo
  <2>2. PICK g \in Nat : g = outbox[m].gen
    BY DEF BookTypes
  <2>3. job' = job \/ job' = Accept("ingest", g)
    BY <1>9, <2>2 DEF DispatchEnqueue, DispatchEnqueueFails, Enqueue
  <2>4. hand' \in [Queues -> [pc : HandPcs, run : Nat]]
    BY <2>1 DEF QueueTypes
  <2> QED BY <1>1, <1>2, <1>4, <1>9, <2>1, <2>3, <2>4
<1>10. ASSUME NEW d \in Dispatchers,
              ClaimOutboxMessages(d) \/ MarkOutboxDispatched(d) \/ ReleaseOutboxMessage(d) \/ DispatcherDies(d), UNCHANGED env
       PROVE  QueueTypes'
  BY <1>2, <1>10 DEF ClaimOutboxMessages, MarkOutboxDispatched, ReleaseOutboxMessage, DispatcherDies, queueVars
<1>11. ASSUME NEW q \in Queues, Finish(q) \/ ReturnError(q) \/ WorkerCrash(q), UNCHANGED env PROVE QueueTypes'
  <2>1. CASE ReturnError(q) /\ ~ job[q].attempts >= env.retries
    <3>1. job[q].attempts < env.retries
      BY <1>1, <2>1
    <3> QED BY <1>6, <1>11, <2>1, <3>1 DEF ReturnError
  <2>2. CASE ReturnError(q) /\ job[q].attempts >= env.retries
    BY <1>6, <1>11, <2>2 DEF ReturnError
  <2>3. CASE Finish(q)
    BY <1>6, <1>11, <2>3 DEF Finish
  <2>4. CASE WorkerCrash(q)
    BY <1>6, <1>11, <2>4 DEF WorkerCrash
  <2> QED BY <1>11, <2>1, <2>2, <2>3, <2>4
<1>12. ASSUME NEW q \in Queues, HandlerError(q) \/ ReportFailure(q), UNCHANGED env PROVE QueueTypes'
  BY <1>3, <1>12 DEF HandlerError, ReportFailure, HandPcs, CallPcs
<1>13. ASSUME IngestBegin \/ IngestParse \/ IngestReplaceChunks, UNCHANGED env PROVE QueueTypes'
  BY <1>1, <1>3, <1>13 DEF IngestBegin, Begin, IngestParse, IngestReplaceChunks, HandPcs, CallPcs
<1>14. ASSUME IngestEnqueueIndex \/ IngestEnqueueFails, UNCHANGED env PROVE QueueTypes'
  <2>1. PICK p \in HandPcs \ {"idle"} : Goto("ingest", p)
    BY <1>14 DEF IngestEnqueueIndex, IngestEnqueueFails, HandPcs, CallPcs
  <2>2. hand["ingest"].pc # "idle" /\ (UNCHANGED nfaults \/ \E kind : Fault(kind))
    BY <1>14 DEF IngestEnqueueIndex, IngestEnqueueFails
  <2>3. PICK g \in Nat : g = job["ingest"].gen
    BY <1>1 DEF QueueTypes
  <2>4. job' = job \/ job' = Accept("index", g)
    BY <1>14, <2>3 DEF IngestEnqueueIndex, IngestEnqueueFails, Enqueue
  <2>5. /\ hand' \in [Queues -> [pc : HandPcs, run : Nat]]
        /\ \A o \in Queues : (hand'[o].pc = "idle") = (hand[o].pc = "idle")
    BY <1>1, <2>1, <2>2, GotoFacts
  <2> QED BY <1>1, <1>3, <1>4, <1>14, <2>1, <2>2, <2>4, <2>5
<1>15. ASSUME IndexerStep, UNCHANGED env PROVE QueueTypes'
  <2>1. CASE IndexListChunks
    <3>1. /\ hand' = [hand EXCEPT !["index"] = [pc |-> IF chunks = 0 THEN "fail" ELSE "deleteVectors", run |-> chunks]]
          /\ hand["index"].pc = "list" /\ UNCHANGED <<job, nfaults>>
      BY <2>1 DEF IndexListChunks
    <3>2. /\ hand' \in [Queues -> [pc : HandPcs, run : Nat]] /\ hand'["index"].pc # "idle"
          /\ \A o \in Queues : o # "index" => hand'[o] = hand[o]
      BY <3>1 DEF QueueTypes, IndexTypes, HandPcs, CallPcs, Queues
    <3> QED BY <1>1, <1>15, <3>1, <3>2, GoesOn
  <2>2. ASSUME NEW from, NEW to \in HandPcs \ {"idle"}, from # "idle", IndexStep(from, to) PROVE QueueTypes'
    BY <1>1, <1>3, <1>15, <2>2 DEF IndexStep
  <2>3. CASE \/ IndexDeleteVectors \/ IndexDeleteLexical \/ IndexEmbedAndStore \/ IndexEmbedFails \/ IndexVectorsSynced
             \/ IndexLexical \/ IndexLexicalFails \/ IndexLexicalSynced
    BY <2>2, <2>3 DEF IndexDeleteVectors, IndexDeleteLexical, IndexEmbedAndStore, IndexEmbedFails, IndexVectorsSynced,
       IndexLexical, IndexLexicalFails, IndexLexicalSynced, HandPcs, CallPcs
  <2>4. CASE IndexBegin \/ IndexReady
    BY <1>1, <1>3, <1>15, <2>4 DEF IndexBegin, Begin, IndexReady, HandPcs, CallPcs
  <2> QED BY <1>1, <1>5, <1>11, <1>12, <1>15, <2>1, <2>3, <2>4 DEF IndexerStep
<1>16. ASSUME IngestStep, UNCHANGED env PROVE QueueTypes'
  BY <1>1, <1>5, <1>11, <1>12, <1>13, <1>14, <1>16 DEF IngestStep
<1>17. CASE UNCHANGED vars
  BY <1>2, <1>17 DEF vars, queueVars
<1> QED
  BY <1>7, <1>8, <1>9, <1>10, <1>11, <1>14, <1>15, <1>16, <1>17
  DEF Next, DispatchStep, DispatchFault, HandlerFault

\* Every step keeps the types of the rows and of the requests.
LEMMA BookTypesStep ==
    ASSUME BookTypes, [Next]_vars
    PROVE  BookTypes'
<1> DEFINE Outboxes == [Msgs -> [gen : Nat, state : {"absent", "unsent", "sent"}, lock : {"free", "held", "expired"}]]
<1>1. book \in Row /\ outbox \in Outboxes /\ env \in Environments
      /\ req \in [Requests -> [op : {"none", "update", "reprocess"}, row : Row]]
  BY DEF BookTypes
<1>2. ASSUME UNCHANGED <<outbox, req, env>>, UNCHANGED book \/ \E s \in Working \cup Settled : SetStatus(s) PROVE BookTypes'
  BY <1>1, <1>2, SetStatusFacts DEF BookTypes
<1>3. ASSUME NEW row \in Row, SaveBookAndOutbox(row) PROVE book' \in Row /\ outbox' \in Outboxes
  <2>1. PICK m \in Msgs : outbox' = [outbox EXCEPT ![m] = [gen |-> row.gen, state |-> "unsent", lock |-> "free"]]
    BY <1>3, PipelineAssumption, EnvFacts DEF SaveBookAndOutbox
  <2>2. PICK x : x = [gen |-> row.gen, state |-> "unsent", lock |-> "free"]
    OBVIOUS
  <2>3. x \in [gen : Nat, state : {"absent", "unsent", "sent"}, lock : {"free", "held", "expired"}]
    BY <2>2 DEF Row
  <2>4. outbox' \in Outboxes
    BY <1>1, <2>1, <2>2, <2>3
  <2> QED BY <1>3, <2>4 DEF SaveBookAndOutbox
<1>4. ASSUME UploadBook, UNCHANGED env PROVE BookTypes'
  <2>1. [status |-> "queued", gen |-> 1, deleted |-> FALSE] \in Row
    BY DEF Row
  <2> QED BY <1>1, <1>3, <1>4, <2>1 DEF UploadBook, BookTypes
<1>5. ASSUME DeleteBook, UNCHANGED env PROVE BookTypes'
  <2>1. book' \in Row
    BY <1>1, <1>5 DEF DeleteBook, Row
  <2> QED BY <1>1, <1>5, <2>1 DEF DeleteBook, BookTypes, outboxVars
<1>6. ASSUME NEW r \in Requests, RequestStep(r), UNCHANGED env PROVE BookTypes'
  <2>1. CASE UpdateBookRead(r) \/ ReprocessBookRead(r)
    <3>1. PICK op \in {"update", "reprocess"} : GetBook(r, op)
      BY <2>1 DEF UpdateBookRead, ReprocessBookRead
    <3>2. [op |-> op, row |-> book] \in [op : {"none", "update", "reprocess"}, row : Row]
      BY <1>1
    <3>3. req' \in [Requests -> [op : {"none", "update", "reprocess"}, row : Row]] /\ UNCHANGED <<book, outbox>>
      BY <1>1, <3>1, <3>2 DEF GetBook, outboxVars
    <3> QED BY <1>1, <1>6, <3>3 DEF BookTypes
  <2>2. NoRequest \in [op : {"none", "update", "reprocess"}, row : Row]
    BY DEF NoRequest, NoBook, Row
  <2>3. CASE UpdateBookSave(r)
    BY <1>1, <1>6, <2>2, <2>3 DEF UpdateBookSave, BookTypes, outboxVars
  <2>4. CASE ReprocessBookSave(r)
    <3>1. PICK row : row = [req[r].row EXCEPT !.status = "queued", !.gen = @ + 1]
      OBVIOUS
    <3>0. PICK old \in Row : old = req[r].row
      BY <1>1
    <3>2. row \in Row
      <4>1. row = [[old EXCEPT !.status = "queued"] EXCEPT !.gen = @ + 1]
        BY <3>0, <3>1
      <4>2. PICK mid : mid = [old EXCEPT !.status = "queued"]
        OBVIOUS
      <4>3. mid \in Row
        BY <4>2 DEF Row
      <4>4. row = [mid EXCEPT !.gen = mid.gen + 1]
        BY <4>1, <4>2
      <4> QED BY <4>3, <4>4 DEF Row
    <3>3. SaveBookAndOutbox(row) /\ req' = [req EXCEPT ![r] = NoRequest]
      BY <2>4, <3>1 DEF ReprocessBookSave
    <3> QED BY <1>1, <1>3, <1>6, <2>2, <3>2, <3>3 DEF BookTypes
  <2> QED BY <1>6, <2>1, <2>3, <2>4 DEF RequestStep
<1>7. ASSUME UNCHANGED <<book, req, env>>, outbox' \in Outboxes PROVE BookTypes'
  BY <1>1, <1>7 DEF BookTypes
<1>8. ASSUME NEW m \in Msgs, LeaseExpires(m), UNCHANGED env PROVE BookTypes'
  <2>1. outbox' \in Outboxes
    BY <1>1, <1>8 DEF LeaseExpires
  <2> QED BY <1>7, <1>8, <2>1 DEF LeaseExpires, bookVars
<1>9. ASSUME NEW d \in Dispatchers, DispatchStep(d) \/ DispatchFault(d), UNCHANGED env PROVE BookTypes'
  <2>1. UNCHANGED <<book, req>>
    BY <1>9 DEF DispatchStep, DispatchFault, ClaimOutboxMessages, DispatchEnqueue, DispatchEnqueueFails, DispatchTo,
       MarkOutboxDispatched, ReleaseOutboxMessage, DispatcherDies, bookVars
  <2>2. \/ outbox' = outbox
        \/ \E s \in SUBSET Msgs : outbox' = [m \in Msgs |-> IF m \in s THEN [outbox[m] EXCEPT !.lock = "held"] ELSE outbox[m]]
        \/ \E s : outbox' = [m \in Msgs |-> IF m \in s THEN [outbox[m] EXCEPT !.lock = "free"] ELSE outbox[m]]
        \/ \E s : outbox' = [m \in Msgs |-> IF m \in s THEN [outbox[m] EXCEPT !.state = "sent", !.lock = "free"] ELSE outbox[m]]
    BY <1>9 DEF DispatchStep, DispatchFault, ClaimOutboxMessages, DispatchEnqueue, DispatchEnqueueFails, DispatchTo,
       MarkOutboxDispatched, ReleaseOutboxMessage, DispatcherDies
  <2>3. outbox' \in Outboxes
    <3>1. ASSUME NEW m \in Msgs
          PROVE  /\ outbox[m] \in [gen : Nat, state : {"absent", "unsent", "sent"}, lock : {"free", "held", "expired"}]
                 /\ [outbox[m] EXCEPT !.lock = "held"] \in [gen : Nat, state : {"absent", "unsent", "sent"}, lock : {"free", "held", "expired"}]
                 /\ [outbox[m] EXCEPT !.lock = "free"] \in [gen : Nat, state : {"absent", "unsent", "sent"}, lock : {"free", "held", "expired"}]
                 /\ [outbox[m] EXCEPT !.state = "sent", !.lock = "free"] \in [gen : Nat, state : {"absent", "unsent", "sent"}, lock : {"free", "held", "expired"}]
      BY <1>1
    <3>2. CASE \E s : outbox' = [m \in Msgs |-> IF m \in s THEN [outbox[m] EXCEPT !.lock = "held"] ELSE outbox[m]]
      BY <3>1, <3>2, ZenonT(30)
    <3>3. CASE \E s : outbox' = [m \in Msgs |-> IF m \in s THEN [outbox[m] EXCEPT !.lock = "free"] ELSE outbox[m]]
      BY <3>1, <3>3, ZenonT(30)
    <3>4. CASE \E s : outbox' = [m \in Msgs |-> IF m \in s THEN [outbox[m] EXCEPT !.state = "sent", !.lock = "free"] ELSE outbox[m]]
      BY <3>1, <3>4, ZenonT(30)
    <3> QED BY <1>1, <2>2, <3>2, <3>3, <3>4
  <2> QED BY <1>7, <1>9, <2>1, <2>3
<1>10. ASSUME NEW q \in Queues, Deliver(q) \/ Finish(q) \/ ReturnError(q) \/ WorkerCrash(q) \/ HandlerError(q) \/ ReportFailure(q),
              UNCHANGED env
       PROVE  BookTypes'
  BY <1>2, <1>10 DEF Deliver, Finish, ReturnError, WorkerCrash, HandlerError, ReportFailure, bookVars, outboxVars
<1>11. ASSUME IngestStep \/ IndexerStep \/ HandlerFault, UNCHANGED env PROVE BookTypes'
  <2>1. CASE IngestBegin \/ IndexBegin \/ IndexReady
    BY <1>2, <1>11, <2>1 DEF IngestBegin, IndexBegin, IndexReady, Begin, outboxVars
  <2>2. CASE IngestParse \/ IngestReplaceChunks \/ IngestEnqueueIndex \/ IngestEnqueueFails \/ IndexListChunks
    BY <1>2, <1>11, <2>2 DEF IngestParse, IngestReplaceChunks, IngestEnqueueIndex, IngestEnqueueFails, IndexListChunks, bookVars, outboxVars
  <2>3. CASE \/ IndexDeleteVectors \/ IndexDeleteLexical \/ IndexEmbedAndStore \/ IndexEmbedFails \/ IndexVectorsSynced
             \/ IndexLexical \/ IndexLexicalFails \/ IndexLexicalSynced
    BY <1>2, <1>11, <2>3 DEF IndexDeleteVectors, IndexDeleteLexical, IndexEmbedAndStore, IndexEmbedFails, IndexVectorsSynced,
       IndexLexical, IndexLexicalFails, IndexLexicalSynced, IndexStep, bookVars, outboxVars
  <2> QED BY <1>10, <1>11, <2>1, <2>2, <2>3 DEF IngestStep, IndexerStep, HandlerFault, Queues
<1>12. CASE UNCHANGED vars
  BY <1>2, <1>12 DEF vars, bookVars, outboxVars
<1> QED
  BY <1>4, <1>5, <1>6, <1>8, <1>9, <1>11, <1>12 DEF Next

\* A dispatcher is done with the message in hand.
LEMMA AdvanceFacts ==
    ASSUME DispTypes, NEW d \in Dispatchers, Advance(d)
    PROVE  /\ disp' \in [Dispatchers -> [pc : {"idle", "enqueue", "mark", "release"}, batch : SUBSET Msgs, msg : SUBSET Msgs]]
           /\ disp'[d].pc \in {"idle", "enqueue"} /\ disp'[d].msg = {}
           /\ disp'[d].batch = disp[d].batch \ disp[d].msg
           /\ \A c \in Dispatchers : c # d => disp'[c] = disp[c]
BY DEF DispTypes, Advance, NoBatch

\* Every step keeps the types of the dispatchers.
LEMMA DispTypesStep ==
    ASSUME DispTypes, [Next]_vars
    PROVE  DispTypes'
<1>1. ASSUME UNCHANGED disp PROVE DispTypes'
  BY <1>1 DEF DispTypes
<1>2. ASSUME NEW d \in Dispatchers, ClaimOutboxMessages(d) PROVE DispTypes'
  BY <1>2 DEF ClaimOutboxMessages, DispTypes
<1>3. ASSUME NEW d \in Dispatchers, NEW m \in Msgs, NEW pc \in {"mark", "release"}, DispatchTo(d, m, pc) PROVE DispTypes'
  <2>1. disp' = [disp EXCEPT ![d].pc = pc, ![d].msg = {m}] /\ m \in disp[d].batch
    BY <1>3 DEF DispatchTo
  <2>2. /\ disp' \in [Dispatchers -> [pc : {"idle", "enqueue", "mark", "release"}, batch : SUBSET Msgs, msg : SUBSET Msgs]]
        /\ disp'[d].pc = pc /\ disp'[d].msg = {m} /\ disp'[d].batch = disp[d].batch
        /\ \A c \in Dispatchers : c # d => disp'[c] = disp[c]
    BY <2>1 DEF DispTypes
  <2> QED BY <2>1, <2>2 DEF DispTypes
<1>4. ASSUME NEW d \in Dispatchers, Advance(d) PROVE DispTypes'
  <2>1. /\ disp' \in [Dispatchers -> [pc : {"idle", "enqueue", "mark", "release"}, batch : SUBSET Msgs, msg : SUBSET Msgs]]
        /\ disp'[d].pc \in {"idle", "enqueue"} /\ disp'[d].msg = {}
        /\ \A c \in Dispatchers : c # d => disp'[c] = disp[c]
    BY <1>4, AdvanceFacts
  <2> QED BY <2>1 DEF DispTypes
<1>5. ASSUME NEW d \in Dispatchers, disp' = [disp EXCEPT ![d] = NoBatch] PROVE DispTypes'
  BY <1>5 DEF DispTypes, NoBatch
<1>6. ASSUME NEW d \in Dispatchers, DispatchStep(d) \/ DispatchFault(d) PROVE DispTypes'
  BY <1>2, <1>3, <1>4, <1>5, <1>6 DEF DispatchStep, DispatchFault, DispatchEnqueue, DispatchEnqueueFails,
     MarkOutboxDispatched, ReleaseOutboxMessage, DispatcherDies
<1>7. ASSUME UploadBook \/ DeleteBook \/ (\E r \in Requests : RequestStep(r)) \/ (\E m \in Msgs : LeaseExpires(m)) PROVE disp' = disp
  BY <1>7 DEF UploadBook, DeleteBook, RequestStep, UpdateBookRead, UpdateBookSave, ReprocessBookRead, ReprocessBookSave,
     GetBook, LeaseExpires, outboxVars
<1>8. ASSUME IngestStep \/ HandlerFault PROVE disp' = disp
  BY <1>8 DEF IngestStep, HandlerFault, Deliver, Finish, ReturnError, WorkerCrash, HandlerError, ReportFailure,
     IngestBegin, Begin, IngestParse, IngestReplaceChunks, IngestEnqueueIndex, IngestEnqueueFails, outboxVars
<1>9. ASSUME IndexerStep PROVE disp' = disp
  BY <1>9 DEF IndexerStep, Deliver, Finish, ReturnError, HandlerError, ReportFailure, IndexBegin, Begin, IndexListChunks,
     IndexDeleteVectors, IndexDeleteLexical, IndexEmbedAndStore, IndexEmbedFails, IndexVectorsSynced,
     IndexLexical, IndexLexicalFails, IndexLexicalSynced, IndexReady, IndexStep, outboxVars
<1>10. CASE UNCHANGED vars
  BY <1>1, <1>10 DEF vars, outboxVars
<1> QED
  BY <1>1, <1>6, <1>7, <1>8, <1>9, <1>10 DEF Next

\* A run number is always free: Postgres, indexer's process and the two engines name four at most.
LEMMA NewRunType ==
    ASSUME QueueTypes, IndexTypes, OneRunIndexed
    PROVE  NewRun \in Nat
<1> DEFINE used == {chunks, hand["index"].run} \cup {b[1] : b \in vectors \cup lexical}
           Free(n) == n \notin used /\ \A k \in 1..(n - 1) : k \in used
<1>1. chunks \in Nat /\ hand["index"].run \in Nat
  BY DEF QueueTypes, IndexTypes, Queues
<1>2. PICK v \in Nat : \A b \in vectors : b[1] = v
  <2>1. CASE vectors = {}
    BY <2>1
  <2>2. CASE vectors # {}
    <3>1. PICK b \in vectors : TRUE
      BY <2>2
    <3>2. b[1] \in Nat
      BY <3>1 DEF IndexTypes
    <3> QED BY <3>1, <3>2 DEF OneRunIndexed
  <2> QED BY <2>1, <2>2
<1>3. PICK x \in Nat : \A b \in lexical : b[1] = x
  <2>1. CASE lexical = {}
    BY <2>1
  <2>2. CASE lexical # {}
    <3>1. PICK b \in lexical : TRUE
      BY <2>2
    <3>2. b[1] \in Nat
      BY <3>1 DEF IndexTypes
    <3> QED BY <3>1, <3>2 DEF OneRunIndexed
  <2> QED BY <2>1, <2>2
<1>4. PICK a \in Nat : a = chunks
  BY <1>1
<1>5. PICK r \in Nat : r = hand["index"].run
  BY <1>1
<1>6. used \subseteq {a, r, v, x}
  BY <1>2, <1>3, <1>4, <1>5
<1>7. \E n \in 1..5 : Free(n)
  <2> HIDE DEF used
  <2>1. \E n \in 1..5 : n \notin {a, r, v, x}
    OBVIOUS
  <2>2. 1 \notin used \/ 2 \notin used \/ 3 \notin used \/ 4 \notin used \/ 5 \notin used
    BY <1>6, <2>1
  <2> QED BY <2>2
<1>8. NewRun = CHOOSE n \in 1..5 : Free(n)
  BY DEF NewRun
<1> HIDE DEF Free
<1>9. NewRun \in 1..5
  BY <1>7, <1>8
<1> QED BY <1>9

\* Every step keeps the types of the chunks and of what the engines hold, and no engine mixes
\* two runs.
LEMMA OneRunStep ==
    ASSUME QueueTypes, IndexTypes, OneRunInv, [Next]_vars
    PROVE  IndexTypes' /\ OneRunInv'
<1> DEFINE Goal == IndexTypes' /\ OneRunInv'
           Early == {"deleteLexical", "embed", "vectorsSynced", "indexLexical"}
<1>1. /\ "index" \in Queues /\ "ingest" \in Queues /\ run \in Nat
      /\ chunks \in Nat /\ SyncShape /\ (sync' = sync => SyncShape')
      /\ vectors \subseteq Nat \X Tiers \X {1, 2} /\ lexical \subseteq Nat \X Tiers \X {1, 2}
  BY DEF QueueTypes, IndexTypes, SyncShape, Queues, run
<1>2. ASSUME UNCHANGED <<vectors, lexical>>, chunks' \in Nat, SyncShape',
             hand'["index"].pc = hand["index"].pc \/ hand'["index"].pc \notin Early
      PROVE  Goal
  BY <1>1, <1>2 DEF IndexTypes, OneRunInv, OneRunIndexed
<1>3. ASSUME NEW q \in Queues, NEW p \in HandPcs \ Early, Goto(q, p) \/ hand' = [hand EXCEPT ![q] = NoHandler]
      PROVE  hand'["index"].pc = hand["index"].pc \/ hand'["index"].pc \notin Early
  <2>1. hand'[q].pc \in {p, "idle"} /\ \A o \in Queues : o # q => hand'[o] = hand[o]
    BY <1>3, GotoFacts, GoneFacts
  <2> QED BY <1>1, <2>1
<1>4. ASSUME NEW q \in Queues, NEW p \in HandPcs \ Early, Goto(q, p) \/ hand' = [hand EXCEPT ![q] = NoHandler], UNCHANGED indexVars
      PROVE  Goal
  BY <1>1, <1>2, <1>3, <1>4 DEF indexVars
<1>5. ASSUME UNCHANGED indexVars, UNCHANGED hand PROVE Goal
  BY <1>1, <1>2, <1>5 DEF indexVars
<1>6. ASSUME UploadBook \/ DeleteBook \/ (\E r \in Requests : RequestStep(r)) \/ (\E m \in Msgs : LeaseExpires(m)) PROVE Goal
  BY <1>5, <1>6 DEF UploadBook, DeleteBook, RequestStep, UpdateBookRead, UpdateBookSave, ReprocessBookRead, ReprocessBookSave,
     GetBook, LeaseExpires, queueVars
<1>7. ASSUME NEW d \in Dispatchers, DispatchStep(d) \/ DispatchFault(d) PROVE Goal
  BY <1>5, <1>7 DEF DispatchStep, DispatchFault, ClaimOutboxMessages, DispatchEnqueue, DispatchEnqueueFails, DispatchTo,
     MarkOutboxDispatched, ReleaseOutboxMessage, DispatcherDies, queueVars
<1>8. ASSUME NEW q \in Queues, Deliver(q) \/ Finish(q) \/ ReturnError(q) \/ WorkerCrash(q) \/ HandlerError(q) \/ ReportFailure(q)
      PROVE  Goal
  BY <1>4, <1>8 DEF Deliver, Finish, ReturnError, WorkerCrash, HandlerError, ReportFailure, HandPcs, CallPcs
<1>9. ASSUME IngestBegin \/ IngestParse \/ IngestEnqueueIndex \/ IngestEnqueueFails \/ IndexBegin \/ IndexReady PROVE Goal
  BY <1>1, <1>4, <1>9 DEF IngestBegin, Begin, IngestParse, IngestEnqueueIndex, IngestEnqueueFails, IndexBegin, IndexReady, HandPcs, CallPcs
<1>10. ASSUME IngestReplaceChunks PROVE Goal
  <2>1. chunks' \in Nat
    BY <1>10, NewRunType DEF IngestReplaceChunks, OneRunInv
  <2>2. SyncShape'
    <3>1. sync' = Pending
      BY <1>10 DEF IngestReplaceChunks
    <3> QED BY <3>1 DEF SyncShape, Pending, Tiers, Engines, SyncStatuses
  <2>3. Goto("ingest", "enqueue") /\ UNCHANGED <<vectors, lexical>>
    BY <1>10 DEF IngestReplaceChunks
  <2> QED BY <1>1, <1>2, <1>3, <2>1, <2>2, <2>3 DEF HandPcs
<1>11. ASSUME IndexListChunks PROVE Goal
  <2>1. hand'["index"].pc \notin Early /\ UNCHANGED indexVars
    BY <1>1, <1>11 DEF IndexListChunks, QueueTypes
  <2> QED BY <1>1, <1>2, <2>1 DEF indexVars
\* The steps that write to an engine or to the status rows.
<1>12. ASSUME NEW from, NEW to \in HandPcs, IndexStep(from, to)
       PROVE  hand["index"].pc = from /\ hand'["index"].pc = to /\ chunks' = chunks
  BY <1>1, <1>12, GotoFacts DEF IndexStep
<1>14. ASSUME NEW tier \in Tiers
       PROVE  Batches(tier, run) \subseteq Nat \X Tiers \X {1, 2} /\ \A b \in Batches(tier, run) : b[1] = run
  BY <1>1 DEF Batches
<1>15. ASSUME IndexDeleteVectors \/ IndexDeleteLexical PROVE Goal
  <2>1. CASE IndexDeleteVectors
    <3>1. hand'["index"].pc = "deleteLexical" /\ vectors' = {} /\ UNCHANGED <<chunks, sync, lexical>>
      BY <1>12, <2>1 DEF IndexDeleteVectors, HandPcs, CallPcs
    <3> QED BY <1>1, <3>1 DEF IndexTypes, OneRunInv, OneRunIndexed
  <2>2. CASE IndexDeleteLexical
    <3>1. /\ hand["index"].pc = "deleteLexical" /\ hand'["index"].pc = "embed" /\ lexical' = {}
          /\ UNCHANGED <<chunks, sync, vectors>>
      BY <1>12, <2>2 DEF IndexDeleteLexical, HandPcs, CallPcs
    <3> QED BY <1>1, <3>1 DEF IndexTypes, OneRunInv, OneRunIndexed
  <2> QED BY <1>15, <2>1, <2>2
<1>16. ASSUME IndexEmbedAndStore \/ IndexEmbedFails PROVE Goal
  <2>1. /\ hand["index"].pc = "embed" /\ hand'["index"].pc \in {"vectorsSynced", "fail"} /\ chunks' = chunks /\ lexical' = lexical
        /\ \E stored \in SUBSET Batches("semantic", run) : vectors' = vectors \cup stored
        /\ sync' = sync \/ UpdateChunkIndexStatus("semantic", "qdrant", "failed")
    BY <1>12, <1>16 DEF IndexEmbedAndStore, IndexEmbedFails, HandPcs, CallPcs
  <2>2. SyncShape'
    BY <1>1, <2>1, StatusFacts DEF SyncStatuses
  <2>3. vectors = {} /\ lexical = {}
    BY <2>1 DEF OneRunInv
  <2>4. vectors' \subseteq Batches("semantic", run)
    BY <2>1, <2>3
  <2> QED BY <1>1, <1>14, <2>1, <2>2, <2>3, <2>4 DEF IndexTypes, Tiers, OneRunInv, OneRunIndexed
<1>17. ASSUME IndexVectorsSynced \/ IndexLexicalSynced PROVE Goal
  <2>1. /\ \/ hand["index"].pc = "vectorsSynced" /\ hand'["index"].pc = "indexLexical"
           \/ hand'["index"].pc = "ready"
        /\ UNCHANGED <<chunks, vectors, lexical>>
        /\ UpdateChunkIndexStatus("semantic", "qdrant", "synced") \/ UpdateChunkIndexStatus("lexical", "opensearch", "synced")
    BY <1>12, <1>17 DEF IndexVectorsSynced, IndexLexicalSynced, HandPcs, CallPcs
  <2>2. SyncShape'
    BY <1>1, <2>1, StatusFacts DEF SyncStatuses
  <2> QED BY <1>1, <2>1, <2>2 DEF IndexTypes, OneRunInv, OneRunIndexed
<1>18. ASSUME IndexLexical \/ IndexLexicalFails PROVE Goal
  <2>1. /\ hand["index"].pc = "indexLexical" /\ hand'["index"].pc \in {"lexicalSynced", "fail"} /\ chunks' = chunks /\ vectors' = vectors
        /\ \E stored \in SUBSET Batches("lexical", run) : lexical' = lexical \cup stored
        /\ sync' = sync \/ UpdateChunkIndexStatus("lexical", "opensearch", "failed")
    BY <1>12, <1>18 DEF IndexLexical, IndexLexicalFails, HandPcs, CallPcs
  <2>2. SyncShape'
    BY <1>1, <2>1, StatusFacts DEF SyncStatuses
  <2>3. lexical' \subseteq Batches("lexical", run)
    BY <2>1 DEF OneRunInv
  <2> QED BY <1>1, <1>14, <2>1, <2>2, <2>3 DEF IndexTypes, Tiers, OneRunInv, OneRunIndexed
<1>19. CASE UNCHANGED vars
  BY <1>5, <1>19 DEF vars, queueVars
<1> QED
  BY <1>1, <1>6, <1>7, <1>8, <1>9, <1>10, <1>11, <1>15, <1>16, <1>17, <1>18, <1>19
  DEF Next, IngestStep, IndexerStep, HandlerFault

\* What holds of every reachable state of the pipeline.
PipelineInv == BookTypes /\ DispTypes /\ QueueTypes /\ IndexTypes /\ OneRunInv

LEMMA PipelineInvCorrect == Spec => []PipelineInv
<1>1. Init => PipelineInv
  <2> SUFFICES ASSUME Init PROVE PipelineInv
    OBVIOUS
  <2>1. env.retries \in Nat \ {0} /\ env \in Environments
    BY PipelineAssumption DEF Init
  <2>2. BookTypes
    <3>1. NoBook \in Row
      BY DEF NoBook, Row
    <3> QED BY <3>1 DEF Init, BookTypes, NoRequest
  <2>3. DispTypes
    BY DEF Init, DispTypes, NoBatch
  <2>4. QueueTypes
    BY <2>1, PipelineAssumption DEF Init, QueueTypes, HasAttempt, NoActiveJob, NoHandler, HandPcs
  <2>5. IndexTypes /\ OneRunInv
    <3>1. SyncShape
      BY PendingFacts DEF Init
    <3> QED BY <3>1 DEF Init, IndexTypes, OneRunInv, OneRunIndexed, NoHandler, Queues
  <2> QED BY <2>2, <2>3, <2>4, <2>5 DEF PipelineInv
<1>2. PipelineInv /\ [Next]_vars => PipelineInv'
  BY BookTypesStep, DispTypesStep, QueueTypesStep, OneRunStep DEF PipelineInv
<1> QED BY <1>1, <1>2, PTL DEF Spec

\* Every variable keeps its shape, and a job runs no more often than it may be retried and once
\* for each fault: handleProcessingError gives up by the attempts of the row.
THEOREM TypeCorrect == Spec => []TypeOK
<1>1. PipelineInv => TypeOK
  <2> SUFFICES ASSUME PipelineInv PROVE TypeOK
    OBVIOUS
  <2>1. ASSUME NEW d \in Dispatchers
        PROVE  /\ disp[d].pc \in {"idle", "enqueue", "mark", "release"}
               /\ disp[d].msg \subseteq disp[d].batch
               /\ disp[d].batch \subseteq Msgs
               /\ disp[d].pc \in {"mark", "release"} => Cardinality(disp[d].msg) = 1
    BY FS_Singleton, ZenonT(30) DEF PipelineInv, DispTypes
  <2>2. job \in [Queues -> [active : BOOLEAN, gen : Nat, attempts : 0..(env.retries + MaxFaults)]]
    <3>1. env.retries \in Nat /\ MaxFaults \in Nat
      BY EnvFacts, PipelineAssumption DEF PipelineInv
    <3>2. ASSUME NEW q \in Queues PROVE job[q] \in [active : BOOLEAN, gen : Nat, attempts : 0..(env.retries + MaxFaults)]
      <4>1. HasAttempt(q) /\ nfaults \in 0..MaxFaults /\ job[q] \in [active : BOOLEAN, gen : Nat, attempts : Nat]
        BY DEF PipelineInv, QueueTypes
      <4>2. job[q].attempts \in 0..(env.retries + MaxFaults)
        BY <3>1, <4>1 DEF HasAttempt
      <4> QED BY <4>1, <4>2
    <3> QED BY <3>2 DEF PipelineInv, QueueTypes
  <2>3. sync \in [Tiers \X Engines -> SyncStatuses] /\ vectors \cup lexical \subseteq Nat \X Tiers \X {1, 2}
    BY DEF PipelineInv, IndexTypes, SyncShape
  <2> QED BY <2>1, <2>2, <2>3 DEF PipelineInv, BookTypes, QueueTypes, IndexTypes, TypeOK
<1> QED BY <1>1, PipelineInvCorrect, PTL

\* Qdrant and OpenSearch never mix the chunks of two runs of ingest, in any environment and
\* under every fault of Pipeline, where one handler works per book: every run of indexer's
\* process deletes before it writes, and it writes one run. JobQueueProofs proves the condition
\* of the queue (RunsExclusivelyCorrect), without lost channels and lost confirmations.
THEOREM OneRunIndexedCorrect == Spec => []OneRunIndexed
<1>1. PipelineInv => OneRunIndexed
  BY DEF PipelineInv, OneRunInv
<1> QED BY <1>1, PipelineInvCorrect, PTL

-----------------------------------------------------------------------------
(* A ready book. *)

\* A message that is still to be enqueued: unsent, and not the one a dispatcher has just enqueued.
Marking(d, m) == disp[d].pc = "mark" /\ m \in disp[d].msg
Waiting(m) == outbox[m].state = "unsent" /\ \A d \in Dispatchers : ~ Marking(d, m)

\* A claimed message is one dispatcher's.
ClaimedOnce ==
    \A d \in Dispatchers : \A m \in disp[d].batch :
        /\ outbox[m].state = "unsent" /\ outbox[m].lock = "held"
        /\ \A c \in Dispatchers : m \in disp[c].batch => c = d

\* A waiting message has the book's generation, which no job has; a reprocess that has read the
\* row will write the next one.
Generations ==
    /\ \A m \in Msgs : Waiting(m) => /\ outbox[m].gen = book.gen /\ book.status = "queued"
                                     /\ \A q \in Queues : job[q].active => job[q].gen # book.gen
                                     /\ \A n \in Msgs : Waiting(n) => n = m
    /\ \A r \in Requests : req[r].op # "none" => /\ req[r].op = "reprocess" /\ req[r].row.gen = book.gen
                                                 /\ book.status \notin {"absent", "queued"}
    /\ \A q \in Queues : job[q].active => job[q].gen <= book.gen
    /\ book.status = "absent" => ~ job["ingest"].active /\ ~ job["index"].active
    /\ job["ingest"].active /\ job["index"].active =>
        /\ job["index"].gen <= job["ingest"].gen
        /\ job["index"].gen = job["ingest"].gen => hand["ingest"].pc = "done"

\* A job of the book's generation indexes the chunks that are in Postgres.
Indexing ==
    LET p == hand["index"].pc IN
    /\ p \in {"vectorsSynced", "indexLexical", "lexicalSynced", "ready"} => vectors = Batches("semantic", run)
    /\ p \in {"lexicalSynced", "ready"} => lexical = Batches("lexical", run)
    /\ job["index"].active /\ job["index"].gen = book.gen =>
        /\ p \in {"deleteVectors", "deleteLexical", "embed", "vectorsSynced", "indexLexical", "lexicalSynced", "ready"} => run = chunks
        /\ p \in {"indexLexical", "lexicalSynced", "ready"} => sync[<<"semantic", "qdrant">>] = "synced"
        /\ p = "ready" => sync[<<"lexical", "opensearch">>] = "synced"

\* When the book is ready all its jobs are done.
ReadyQuiet ==
    book.status = "ready" =>
        /\ Indexed
        /\ \A q \in Queues : job[q].active => job[q].gen = book.gen /\ hand[q].pc = "done"

ReadyInv == RefusesOrMisses => ClaimedOnce /\ Generations /\ Indexing /\ ReadyQuiet

\* Users of an environment without stops and lost replies do not update books, and one request
\* at a time reprocesses the book: each of them saves the row it has read, status and generation
\* included.
OrderlyRequests ==
    /\ \A r, s \in Requests : r = s
    /\ \A e \in Environments : e.faults \subseteq {"enqueueError", "statusError"} => "update" \notin e.operations

\* The faults that RefusesOrMisses rules out.
LEMMA NoStops ==
    ASSUME RefusesOrMisses
    PROVE  /\ ~ Fault("lostReply") /\ ~ Fault("outboxError") /\ ~ Fault("slowDispatch")
           /\ ~ Fault("dispatcherDies") /\ ~ Fault("workerCrash")
BY DEF RefusesOrMisses, Fault

\* The steps of the queues and of the handlers leave the book service's outbox alone.
LEMMA HandlersKeepOutbox ==
    ASSUME IngestStep \/ IndexerStep \/ HandlerFault
    PROVE  UNCHANGED <<outbox, disp, req>>
<1>1. CASE IngestStep \/ HandlerFault
  BY <1>1 DEF IngestStep, HandlerFault, Deliver, Finish, ReturnError, WorkerCrash, HandlerError, ReportFailure,
     IngestBegin, Begin, IngestParse, IngestReplaceChunks, IngestEnqueueIndex, IngestEnqueueFails, outboxVars, bookVars
<1>2. CASE IndexerStep
  BY <1>2 DEF IndexerStep, Deliver, Finish, ReturnError, HandlerError, ReportFailure, IndexBegin, Begin, IndexListChunks,
     IndexDeleteVectors, IndexDeleteLexical, IndexEmbedAndStore, IndexEmbedFails, IndexVectorsSynced,
     IndexLexical, IndexLexicalFails, IndexLexicalSynced, IndexReady, IndexStep, outboxVars, bookVars
<1> QED BY <1>1, <1>2

\* A message that is written is new, and the others stay.
LEMMA SaveFacts ==
    ASSUME BookTypes, NEW row \in Row, SaveBookAndOutbox(row)
    PROVE  /\ book' = row
           /\ \E m \in Msgs : /\ outbox[m].state = "absent"
                              /\ outbox'[m].gen = row.gen /\ outbox'[m].state = "unsent"
                              /\ \A n \in Msgs : n # m => outbox'[n] = outbox[n]
BY EnvFacts DEF BookTypes, SaveBookAndOutbox

\* What ReprocessBook writes.
LEMMA ReprocessFacts ==
    ASSUME BookTypes, NEW r \in Requests, ReprocessBookSave(r)
    PROVE  \E row \in Row : /\ SaveBookAndOutbox(row) /\ row.status = "queued" /\ row.gen = req[r].row.gen + 1
<1>0. PICK old \in Row : old = req[r].row
  BY DEF BookTypes
<1>1. PICK mid : mid = [old EXCEPT !.status = "queued"]
  OBVIOUS
<1>2. mid \in Row /\ mid.status = "queued" /\ mid.gen = old.gen /\ old.gen \in Nat
  BY <1>1 DEF Row
<1>3. PICK row : row = [mid EXCEPT !.gen = mid.gen + 1]
  OBVIOUS
<1>4. row \in Row /\ row.status = "queued" /\ row.gen = old.gen + 1
  BY <1>2, <1>3 DEF Row
<1>5. SaveBookAndOutbox([req[r].row EXCEPT !.status = "queued", !.gen = @ + 1])
  BY DEF ReprocessBookSave
<1>6. row = [req[r].row EXCEPT !.status = "queued", !.gen = @ + 1]
  BY <1>0, <1>1, <1>3
<1> QED BY <1>0, <1>4, <1>5, <1>6

\* What settling a message does to the outbox and to its dispatcher.
LEMMA SettleFacts ==
    ASSUME BookTypes, DispTypes, RefusesOrMisses, NEW d \in Dispatchers, MarkOutboxDispatched(d) \/ ReleaseOutboxMessage(d)
    PROVE  /\ \A m \in Msgs : /\ outbox'[m].gen = outbox[m].gen
                              /\ m \notin disp[d].msg => outbox'[m] = outbox[m]
                              /\ disp[d].pc = "release" => outbox'[m].state = outbox[m].state
                              /\ disp[d].pc = "mark" /\ m \in disp[d].msg => outbox'[m].state = "sent"
           /\ disp'[d].pc \in {"idle", "enqueue"} /\ disp'[d].msg = {}
           /\ disp'[d].batch = disp[d].batch \ disp[d].msg
           /\ \A c \in Dispatchers : c # d => disp'[c] = disp[c]
           /\ disp[d].pc \in {"mark", "release"}
<1>1. Advance(d)
  BY DEF MarkOutboxDispatched, ReleaseOutboxMessage
<1>2. CASE MarkOutboxDispatched(d)
  <2>1. outbox' = [m \in Msgs |-> IF m \in disp[d].msg THEN [outbox[m] EXCEPT !.state = "sent", !.lock = "free"] ELSE outbox[m]]
    BY <1>2, NoStops DEF MarkOutboxDispatched
  <2>2. disp[d].pc = "mark"
    BY <1>2 DEF MarkOutboxDispatched
  <2>3. \A m \in Msgs : outbox[m] \in [gen : Nat, state : {"absent", "unsent", "sent"}, lock : {"free", "held", "expired"}]
    BY DEF BookTypes
  <2>4. \A m \in Msgs : /\ outbox'[m].gen = outbox[m].gen
                        /\ m \notin disp[d].msg => outbox'[m] = outbox[m]
                        /\ m \in disp[d].msg => outbox'[m].state = "sent"
    BY <2>1, <2>3
  <2> QED BY <1>1, <2>2, <2>4, AdvanceFacts
<1>3. CASE ReleaseOutboxMessage(d)
  <2>1. outbox' = [m \in Msgs |-> IF m \in disp[d].msg THEN [outbox[m] EXCEPT !.lock = "free"] ELSE outbox[m]]
    BY <1>3, NoStops DEF ReleaseOutboxMessage
  <2>2. disp[d].pc = "release"
    BY <1>3 DEF ReleaseOutboxMessage
  <2>3. \A m \in Msgs : outbox[m] \in [gen : Nat, state : {"absent", "unsent", "sent"}, lock : {"free", "held", "expired"}]
    BY DEF BookTypes
  <2>4. \A m \in Msgs : /\ outbox'[m].gen = outbox[m].gen
                        /\ m \notin disp[d].msg => outbox'[m] = outbox[m]
                        /\ outbox'[m].state = outbox[m].state
    BY <2>1, <2>3
  <2> QED BY <1>1, <2>2, <2>4, AdvanceFacts
<1> QED BY <1>2, <1>3

\* Every step keeps the claims apart.
LEMMA ClaimedOnceStep ==
    ASSUME BookTypes, DispTypes, RefusesOrMisses, ClaimedOnce, [Next]_vars
    PROVE  ClaimedOnce'
<1>0. \A d \in Dispatchers : disp[d].batch \subseteq Msgs /\ disp[d].msg \subseteq disp[d].batch
  BY DEF DispTypes
<1>1. ASSUME UNCHANGED <<outbox, disp>> PROVE ClaimedOnce'
  BY <1>1 DEF ClaimedOnce
<1>2. ASSUME NEW row \in Row, SaveBookAndOutbox(row), UNCHANGED disp PROVE ClaimedOnce'
  BY <1>0, <1>2, SaveFacts DEF ClaimedOnce
<1>3. ASSUME UploadBook PROVE ClaimedOnce'
  <2>1. [status |-> "queued", gen |-> 1, deleted |-> FALSE] \in Row
    BY DEF Row
  <2> QED BY <1>2, <1>3, <2>1 DEF UploadBook
<1>4. ASSUME NEW r \in Requests, RequestStep(r) PROVE ClaimedOnce'
  <2>1. CASE ReprocessBookSave(r)
    BY <1>2, <2>1, ReprocessFacts DEF ReprocessBookSave
  <2>2. CASE UpdateBookRead(r) \/ UpdateBookSave(r) \/ ReprocessBookRead(r)
    BY <1>1, <2>2 DEF UpdateBookRead, UpdateBookSave, ReprocessBookRead, GetBook, outboxVars
  <2> QED BY <1>4, <2>1, <2>2 DEF RequestStep
<1>5. ASSUME NEW d \in Dispatchers, ClaimOutboxMessages(d) PROVE ClaimedOnce'
  <2>1. PICK batch \in SUBSET {m \in Msgs : Claimable(m)} :
          /\ outbox' = [m \in Msgs |-> IF m \in batch THEN [outbox[m] EXCEPT !.lock = "held"] ELSE outbox[m]]
          /\ disp' = [disp EXCEPT ![d] = [pc |-> "enqueue", batch |-> batch, msg |-> {}]]
    BY <1>5 DEF ClaimOutboxMessages
  <2>2. /\ \A m \in Msgs : IF m \in batch THEN outbox'[m].state = "unsent" /\ outbox'[m].lock = "held" ELSE outbox'[m] = outbox[m]
        /\ \A m \in batch : m \in Msgs /\ outbox[m].lock # "held"
    BY <2>1 DEF Claimable, BookTypes
  <2>3. disp'[d].batch = batch /\ \A c \in Dispatchers : c # d => disp'[c] = disp[c]
    BY <2>1 DEF DispTypes
  <2> QED BY <1>0, <2>2, <2>3 DEF ClaimedOnce
<1>6. ASSUME NEW m \in Msgs, LeaseExpires(m) PROVE ClaimedOnce'
  <2>1. \A d \in Dispatchers : m \notin disp[d].batch
    BY <1>6, NoStops DEF LeaseExpires
  <2>2. disp' = disp /\ \A n \in Msgs : n # m => outbox'[n] = outbox[n]
    BY <1>6 DEF LeaseExpires, BookTypes
  <2> QED BY <1>0, <2>1, <2>2 DEF ClaimedOnce
<1>7. ASSUME NEW d \in Dispatchers, NEW m \in Msgs, DispatchEnqueue(d, m) \/ DispatchEnqueueFails(d, m) PROVE ClaimedOnce'
  <2>1. outbox' = outbox /\ \A c \in Dispatchers : disp'[c].batch = disp[c].batch
    BY <1>7 DEF DispatchEnqueue, DispatchEnqueueFails, DispatchTo, DispTypes
  <2> QED BY <2>1 DEF ClaimedOnce
<1>8. ASSUME NEW d \in Dispatchers, MarkOutboxDispatched(d) \/ ReleaseOutboxMessage(d) PROVE ClaimedOnce'
  <2>1. /\ \A m \in Msgs : m \notin disp[d].msg => outbox'[m] = outbox[m]
        /\ disp'[d].batch = disp[d].batch \ disp[d].msg
        /\ \A c \in Dispatchers : c # d => disp'[c] = disp[c]
    BY <1>8, SettleFacts
  <2> QED BY <1>0, <2>1 DEF ClaimedOnce
<1>9. ASSUME NEW d \in Dispatchers, DispatcherDies(d) PROVE ClaimedOnce'
  BY <1>9, NoStops DEF DispatcherDies
<1>10. ASSUME DeleteBook \/ UNCHANGED vars PROVE ClaimedOnce'
  BY <1>1, <1>10 DEF DeleteBook, vars, outboxVars
<1>11. ASSUME IngestStep \/ IndexerStep \/ HandlerFault PROVE ClaimedOnce'
  BY <1>1, <1>11, HandlersKeepOutbox
<1> QED
  BY <1>3, <1>4, <1>5, <1>6, <1>7, <1>8, <1>9, <1>10, <1>11 DEF Next, DispatchStep, DispatchFault

\* A book that stops being ready has a new generation.
GenerationRises == book.status = "ready" /\ book'.status # "ready" => book'.gen > book.gen

\* Every step of an orderly environment keeps the jobs of the book in the order of their
\* generations, and what a ready book stands on.
LEMMA ReadyStep ==
    ASSUME OrderlyRequests, BookTypes, DispTypes, QueueTypes, IndexTypes, OneRunInv, QueueTypes', RefusesOrMisses,
           ClaimedOnce, Generations, Indexing, ReadyQuiet, [Next]_vars
    PROVE  Generations' /\ Indexing' /\ ReadyQuiet' /\ GenerationRises
<1> DEFINE Goal == Generations' /\ Indexing' /\ ReadyQuiet' /\ GenerationRises
           Writing == {"deleteVectors", "deleteLexical", "embed", "vectorsSynced", "indexLexical", "lexicalSynced", "ready"}
<1>1. /\ "ingest" \in Queues /\ "index" \in Queues /\ \A q \in Queues : q = "ingest" \/ q = "index"
      /\ book.gen \in Nat /\ "update" \notin env.operations
      /\ \A q \in Queues : job[q].gen \in Nat /\ (hand[q].pc # "idle" => job[q].active)
  BY DEF Queues, BookTypes, Row, QueueTypes, OrderlyRequests, RefusesOrMisses
\* A handler that is at work finds the book not ready.
<1>2. ASSUME NEW q \in Queues, hand[q].pc \notin {"idle", "done"} PROVE book.status # "ready"
  BY <1>1, <1>2 DEF ReadyQuiet
<1>g. ASSUME \A m \in Msgs : Waiting(m)' => Waiting(m) /\ outbox'[m].gen = outbox[m].gen,
             req' = req, book'.gen = book.gen,
             \/ book'.status = book.status
             \/ book'.status \in {"processing", "ready", "failed"} /\ \E q \in Queues : job[q].active /\ job[q].gen = book.gen,
             \A q \in Queues : job'[q].active => job[q].active /\ job'[q].gen = job[q].gen,
             hand["ingest"].pc = "done" => hand'["ingest"].pc = "done" \/ ~ job'["ingest"].active
      PROVE  Generations'
  <2>1. book'.status # book.status => book.status # "absent" /\ \A m \in Msgs : ~ Waiting(m)
    BY <1>1, <1>g DEF Generations
  <2>2. \A m \in Msgs : Waiting(m)' => /\ outbox'[m].gen = book'.gen /\ book'.status = "queued"
                                       /\ \A q \in Queues : job'[q].active => job'[q].gen # book'.gen
                                       /\ \A n \in Msgs : Waiting(n)' => n = m
    BY <1>g, <2>1 DEF Generations
  <2>3. \A r \in Requests : req'[r].op # "none" => /\ req'[r].op = "reprocess" /\ req'[r].row.gen = book'.gen
                                                   /\ book'.status \notin {"absent", "queued"}
    BY <1>g DEF Generations
  <2>4. /\ \A q \in Queues : job'[q].active => job'[q].gen <= book'.gen
        /\ book'.status = "absent" => ~ job'["ingest"].active /\ ~ job'["index"].active
    BY <1>1, <1>g, <2>1 DEF Generations
  <2>5. job'["ingest"].active /\ job'["index"].active =>
            /\ job'["index"].gen <= job'["ingest"].gen
            /\ job'["index"].gen = job'["ingest"].gen => hand'["ingest"].pc = "done"
    BY <1>1, <1>g DEF Generations
  <2> QED BY <2>2, <2>3, <2>4, <2>5 DEF Generations
<1>i. ASSUME UNCHANGED indexVars,
             hand'["index"] = hand["index"] \/ hand'["index"].pc \notin Writing,
             job'["index"].active /\ job'["index"].gen = book'.gen /\ hand'["index"].pc \in Writing =>
                job["index"].active /\ job["index"].gen = book.gen
      PROVE  Indexing'
  BY <1>i DEF Indexing, indexVars, run, Batches
<1>r. ASSUME book'.status = "ready" => book.status = "ready" /\ book'.gen = book.gen,
             UNCHANGED indexVars,
             book'.status = "ready" =>
                \A q \in Queues : job'[q].active => /\ job[q].active /\ job'[q].gen = job[q].gen
                                                    /\ hand[q].pc = "done" => hand'[q].pc = "done"
      PROVE  ReadyQuiet'
  BY <1>r DEF ReadyQuiet, Indexed, indexVars, Batches
<1>u. ASSUME UNCHANGED <<outbox, disp>> PROVE \A m \in Msgs : Waiting(m)' => Waiting(m) /\ outbox'[m].gen = outbox[m].gen
  BY <1>u DEF Waiting, Marking
\* Nothing happens to the jobs, and no message comes to wait.
<1>3. ASSUME \A m \in Msgs : Waiting(m)' => Waiting(m) /\ outbox'[m].gen = outbox[m].gen,
             UNCHANGED <<job, hand>>, UNCHANGED indexVars, req' = req, book'.gen = book.gen, book'.status = book.status
      PROVE  Goal
  BY <1>3, <1>g, <1>i, <1>r DEF GenerationRises
\* A row of the next generation and its message are written.
<1>4. ASSUME NEW row \in Row, SaveBookAndOutbox(row), UNCHANGED <<disp, job, hand>>, UNCHANGED indexVars,
             row.status = "queued", book.status # "queued", \A q \in Queues : job[q].active => job[q].gen < row.gen,
             \A r \in Requests : req'[r].op = "none", book.status = "ready" => row.gen > book.gen
      PROVE  Goal
  <2>1. book' = row
    BY <1>4, SaveFacts
  <2>2. PICK m \in Msgs : /\ outbox'[m].gen = row.gen
                          /\ \A n \in Msgs : n # m => outbox'[n] = outbox[n]
    BY <1>4, SaveFacts
  <2>3. \A n \in Msgs : ~ Waiting(n)
    BY <1>4 DEF Generations
  <2>4. \A n \in Msgs : Waiting(n)' => n = m
    BY <1>4, <2>2, <2>3 DEF Waiting, Marking
  <2>5. \A q \in Queues : job'[q].active => job'[q].gen # row.gen /\ job'[q].gen <= row.gen
    BY <1>1, <1>4 DEF Row
  <2>6. Generations'
    BY <1>1, <1>4, <2>1, <2>2, <2>4, <2>5 DEF Generations
  <2>7. Indexing'
    BY <1>1, <1>4, <1>i, <2>1, <2>5 DEF QueueTypes
  <2>8. ReadyQuiet' /\ GenerationRises
    BY <1>4, <2>1 DEF ReadyQuiet, GenerationRises
  <2> QED BY <2>6, <2>7, <2>8
<1>5. ASSUME UploadBook PROVE Goal
  <2>1. PICK row \in Row : SaveBookAndOutbox(row) /\ row.status = "queued"
    <3>1. PICK row : row = [status |-> "queued", gen |-> 1, deleted |-> FALSE]
      OBVIOUS
    <3>2. row \in Row /\ row.status = "queued"
      BY <3>1 DEF Row
    <3> QED BY <1>5, <3>1, <3>2 DEF UploadBook
  <2>2. book.status = "absent" /\ UNCHANGED <<disp, job, hand, req>> /\ UNCHANGED indexVars
    BY <1>5 DEF UploadBook, queueVars
  <2>3. \A q \in Queues : ~ job[q].active
    BY <1>1, <2>2 DEF Generations
  <2>4. \A r \in Requests : req'[r].op = "none"
    BY <2>2 DEF Generations
  <2> QED BY <1>4, <2>1, <2>2, <2>3, <2>4
<1>6. ASSUME DeleteBook PROVE Goal
  <2>1. book'.gen = book.gen /\ book'.status = book.status
    BY <1>6 DEF DeleteBook, BookTypes, Row
  <2>2. UNCHANGED <<outbox, disp, req, job, hand>> /\ UNCHANGED indexVars
    BY <1>6 DEF DeleteBook, outboxVars, queueVars
  <2> QED BY <1>3, <1>u, <2>1, <2>2
<1>7. ASSUME NEW r \in Requests, RequestStep(r) PROVE Goal
  <2>1. ~ UpdateBookRead(r) /\ ~ UpdateBookSave(r)
    BY <1>1 DEF UpdateBookRead, UpdateBookSave, GetBook, Generations
  <2>2. CASE ReprocessBookRead(r)
    <3>1. /\ book.status \notin {"absent", "queued"} /\ req' = [req EXCEPT ![r] = [op |-> "reprocess", row |-> book]]
          /\ UNCHANGED <<book, outbox, disp, job, hand>> /\ UNCHANGED indexVars
      BY <2>2 DEF ReprocessBookRead, GetBook, outboxVars, queueVars
    <3>2. req'[r].op = "reprocess" /\ req'[r].row = book /\ \A s \in Requests : s = r
      BY <3>1 DEF BookTypes, OrderlyRequests
    <3>3. \A m \in Msgs : Waiting(m)' => Waiting(m)
      BY <1>u, <3>1
    <3>4. Generations'
      BY <3>1, <3>2, <3>3 DEF Generations
    <3> QED BY <1>i, <1>r, <3>1, <3>4 DEF GenerationRises
  <2>3. CASE ReprocessBookSave(r)
    <3>1. PICK row \in Row : SaveBookAndOutbox(row) /\ row.status = "queued" /\ row.gen = req[r].row.gen + 1
      BY <2>3, ReprocessFacts
    <3>2. /\ req[r].op = "reprocess" /\ req' = [req EXCEPT ![r] = NoRequest]
          /\ UNCHANGED <<disp, job, hand>> /\ UNCHANGED indexVars
      BY <2>3 DEF ReprocessBookSave, queueVars
    <3>3. req[r].row.gen = book.gen /\ book.status # "queued" /\ row.gen = book.gen + 1
      BY <3>1, <3>2 DEF Generations
    <3>4. \A s \in Requests : req'[s].op = "none"
      BY <3>2 DEF OrderlyRequests, BookTypes, NoRequest
    <3>5. \A q \in Queues : job[q].active => job[q].gen < row.gen
      BY <1>1, <3>3 DEF Generations
    <3>6. row.gen > book.gen
      BY <1>1, <3>3
    <3> QED BY <1>4, <3>1, <3>2, <3>3, <3>4, <3>5, <3>6
  <2> QED BY <1>7, <2>1, <2>2, <2>3 DEF RequestStep
\* The outbox. A message that is enqueued waits no more.
<1>8. ASSUME NEW d \in Dispatchers, ClaimOutboxMessages(d) PROVE Goal
  <2>1. PICK batch \in SUBSET Msgs :
          /\ outbox' = [m \in Msgs |-> IF m \in batch THEN [outbox[m] EXCEPT !.lock = "held"] ELSE outbox[m]]
          /\ disp' = [disp EXCEPT ![d] = [pc |-> "enqueue", batch |-> batch, msg |-> {}]]
    BY <1>8 DEF ClaimOutboxMessages
  <2>2. \A m \in Msgs : outbox'[m].state = outbox[m].state /\ outbox'[m].gen = outbox[m].gen
    BY <2>1 DEF BookTypes
  <2>3. disp[d].pc = "idle" /\ \A c \in Dispatchers : c # d => disp'[c] = disp[c]
    BY <1>8, <2>1 DEF ClaimOutboxMessages, DispTypes
  <2>4. \A m \in Msgs : Waiting(m)' => Waiting(m) /\ outbox'[m].gen = outbox[m].gen
    BY <2>2, <2>3 DEF Waiting, Marking
  <2>5. UNCHANGED <<book, req, job, hand>> /\ UNCHANGED indexVars
    BY <1>8 DEF ClaimOutboxMessages, bookVars, queueVars
  <2> QED BY <1>3, <2>4, <2>5
<1>9. ASSUME NEW m \in Msgs, LeaseExpires(m) PROVE Goal
  <2>1. disp' = disp /\ \A n \in Msgs : outbox'[n].state = outbox[n].state /\ outbox'[n].gen = outbox[n].gen
    BY <1>9 DEF LeaseExpires, BookTypes
  <2>2. \A n \in Msgs : Waiting(n)' => Waiting(n) /\ outbox'[n].gen = outbox[n].gen
    BY <2>1 DEF Waiting, Marking
  <2>3. UNCHANGED <<book, req, job, hand>> /\ UNCHANGED indexVars
    BY <1>9 DEF LeaseExpires, bookVars, queueVars
  <2> QED BY <1>3, <2>2, <2>3
<1>10. ASSUME NEW d \in Dispatchers, NEW m \in Msgs, DispatchEnqueueFails(d, m) PROVE Goal
  <2>1. DispatchTo(d, m, "release") /\ job' = job
    BY <1>10, NoStops DEF DispatchEnqueueFails
  <2>2. /\ disp[d].pc = "enqueue" /\ \A c \in Dispatchers : c # d => disp'[c] = disp[c]
        /\ UNCHANGED <<outbox, book, req, hand>> /\ UNCHANGED indexVars
    BY <2>1 DEF DispatchTo, DispTypes, bookVars
  <2>3. \A n \in Msgs : Waiting(n)' => Waiting(n) /\ outbox'[n].gen = outbox[n].gen
    BY <2>2 DEF Waiting, Marking
  <2> QED BY <1>3, <2>1, <2>2, <2>3
<1>11. ASSUME NEW d \in Dispatchers, MarkOutboxDispatched(d) \/ ReleaseOutboxMessage(d) PROVE Goal
  <2>1. UNCHANGED <<book, req, job, hand>> /\ UNCHANGED indexVars
    BY <1>11 DEF MarkOutboxDispatched, ReleaseOutboxMessage, bookVars, queueVars
  <2>2. ASSUME NEW m \in Msgs, Waiting(m)' PROVE Waiting(m) /\ outbox'[m].gen = outbox[m].gen
    <3>1. outbox'[m].state = "unsent" /\ outbox'[m].gen = outbox[m].gen
      BY <1>11, <2>2, SettleFacts DEF Waiting
    <3>2. ~ (disp[d].pc = "mark" /\ m \in disp[d].msg) /\ disp[d].pc \in {"mark", "release"}
      BY <1>11, <3>1, SettleFacts
    <3>3. outbox[m].state = "unsent"
      BY <1>11, <3>1, <3>2, SettleFacts
    <3>4. \A c \in Dispatchers : c # d => disp'[c] = disp[c]
      BY <1>11, SettleFacts
    <3> QED BY <2>2, <3>1, <3>2, <3>3, <3>4 DEF Waiting, Marking
  <2> QED BY <1>3, <2>1, <2>2
<1>12. ASSUME NEW d \in Dispatchers, NEW m \in Msgs, DispatchEnqueue(d, m) PROVE Goal
  <2>1. /\ disp[d].pc = "enqueue" /\ m \in disp[d].batch /\ disp' = [disp EXCEPT ![d].pc = "mark", ![d].msg = {m}]
        /\ UNCHANGED <<outbox, book, req, hand>> /\ UNCHANGED indexVars
    BY <1>12 DEF DispatchEnqueue, DispatchTo, bookVars
  <2>2. PICK g \in Nat : g = outbox[m].gen /\ job' = Accept("ingest", g)
    BY <1>12 DEF DispatchEnqueue, Enqueue, BookTypes
  <2>3. disp'[d].pc = "mark" /\ disp'[d].msg = {m} /\ \A c \in Dispatchers : c # d => disp'[c] = disp[c]
    BY <2>1 DEF DispTypes
  <2>4. Waiting(m)
    <3>1. \A c \in Dispatchers : disp[c].msg \subseteq disp[c].batch
      BY DEF DispTypes
    <3> QED BY <2>1, <3>1 DEF Waiting, Marking, ClaimedOnce
  <2>5. /\ g = book.gen /\ book.status = "queued" /\ \A q \in Queues : job[q].active => job[q].gen # book.gen /\ job[q].gen < book.gen
        /\ \A n \in Msgs : Waiting(n) => n = m
    BY <1>1, <2>2, <2>4 DEF Generations
  <2>6. \A n \in Msgs : ~ Waiting(n)'
    <3>1. Marking(d, m)'
      BY <2>3 DEF Marking
    <3>2. ASSUME NEW n \in Msgs, Waiting(n)' PROVE Waiting(n) /\ n # m
      BY <2>1, <2>3, <3>1, <3>2 DEF Waiting, Marking
    <3> QED BY <2>5, <3>2
  <2>7. /\ job'["index"] = job["index"] /\ job'["ingest"].active
        /\ job["ingest"].active => job' = job
        /\ ~ job["ingest"].active => job'["ingest"].gen = g
    BY <1>1, <2>2, AcceptFacts
  <2>8. \A r \in Requests : req'[r].op = "none"
    BY <2>1, <2>5 DEF Generations
  <2>9. Generations'
    <3>1. CASE job["ingest"].active
      BY <1>1, <2>1, <2>5, <2>6, <2>7, <2>8, <3>1 DEF Generations
    <3>2. CASE ~ job["ingest"].active
      <4>1. \A q \in Queues : job'[q].active => job'[q].gen <= book'.gen
        BY <1>1, <2>1, <2>5, <2>7, <3>2
      <4>2. job'["index"].active => job'["index"].gen < job'["ingest"].gen
        BY <1>1, <2>5, <2>7, <3>2
      <4>3. job'["index"].active => job'["index"].gen <= job'["ingest"].gen /\ job'["index"].gen # job'["ingest"].gen
        BY <1>1, <2>5, <2>7, <4>2
      <4> QED BY <2>1, <2>5, <2>6, <2>8, <4>1, <4>3 DEF Generations
    <3> QED BY <3>1, <3>2
  <2>10. Indexing'
    BY <1>i, <2>1, <2>7
  <2>11. ReadyQuiet' /\ GenerationRises
    BY <2>1, <2>5 DEF ReadyQuiet, GenerationRises
  <2> QED BY <2>9, <2>10, <2>11
<1>13. ASSUME NEW d \in Dispatchers, DispatcherDies(d) PROVE Goal
  BY <1>13, NoStops DEF DispatcherDies
\* A handler goes on, ends or waits for its next attempt, and the engines stay.
<1>14. ASSUME UNCHANGED <<outbox, disp, req>>, UNCHANGED indexVars, book'.gen = book.gen,
              NEW q \in Queues, hand[q].pc # "done" \/ ~ job'[q].active, \A o \in Queues : o # q => hand'[o] = hand[o] /\ job'[o] = job[o],
              job'[q].active => job[q].active /\ job'[q].gen = job[q].gen,
              hand'[q].pc \notin Writing,
              \/ book'.status = book.status
              \/ book'.status \in {"processing", "failed"} /\ job[q].active /\ job[q].gen = book.gen /\ book.status # "ready"
       PROVE  Goal
  <2>1. Generations'
    BY <1>1, <1>14, <1>g, <1>u
  <2>2. Indexing'
    BY <1>1, <1>14, <1>i
  <2>3. ReadyQuiet' /\ GenerationRises
    BY <1>1, <1>14, <1>r DEF GenerationRises
  <2> QED BY <2>1, <2>2, <2>3
<1>15. ASSUME NEW q \in Queues, Deliver(q) PROVE Goal
  <2>1. /\ UNCHANGED <<outbox, disp, req, book>> /\ UNCHANGED indexVars
        /\ job' = [job EXCEPT ![q].attempts = @ + 1] /\ hand[q].pc = "idle" /\ Goto(q, "begin")
    BY <1>15 DEF Deliver, bookVars, outboxVars
  <2>2. hand'[q].pc = "begin" /\ \A o \in Queues : o # q => hand'[o] = hand[o]
    BY <2>1, GotoFacts DEF HandPcs, CallPcs
  <2>3. job'[q].active = job[q].active /\ job'[q].gen = job[q].gen /\ \A o \in Queues : o # q => job'[o] = job[o]
    BY <2>1 DEF QueueTypes
  <2> QED BY <1>14, <2>1, <2>2, <2>3
<1>16. ASSUME NEW q \in Queues, Finish(q) \/ ReturnError(q) PROVE Goal
  <2>1. /\ UNCHANGED <<outbox, disp, req, book>> /\ UNCHANGED indexVars
        /\ hand' = [hand EXCEPT ![q] = NoHandler]
        /\ job' = [job EXCEPT ![q] = NoActiveJob] \/ (job' = job /\ hand[q].pc = "erred")
    BY <1>16 DEF Finish, ReturnError, bookVars, outboxVars
  <2>2. hand'[q].pc = "idle" /\ \A o \in Queues : o # q => hand'[o] = hand[o]
    BY <2>1, GoneFacts
  <2>3. /\ ~ job'[q].active \/ (job'[q] = job[q] /\ hand[q].pc = "erred")
        /\ \A o \in Queues : o # q => job'[o] = job[o]
    BY <2>1 DEF QueueTypes, NoActiveJob
  <2> QED BY <1>14, <2>1, <2>2, <2>3
<1>17. ASSUME NEW q \in Queues, NEW p \in HandPcs \ Writing, Goto(q, p), hand[q].pc \notin {"idle", "done"},
              UNCHANGED <<outbox, disp, req, job>>, UNCHANGED indexVars,
              book' = book \/ \E s \in {"processing", "failed"} : SetStatus(s) /\ Current(q)
       PROVE  Goal
  <2>1. hand'[q].pc = p /\ \A o \in Queues : o # q => hand'[o] = hand[o]
    BY <1>17, GotoFacts
  <2>2. book.status # "ready" /\ job[q].active
    BY <1>1, <1>2, <1>17
  <2>3. /\ book'.gen = book.gen
        /\ \/ book'.status = book.status
           \/ book'.status \in {"processing", "failed"} /\ job[q].gen = book.gen
    <3>1. book \in Row
      BY DEF BookTypes
    <3> QED BY <1>17, <3>1, SetStatusFacts DEF Current
  <2> QED BY <1>14, <1>17, <2>1, <2>2, <2>3
<1>18. ASSUME NEW q \in Queues, HandlerError(q) \/ ReportFailure(q) PROVE Goal
  <2>1. hand[q].pc \notin {"idle", "done"} /\ UNCHANGED <<outbox, disp, req, job>> /\ UNCHANGED indexVars
    BY <1>18 DEF HandlerError, ReportFailure, CallPcs, bookVars, outboxVars
  <2>2. \E p \in HandPcs \ Writing : Goto(q, p)
    BY <1>18 DEF HandlerError, ReportFailure, HandPcs, CallPcs
  <2>3. book' = book \/ \E s \in {"processing", "failed"} : SetStatus(s) /\ Current(q)
    BY <1>18 DEF HandlerError, ReportFailure, bookVars
  <2> QED BY <1>17, <2>1, <2>2, <2>3
<1>19. ASSUME NEW q \in Queues, NEW next \in HandPcs \ Writing, Begin(q, next) PROVE Goal
  <2>1. hand[q].pc = "begin" /\ UNCHANGED <<outbox, disp, req, job>> /\ UNCHANGED indexVars
    BY <1>19 DEF Begin, outboxVars
  <2>2. \E p \in HandPcs \ Writing : Goto(q, p)
    BY <1>19 DEF Begin, HandPcs, CallPcs
  <2>3. book' = book \/ \E s \in {"processing", "failed"} : SetStatus(s) /\ Current(q)
    BY <1>19 DEF Begin
  <2> QED BY <1>17, <2>1, <2>2, <2>3
<1>20. ASSUME IngestBegin \/ IndexBegin \/ IngestParse PROVE Goal
  <2>1. CASE IngestParse
    <3>1. hand["ingest"].pc = "parse" /\ UNCHANGED <<outbox, disp, req, job, book>> /\ UNCHANGED indexVars
      BY <2>1 DEF IngestParse, outboxVars, bookVars
    <3>2. \E p \in HandPcs \ Writing : Goto("ingest", p)
      BY <2>1 DEF IngestParse, HandPcs, CallPcs
    <3> QED BY <1>1, <1>17, <3>1, <3>2
  <2>2. CASE IngestBegin \/ IndexBegin
    BY <1>1, <1>19, <2>2 DEF IngestBegin, IndexBegin, HandPcs, CallPcs
  <2> QED BY <1>20, <2>1, <2>2
\* Chunks are replaced: no job of the book's generation indexes yet, and the book is not ready.
<1>21. ASSUME IngestReplaceChunks PROVE Goal
  <2>1. /\ hand["ingest"].pc = "replace" /\ Goto("ingest", "enqueue")
        /\ UNCHANGED <<outbox, disp, req, book, job, vectors, lexical>>
    BY <1>21 DEF IngestReplaceChunks, outboxVars, bookVars
  <2>2. hand'["ingest"].pc = "enqueue" /\ hand'["index"] = hand["index"]
    BY <1>1, <2>1, GotoFacts DEF HandPcs
  <2>3. book.status # "ready" /\ job["ingest"].active
    BY <1>1, <1>2, <2>1
  <2>4. ~ (job["index"].active /\ job["index"].gen = book.gen)
    <3>1. SUFFICES ASSUME job["index"].active, job["index"].gen = book.gen PROVE FALSE
      OBVIOUS
    <3>2. job["ingest"].gen <= book.gen /\ job["index"].gen <= job["ingest"].gen /\ job["index"].gen # job["ingest"].gen
      BY <1>1, <2>1, <2>3, <3>1 DEF Generations
    <3> QED BY <1>1, <3>1, <3>2
  <2>5. Generations'
    BY <1>1, <1>g, <1>u, <2>1
  <2>6. Indexing'
    BY <2>1, <2>2, <2>4 DEF Indexing, run, Batches
  <2>7. ReadyQuiet' /\ GenerationRises
    BY <2>1, <2>3 DEF ReadyQuiet, GenerationRises
  <2> QED BY <2>5, <2>6, <2>7
<1>22. ASSUME IngestEnqueueIndex \/ IngestEnqueueFails PROVE Goal
  <2>1. /\ hand["ingest"].pc = "enqueue" /\ UNCHANGED <<outbox, disp, req, book>> /\ UNCHANGED indexVars
    BY <1>22 DEF IngestEnqueueIndex, IngestEnqueueFails, outboxVars, bookVars
  <2>2. CASE IngestEnqueueFails
    <3>1. Goto("ingest", "fail") /\ job' = job
      BY <2>2, NoStops DEF IngestEnqueueFails
    <3> QED BY <1>1, <1>17, <2>1, <3>1 DEF HandPcs
  <2>3. CASE IngestEnqueueIndex
    <3>1. PICK g \in Nat : g = job["ingest"].gen /\ job' = Accept("index", g)
      BY <1>1, <2>3 DEF IngestEnqueueIndex, Enqueue
    <3>2. /\ job'["ingest"] = job["ingest"] /\ job'["index"].active
          /\ job["index"].active => job' = job
          /\ ~ job["index"].active => job'["index"].gen = g
      BY <1>1, <3>1, AcceptFacts
    <3>3. hand'["ingest"].pc = "done" /\ hand'["index"] = hand["index"]
      BY <1>1, <2>3, GotoFacts DEF IngestEnqueueIndex, HandPcs
    <3>4. book.status # "ready" /\ job["ingest"].active
      BY <1>1, <1>2, <2>1
    <3>5. \A m \in Msgs : Waiting(m)' => Waiting(m) /\ outbox'[m].gen = outbox[m].gen
      BY <1>u, <2>1
    <3>6. Generations'
      <4>1. CASE job["index"].active
        BY <1>1, <1>g, <2>1, <3>2, <3>3, <3>5, <4>1
      <4>2. CASE ~ job["index"].active
        <5>1. \A q \in Queues : job'[q].active => job'[q].gen = job["ingest"].gen
          BY <1>1, <3>1, <3>2, <4>2
        <5>2. /\ job["ingest"].gen <= book.gen /\ book.status # "absent"
              /\ \A m \in Msgs : Waiting(m) => job["ingest"].gen # book.gen
          BY <1>1, <3>4 DEF Generations
        <5>3. job'["index"].gen = job'["ingest"].gen /\ job'["ingest"].gen \in Nat
          BY <1>1, <3>1, <3>2, <4>2
        <5> QED BY <2>1, <3>3, <3>5, <5>1, <5>2, <5>3 DEF Generations
      <4> QED BY <4>1, <4>2
    <3>7. Indexing'
      <4>1. ~ job["index"].active => hand["index"].pc = "idle"
        BY <1>1
      <4> QED BY <1>i, <2>1, <3>2, <3>3, <4>1
    <3>8. ReadyQuiet' /\ GenerationRises
      BY <2>1, <3>4 DEF ReadyQuiet, GenerationRises
    <3> QED BY <3>6, <3>7, <3>8
  <2> QED BY <1>22, <2>2, <2>3
\* indexer's process writes: the book is not ready.
<1>23. ASSUME UNCHANGED <<outbox, disp, req, job, book>>, hand["index"].pc \notin {"idle", "done"}, hand'["ingest"] = hand["ingest"],
              Indexing'
       PROVE  Goal
  <2>1. book.status # "ready"
    BY <1>1, <1>2, <1>23
  <2>2. Generations'
    BY <1>1, <1>g, <1>u, <1>23
  <2> QED BY <1>23, <2>1, <2>2 DEF ReadyQuiet, GenerationRises
<1>24. ASSUME NEW from, NEW to \in HandPcs, IndexStep(from, to)
       PROVE  /\ hand["index"].pc = from /\ hand'["index"].pc = to /\ run' = run /\ hand'["ingest"] = hand["ingest"]
              /\ UNCHANGED <<outbox, disp, req, job, book, chunks>>
  BY <1>1, <1>24, GotoFacts DEF IndexStep, outboxVars, bookVars, run
<1>25. SyncShape
  BY DEF IndexTypes
<1>26. ASSUME IndexListChunks PROVE Goal
  <2>1. /\ hand' = [hand EXCEPT !["index"] = [pc |-> IF chunks = 0 THEN "fail" ELSE "deleteVectors", run |-> chunks]]
        /\ hand["index"].pc = "list" /\ UNCHANGED <<outbox, disp, req, job, book>> /\ UNCHANGED indexVars
    BY <1>26 DEF IndexListChunks, outboxVars, bookVars
  <2>2. hand'["index"].pc \in {"fail", "deleteVectors"} /\ hand'["index"].run = chunks /\ hand'["ingest"] = hand["ingest"]
    BY <1>1, <2>1 DEF QueueTypes
  <2>3. Indexing'
    BY <2>1, <2>2 DEF Indexing, run, indexVars
  <2> QED BY <1>23, <2>1, <2>2, <2>3
<1>27. ASSUME IndexDeleteVectors \/ IndexDeleteLexical PROVE Goal
  <2>1. PICK from \in {"deleteVectors", "deleteLexical"}, to \in {"deleteLexical", "embed"} : IndexStep(from, to) /\ sync' = sync
    BY <1>27 DEF IndexDeleteVectors, IndexDeleteLexical
  <2>2. /\ hand["index"].pc = from /\ hand'["index"].pc = to /\ run' = run /\ hand'["ingest"] = hand["ingest"]
        /\ UNCHANGED <<outbox, disp, req, job, book, chunks>>
    BY <1>24, <2>1 DEF HandPcs, CallPcs
  <2>3. Indexing'
    BY <2>1, <2>2 DEF Indexing
  <2> QED BY <1>23, <2>2, <2>3
<1>28. ASSUME IndexEmbedAndStore PROVE Goal
  <2>1. /\ hand["index"].pc = "embed" /\ hand'["index"].pc = "vectorsSynced" /\ run' = run /\ hand'["ingest"] = hand["ingest"]
        /\ UNCHANGED <<outbox, disp, req, job, book, chunks>>
        /\ vectors' = vectors \cup Batches("semantic", run) /\ UNCHANGED <<sync, lexical>>
    BY <1>24, <1>28 DEF IndexEmbedAndStore, HandPcs, CallPcs
  <2>2. vectors' = Batches("semantic", run)
    BY <2>1 DEF OneRunInv
  <2>3. Indexing'
    BY <2>1, <2>2 DEF Indexing, Batches
  <2> QED BY <1>23, <2>1, <2>3
<1>29. ASSUME IndexLexical PROVE Goal
  <2>1. /\ hand["index"].pc = "indexLexical" /\ hand'["index"].pc = "lexicalSynced" /\ run' = run /\ hand'["ingest"] = hand["ingest"]
        /\ UNCHANGED <<outbox, disp, req, job, book, chunks>>
        /\ lexical' = lexical \cup Batches("lexical", run) /\ UNCHANGED <<sync, vectors>>
    BY <1>24, <1>29 DEF IndexLexical, HandPcs, CallPcs
  <2>2. lexical' = Batches("lexical", run)
    BY <2>1 DEF OneRunInv
  <2>3. Indexing'
    BY <2>1, <2>2 DEF Indexing, Batches
  <2> QED BY <1>23, <2>1, <2>3
<1>30. ASSUME IndexVectorsSynced PROVE Goal
  <2>1. /\ hand["index"].pc = "vectorsSynced" /\ hand'["index"].pc = "indexLexical" /\ run' = run /\ hand'["ingest"] = hand["ingest"]
        /\ UNCHANGED <<outbox, disp, req, job, book, chunks>>
        /\ UpdateChunkIndexStatus("semantic", "qdrant", "synced") /\ UNCHANGED <<vectors, lexical>>
    BY <1>24, <1>30 DEF IndexVectorsSynced, HandPcs, CallPcs
  <2>2. run = chunks => sync'[<<"semantic", "qdrant">>] = "synced"
    BY <1>25, <2>1, StatusFacts DEF SyncStatuses
  <2>3. Indexing'
    BY <2>1, <2>2 DEF Indexing, Batches
  <2> QED BY <1>23, <2>1, <2>3
<1>31. ASSUME IndexLexicalSynced PROVE Goal
  <2>1. /\ hand["index"].pc = "lexicalSynced" /\ hand'["index"].pc = "ready" /\ run' = run /\ hand'["ingest"] = hand["ingest"]
        /\ UNCHANGED <<outbox, disp, req, job, book, chunks>>
        /\ UpdateChunkIndexStatus("lexical", "opensearch", "synced") /\ UNCHANGED <<vectors, lexical>>
    BY <1>24, <1>31 DEF IndexLexicalSynced, HandPcs, CallPcs
  <2>2. (run = chunks => sync'[<<"lexical", "opensearch">>] = "synced") /\ sync'[<<"semantic", "qdrant">>] = sync[<<"semantic", "qdrant">>]
    BY <1>25, <2>1, StatusFacts DEF SyncStatuses
  <2>3. Indexing'
    BY <2>1, <2>2 DEF Indexing, Batches
  <2> QED BY <1>23, <2>1, <2>3
<1>32. ASSUME IndexEmbedFails \/ IndexLexicalFails PROVE Goal
  <2>1. PICK from \in {"embed", "indexLexical"} : IndexStep(from, "fail")
    BY <1>32 DEF IndexEmbedFails, IndexLexicalFails
  <2>2. /\ hand["index"].pc = from /\ hand'["index"].pc = "fail" /\ hand'["ingest"] = hand["ingest"]
        /\ UNCHANGED <<outbox, disp, req, job, book>>
    BY <1>24, <2>1 DEF HandPcs
  <2>3. Indexing'
    BY <2>2 DEF Indexing
  <2> QED BY <1>23, <2>2, <2>3
\* The book becomes ready: its index job is of its generation, and so its ingest job is done.
<1>33. ASSUME IndexReady PROVE Goal
  <2>1. hand["index"].pc = "ready" /\ UNCHANGED <<outbox, disp, req, job>> /\ UNCHANGED indexVars
    BY <1>33 DEF IndexReady, outboxVars
  <2>2. CASE ~ Current("index")
    <3>1. Goto("index", "fail") /\ book' = book
      BY <1>33, <2>2 DEF IndexReady
    <3> QED BY <1>1, <1>17, <2>1, <3>1 DEF HandPcs
  <2>3. CASE Current("index")
    <3>1. SetStatus("ready") /\ Goto("index", "done")
      BY <1>33, <2>3, NoStops DEF IndexReady
    <3>2. book'.status = "ready" /\ book'.gen = book.gen
      BY <3>1, SetStatusFacts DEF BookTypes
    <3>3. hand'["index"].pc = "done" /\ hand'["ingest"] = hand["ingest"]
      BY <1>1, <3>1, GotoFacts DEF HandPcs
    <3>4. job["index"].active /\ job["index"].gen = book.gen
      BY <1>1, <2>1, <2>3 DEF Current
    <3>5. Generations'
      BY <1>1, <1>g, <1>u, <2>1, <3>2, <3>3, <3>4
    <3>6. Indexing'
      BY <1>i, <2>1, <3>3
    <3>7. Indexed'
      <4>1. /\ vectors = Batches("semantic", run) /\ lexical = Batches("lexical", run) /\ run = chunks
            /\ sync[<<"semantic", "qdrant">>] = "synced" /\ sync[<<"lexical", "opensearch">>] = "synced"
        BY <2>1, <3>4 DEF Indexing
      <4>2. sync = Synced
        BY <1>25, <4>1 DEF SyncShape, SyncStatuses, Synced, Pending, Tiers, Engines
      <4> QED BY <2>1, <4>1, <4>2 DEF Indexed, indexVars, Batches
    <3>8. job["ingest"].active => job["ingest"].gen = book.gen /\ hand["ingest"].pc = "done"
      <4>1. job["ingest"].active => job["ingest"].gen <= book.gen /\ book.gen <= job["ingest"].gen
        BY <1>1, <3>4 DEF Generations
      <4>2. job["ingest"].active => job["ingest"].gen = book.gen
        BY <1>1, <4>1
      <4> QED BY <3>4, <4>2 DEF Generations
    <3>9. ReadyQuiet'
      BY <1>1, <2>1, <3>2, <3>3, <3>4, <3>7, <3>8 DEF ReadyQuiet
    <3> QED BY <3>2, <3>5, <3>6, <3>9 DEF GenerationRises
  <2> QED BY <2>2, <2>3
<1>34. ASSUME NEW q \in Queues, WorkerCrash(q) PROVE Goal
  BY <1>34, NoStops DEF WorkerCrash
<1>35. CASE UNCHANGED vars
  BY <1>3, <1>u, <1>35 DEF vars, bookVars, outboxVars, queueVars
<1> QED
  BY <1>1, <1>5, <1>6, <1>7, <1>8, <1>9, <1>10, <1>11, <1>12, <1>13, <1>15, <1>16, <1>18, <1>20, <1>21, <1>22,
     <1>26, <1>27, <1>28, <1>29, <1>30, <1>31, <1>32, <1>33, <1>34, <1>35
  DEF Next, DispatchStep, DispatchFault, IngestStep, IndexerStep, HandlerFault

\* An environment without stops and lost replies keeps the parts of ReadyInv.
LEMMA ReadyInvCorrect ==
    ASSUME OrderlyRequests
    PROVE  Spec => []ReadyInv /\ [][RefusesOrMisses => GenerationRises]_vars
<1>1. Init => ReadyInv
  <2> SUFFICES ASSUME Init PROVE ClaimedOnce /\ Generations /\ Indexing /\ ReadyQuiet
    BY DEF ReadyInv
  <2> QED BY DEF Init, ClaimedOnce, NoBatch, Generations, Waiting, NoRequest, NoActiveJob, NoHandler, Indexing,
             ReadyQuiet, NoBook, Queues
<1>2. PipelineInv /\ PipelineInv' /\ ReadyInv /\ [Next]_vars => ReadyInv' /\ [RefusesOrMisses => GenerationRises]_vars
  <2> SUFFICES ASSUME PipelineInv, PipelineInv', ReadyInv, [Next]_vars PROVE ReadyInv' /\ (RefusesOrMisses => GenerationRises)
    OBVIOUS
  <2>1. RefusesOrMisses' <=> RefusesOrMisses
    BY DEF RefusesOrMisses, Next, vars
  <2>2. CASE ~ RefusesOrMisses
    BY <2>1, <2>2 DEF ReadyInv
  <2>3. CASE RefusesOrMisses
    <3>1. ClaimedOnce'
      BY <2>3, ClaimedOnceStep DEF PipelineInv, ReadyInv
    <3>2. Generations' /\ Indexing' /\ ReadyQuiet' /\ GenerationRises
      BY <2>3, ReadyStep DEF PipelineInv, ReadyInv
    <3> QED BY <3>1, <3>2 DEF ReadyInv
  <2> QED BY <2>2, <2>3
<1> QED BY <1>1, <1>2, PipelineInvCorrect, PTL DEF Spec

\* A ready book is searchable, however often runs failed half-way, were retried or were
\* superseded by a reprocess: each engine holds exactly the chunks of its tier that are in
\* Postgres, and each chunk's status says so.
THEOREM ReadyIsIndexedCorrect ==
    ASSUME OrderlyRequests
    PROVE  Spec => []ReadyIsIndexed
<1>1. ReadyInv => ReadyIsIndexed
  BY DEF ReadyInv, ReadyQuiet, ReadyIsIndexed
<1> QED BY <1>1, ReadyInvCorrect, PTL

\* A book stays ready until a user reprocesses it: no retry, late message or stale job takes it
\* back to processing or failed.
THEOREM ReadyUntilReprocessedCorrect ==
    ASSUME OrderlyRequests
    PROVE  Spec => ReadyUntilReprocessed
<1>1. [RefusesOrMisses => GenerationRises]_vars
      => [RefusesOrMisses /\ book.status = "ready" /\ book'.status # "ready" => book'.gen > book.gen]_vars
  BY DEF GenerationRises
<1> QED BY <1>1, ReadyInvCorrect, PTL DEF ReadyUntilReprocessed

-----------------------------------------------------------------------------
(* A queued book. *)

\* The book waits for its first run; an upload that was enqueued has left a job.
Stands == book.status = "queued" /\ ~ book.deleted
Worked == Stands => job["ingest"].active

\* A book that is only uploaded and deleted has one generation, and a message that has it.
OneGeneration ==
    /\ book.status # "absent" => book.gen = 1 /\ \E m \in Msgs : outbox[m].state # "absent"
    /\ book.status = "absent" => /\ \A m \in Msgs : outbox[m].state = "absent"
                                 /\ \A q \in Queues : ~ job[q].active
    /\ \A m \in Msgs : outbox[m].state # "absent" => outbox[m].gen = 1
    /\ \A q \in Queues : job[q].active => job[q].gen = 1
    /\ \A d \in Dispatchers : \A m \in disp[d].batch : outbox[m].state # "absent"
    /\ \A r \in Requests : req[r].op = "none"

\* A message counts as dispatched only when it has left a job, and the job ends only when the
\* book waits no more.
Past == {"done", "erred", "parse", "replace", "enqueue"}
WorkedInv ==
    /\ \A m \in Msgs : outbox[m].state = "sent" => Worked
    /\ \A d \in Dispatchers : disp[d].pc = "mark" => Worked
    /\ hand["ingest"].pc \in Past => ~ Stands

\* Users upload and delete, and no report of a failure is lost; all other faults may happen.
UploadsOnly ==
    \A e \in Environments : e.operations \subseteq {"delete"} /\ "statusError" \notin e.faults

\* What settling a message does, whether the book service's database answers or not.
LEMMA SettleEffects ==
    ASSUME BookTypes, DispTypes, NEW d \in Dispatchers, MarkOutboxDispatched(d) \/ ReleaseOutboxMessage(d)
    PROVE  /\ \A m \in Msgs : /\ outbox'[m].gen = outbox[m].gen
                              /\ \/ outbox'[m].state = outbox[m].state
                                 \/ disp[d].pc = "mark" /\ m \in disp[d].msg /\ outbox'[m].state = "sent"
           /\ disp'[d].pc # "mark" /\ disp'[d].batch \subseteq disp[d].batch
           /\ \A c \in Dispatchers : c # d => disp'[c] = disp[c]
<1>1. Advance(d)
  BY DEF MarkOutboxDispatched, ReleaseOutboxMessage
<1>2. /\ disp'[d].pc # "mark" /\ disp'[d].batch \subseteq disp[d].batch
      /\ \A c \in Dispatchers : c # d => disp'[c] = disp[c]
  BY <1>1, AdvanceFacts
<1>3. \A m \in Msgs : outbox[m] \in [gen : Nat, state : {"absent", "unsent", "sent"}, lock : {"free", "held", "expired"}]
  BY DEF BookTypes
<1>4. CASE outbox' = outbox
  BY <1>2, <1>4
<1>5. CASE /\ outbox' = [m \in Msgs |-> IF m \in disp[d].msg THEN [outbox[m] EXCEPT !.state = "sent", !.lock = "free"] ELSE outbox[m]]
           /\ disp[d].pc = "mark"
  <2>1. \A m \in Msgs : /\ outbox'[m].gen = outbox[m].gen
                        /\ m \notin disp[d].msg => outbox'[m] = outbox[m]
                        /\ m \in disp[d].msg => outbox'[m].state = "sent"
    BY <1>3, <1>5
  <2> QED BY <1>2, <1>5, <2>1
<1>6. CASE outbox' = [m \in Msgs |-> IF m \in disp[d].msg THEN [outbox[m] EXCEPT !.lock = "free"] ELSE outbox[m]]
  <2>1. \A m \in Msgs : outbox'[m].gen = outbox[m].gen /\ outbox'[m].state = outbox[m].state
    BY <1>3, <1>6
  <2> QED BY <1>2, <2>1
<1> QED BY <1>4, <1>5, <1>6 DEF MarkOutboxDispatched, ReleaseOutboxMessage

\* Every step keeps a job or an unsent message for the book that waits.
LEMMA WorkedStep ==
    ASSUME UploadsOnly, BookTypes, DispTypes, QueueTypes, OneGeneration, WorkedInv, [Next]_vars
    PROVE  OneGeneration' /\ WorkedInv'
<1> DEFINE Goal == OneGeneration' /\ WorkedInv'
<1>1. /\ "ingest" \in Queues /\ "index" \in Queues /\ \A q \in Queues : q = "ingest" \/ q = "index"
      /\ env.operations \subseteq {"delete"} /\ "statusError" \notin env.faults
      /\ \A q \in Queues : /\ hand[q].pc # "idle" => job[q].active
                           /\ job[q].active => job[q].gen = 1 /\ book.status # "absent" /\ book.gen = 1
      /\ \A r \in Requests : req[r].op = "none"
  BY DEF Queues, QueueTypes, BookTypes, UploadsOnly, OneGeneration
<1>o. ASSUME book'.gen = book.gen, (book'.status = "absent") <=> (book.status = "absent"),
             \A m \in Msgs : outbox'[m].gen = outbox[m].gen /\ ((outbox'[m].state = "absent") <=> (outbox[m].state = "absent")),
             \A d \in Dispatchers : \A m \in disp'[d].batch : m \in Msgs /\ outbox[m].state # "absent",
             req' = req,
             \A q \in Queues : job'[q].active => job'[q].gen = 1 /\ book.status # "absent"
      PROVE  OneGeneration'
  BY <1>o DEF OneGeneration
<1>w. ASSUME Stands' => Stands /\ (job["ingest"].active => job'["ingest"].active),
             \A m \in Msgs : outbox'[m].state = "sent" => outbox[m].state = "sent" \/ \E d \in Dispatchers : disp[d].pc = "mark",
             \A d \in Dispatchers : disp'[d].pc = "mark" => disp[d].pc = "mark" \/ job'["ingest"].active,
             hand'["ingest"].pc \in Past => hand["ingest"].pc \in Past \/ ~ Stands'
      PROVE  WorkedInv'
  BY <1>w DEF WorkedInv, Worked
<1>b. \A d \in Dispatchers : \A m \in disp[d].batch : m \in Msgs /\ outbox[m].state # "absent"
  BY DEF DispTypes, OneGeneration
\* A step that leaves the outbox and the dispatchers alone.
<1>2. ASSUME UNCHANGED <<outbox, disp, req>>, book'.gen = book.gen, (book'.status = "absent") <=> (book.status = "absent"),
             \A q \in Queues : job'[q].active => job'[q].gen = 1 /\ book.status # "absent",
             Stands' => Stands /\ (job["ingest"].active => job'["ingest"].active),
             hand'["ingest"].pc \in Past => hand["ingest"].pc \in Past \/ ~ Stands'
      PROVE  Goal
  BY <1>2, <1>o, <1>w, <1>b
<1>3. ASSUME UploadBook PROVE Goal
  <2>1. PICK row \in Row : SaveBookAndOutbox(row) /\ row.status = "queued" /\ row.gen = 1
    <3>1. PICK row : row = [status |-> "queued", gen |-> 1, deleted |-> FALSE]
      OBVIOUS
    <3>2. row \in Row /\ row.status = "queued" /\ row.gen = 1
      BY <3>1 DEF Row
    <3> QED BY <1>3, <3>1, <3>2 DEF UploadBook
  <2>2. book.status = "absent" /\ UNCHANGED <<disp, job, hand, req>>
    BY <1>3 DEF UploadBook, queueVars
  <2>3. /\ \A m \in Msgs : outbox[m].state = "absent"
        /\ \A q \in Queues : ~ job[q].active /\ hand[q].pc = "idle"
        /\ \A d \in Dispatchers : disp[d].batch = {} /\ disp[d].pc # "mark"
    <3>1. \A m \in Msgs : outbox[m].state = "absent"
      BY <2>2 DEF OneGeneration
    <3>2. \A d \in Dispatchers : disp[d].batch = {}
      BY <1>b, <3>1
    <3>3. \A d \in Dispatchers : disp[d].pc # "mark"
      BY <3>2 DEF DispTypes
    <3> QED BY <1>1, <2>2, <3>1, <3>2, <3>3
  <2>4. PICK m \in Msgs : /\ outbox'[m].gen = row.gen /\ outbox'[m].state = "unsent"
                          /\ \A n \in Msgs : n # m => outbox'[n] = outbox[n]
    BY <2>1, SaveFacts
  <2>5. book' = row
    BY <2>1, SaveFacts
  <2>6. OneGeneration'
    BY <1>1, <2>1, <2>2, <2>3, <2>4, <2>5 DEF OneGeneration
  <2>7. WorkedInv'
    BY <1>1, <2>2, <2>3, <2>4 DEF WorkedInv, Past
  <2> QED BY <2>6, <2>7
<1>4. ASSUME DeleteBook PROVE Goal
  <2>1. book'.gen = book.gen /\ book'.status = book.status /\ book'.deleted
    BY <1>4 DEF DeleteBook, BookTypes, Row
  <2>2. UNCHANGED <<outbox, disp, req, job, hand>>
    BY <1>4 DEF DeleteBook, outboxVars, queueVars
  <2> QED BY <1>1, <1>2, <2>1, <2>2 DEF Stands
<1>5. ASSUME NEW r \in Requests, RequestStep(r) PROVE Goal
  BY <1>1, <1>5 DEF RequestStep, UpdateBookRead, UpdateBookSave, ReprocessBookRead, ReprocessBookSave, GetBook
\* The outbox.
<1>6. ASSUME UNCHANGED <<book, req, hand>>,
             \A m \in Msgs : outbox'[m].gen = outbox[m].gen /\ ((outbox'[m].state = "absent") <=> (outbox[m].state = "absent")),
             \A d \in Dispatchers : \A m \in disp'[d].batch : m \in Msgs /\ outbox[m].state # "absent",
             \A m \in Msgs : outbox'[m].state = "sent" => outbox[m].state = "sent" \/ \E d \in Dispatchers : disp[d].pc = "mark",
             \A d \in Dispatchers : disp'[d].pc = "mark" => disp[d].pc = "mark" \/ job'["ingest"].active,
             job["ingest"].active => job'["ingest"].active,
             \A q \in Queues : job'[q].active => job'[q].gen = 1 /\ book.status # "absent"
      PROVE  Goal
  BY <1>6, <1>o, <1>w DEF Stands
<1>7. ASSUME NEW d \in Dispatchers, ClaimOutboxMessages(d) PROVE Goal
  <2>1. PICK batch \in SUBSET {m \in Msgs : Claimable(m)} :
          /\ outbox' = [m \in Msgs |-> IF m \in batch THEN [outbox[m] EXCEPT !.lock = "held"] ELSE outbox[m]]
          /\ disp' = [disp EXCEPT ![d] = [pc |-> "enqueue", batch |-> batch, msg |-> {}]]
    BY <1>7 DEF ClaimOutboxMessages
  <2>2. \A m \in Msgs : outbox'[m].state = outbox[m].state /\ outbox'[m].gen = outbox[m].gen
    BY <2>1 DEF BookTypes
  <2>3. /\ disp'[d].pc = "enqueue" /\ disp'[d].batch = batch /\ \A c \in Dispatchers : c # d => disp'[c] = disp[c]
        /\ \A m \in batch : m \in Msgs /\ outbox[m].state = "unsent"
    BY <2>1 DEF DispTypes, Claimable
  <2>4. UNCHANGED <<book, req, job, hand>>
    BY <1>7 DEF ClaimOutboxMessages, bookVars, queueVars
  <2>5. \A c \in Dispatchers : \A m \in disp'[c].batch : m \in Msgs /\ outbox[m].state # "absent"
    BY <1>b, <2>3
  <2> QED BY <1>1, <1>6, <2>2, <2>3, <2>4, <2>5
<1>8. ASSUME NEW m \in Msgs, LeaseExpires(m) PROVE Goal
  <2>1. disp' = disp /\ \A n \in Msgs : outbox'[n].state = outbox[n].state /\ outbox'[n].gen = outbox[n].gen
    BY <1>8 DEF LeaseExpires, BookTypes
  <2>2. UNCHANGED <<book, req, job, hand>>
    BY <1>8 DEF LeaseExpires, bookVars, queueVars
  <2> QED BY <1>1, <1>6, <1>b, <2>1, <2>2
\* A message is enqueued: its job is active, whatever the caller sees.
<1>9. ASSUME NEW d \in Dispatchers, NEW m \in Msgs, NEW pc \in {"mark", "release"}, DispatchTo(d, m, pc),
             \/ Enqueue("ingest", outbox[m].gen)
             \/ pc = "release" /\ job' = job
      PROVE  Goal
  <2>1. disp' = [disp EXCEPT ![d].pc = pc, ![d].msg = {m}] /\ m \in disp[d].batch /\ UNCHANGED <<outbox, book, req, hand>>
    BY <1>9 DEF DispatchTo, bookVars
  <2>2. /\ disp'[d].pc = pc /\ disp'[d].batch = disp[d].batch /\ \A c \in Dispatchers : c # d => disp'[c] = disp[c]
    BY <2>1 DEF DispTypes
  <2>3. outbox[m].gen = 1 /\ book.status # "absent"
    BY <1>b, <2>1 DEF OneGeneration
  <2>4. /\ \A q \in Queues : job'[q].active => job'[q].gen = 1
        /\ job["ingest"].active => job'["ingest"].active
        /\ pc = "mark" => job'["ingest"].active
    <3>1. CASE job' = Accept("ingest", 1)
      BY <1>1, <3>1, AcceptFacts
    <3>2. CASE pc = "release" /\ job' = job
      BY <1>1, <3>2
    <3> QED BY <1>9, <2>3, <3>1, <3>2 DEF Enqueue
  <2>5. \A c \in Dispatchers : \A n \in disp'[c].batch : n \in Msgs /\ outbox[n].state # "absent"
    BY <1>b, <2>2
  <2> QED BY <1>6, <2>1, <2>2, <2>3, <2>4, <2>5
<1>10. ASSUME NEW d \in Dispatchers, NEW m \in Msgs, DispatchEnqueue(d, m) \/ DispatchEnqueueFails(d, m) PROVE Goal
  <2>1. CASE DispatchEnqueue(d, m)
    <3>1. DispatchTo(d, m, "mark") /\ Enqueue("ingest", outbox[m].gen)
      BY <2>1 DEF DispatchEnqueue
    <3> QED BY <1>9, <3>1
  <2>2. CASE DispatchEnqueueFails(d, m)
    <3>1. DispatchTo(d, m, "release") /\ (job' = job \/ Enqueue("ingest", outbox[m].gen))
      BY <2>2 DEF DispatchEnqueueFails
    <3> QED BY <1>9, <3>1
  <2> QED BY <1>10, <2>1, <2>2
<1>11. ASSUME NEW d \in Dispatchers, MarkOutboxDispatched(d) \/ ReleaseOutboxMessage(d) PROVE Goal
  <2>1. UNCHANGED <<book, req, job, hand>>
    BY <1>11 DEF MarkOutboxDispatched, ReleaseOutboxMessage, bookVars, queueVars
  <2>2. /\ \A m \in Msgs : /\ outbox'[m].gen = outbox[m].gen
                           /\ \/ outbox'[m].state = outbox[m].state
                              \/ disp[d].pc = "mark" /\ m \in disp[d].msg /\ outbox'[m].state = "sent"
        /\ disp'[d].pc # "mark" /\ disp'[d].batch \subseteq disp[d].batch
        /\ \A c \in Dispatchers : c # d => disp'[c] = disp[c]
    BY <1>11, SettleEffects
  <2>3. \A m \in disp[d].msg : m \in Msgs => outbox[m].state # "absent"
    BY <1>b DEF DispTypes
  <2>4. \A m \in Msgs : (outbox'[m].state = "absent") <=> (outbox[m].state = "absent")
    BY <2>2, <2>3
  <2>5. \A c \in Dispatchers : \A n \in disp'[c].batch : n \in Msgs /\ outbox[n].state # "absent"
    BY <1>b, <2>2
  <2>6. /\ \A m \in Msgs : outbox'[m].state = "sent" => outbox[m].state = "sent" \/ \E c \in Dispatchers : disp[c].pc = "mark"
        /\ \A c \in Dispatchers : disp'[c].pc = "mark" => disp[c].pc = "mark"
    BY <2>2
  <2> QED BY <1>1, <1>6, <2>1, <2>2, <2>4, <2>5, <2>6
<1>12. ASSUME NEW d \in Dispatchers, DispatcherDies(d) PROVE Goal
  <2>1. disp' = [disp EXCEPT ![d] = NoBatch] /\ UNCHANGED <<outbox, book, req, job, hand>>
    BY <1>12 DEF DispatcherDies, bookVars, queueVars
  <2>2. disp'[d].pc # "mark" /\ disp'[d].batch = {} /\ \A c \in Dispatchers : c # d => disp'[c] = disp[c]
    BY <2>1 DEF DispTypes, NoBatch
  <2>3. \A c \in Dispatchers : \A m \in disp'[c].batch : m \in Msgs /\ outbox[m].state # "absent"
    BY <1>b, <2>2
  <2> QED BY <1>1, <1>6, <2>1, <2>2, <2>3
\* The handlers. One that has begun has made the book processing, or found it deleted.
<1>13. ASSUME UNCHANGED <<outbox, disp, req>>, NEW q \in Queues, hand[q].pc # "idle", NEW p \in HandPcs, Goto(q, p),
              \A o \in Queues : job'[o].active => job'[o].gen = 1,
              job["ingest"].active => job'["ingest"].active,
              book' = book \/ \E s \in {"processing", "failed", "ready"} : SetStatus(s),
              q = "ingest" /\ p \in Past => hand[q].pc \in Past \/ book'.status # "queued" \/ book'.deleted
       PROVE  Goal
  <2>1. hand'[q].pc = p /\ \A o \in Queues : o # q => hand'[o] = hand[o]
    BY <1>13, GotoFacts
  <2>2. /\ book'.gen = book.gen /\ book'.deleted = book.deleted
        /\ book'.status = book.status \/ book'.status \in {"processing", "failed", "ready"}
    BY <1>13, SetStatusFacts DEF BookTypes
  <2>3. book.status # "absent"
    BY <1>1, <1>13
  <2> QED BY <1>1, <1>2, <1>13, <2>1, <2>2, <2>3 DEF Stands
<1>14. ASSUME NEW q \in Queues, Deliver(q) PROVE Goal
  <2>1. /\ UNCHANGED <<outbox, disp, req, book>>
        /\ job' = [job EXCEPT ![q].attempts = @ + 1] /\ job[q].active /\ hand[q].pc = "idle" /\ Goto(q, "begin")
    BY <1>14 DEF Deliver, bookVars, outboxVars
  <2>2. hand'[q].pc = "begin" /\ \A o \in Queues : o # q => hand'[o] = hand[o]
    BY <2>1, GotoFacts DEF HandPcs, CallPcs
  <2>3. \A o \in Queues : job'[o].active = job[o].active /\ job'[o].gen = job[o].gen
    BY <2>1 DEF QueueTypes
  <2> QED BY <1>1, <1>2, <2>1, <2>2, <2>3 DEF Stands, Past
<1>15. ASSUME NEW q \in Queues, Finish(q) \/ ReturnError(q) \/ WorkerCrash(q) PROVE Goal
  <2>1. /\ UNCHANGED <<outbox, disp, req, book>> /\ hand' = [hand EXCEPT ![q] = NoHandler]
        /\ \/ job' = [job EXCEPT ![q] = NoActiveJob] /\ hand[q].pc \in {"done", "erred"}
           \/ job' = job
    BY <1>15 DEF Finish, ReturnError, WorkerCrash, bookVars, outboxVars
  <2>2. hand'[q].pc = "idle" /\ \A o \in Queues : o # q => hand'[o] = hand[o]
    BY <2>1, GoneFacts
  <2>3. /\ \A o \in Queues : job'[o].active => job[o].active /\ job'[o].gen = job[o].gen
        /\ job'["ingest"] = job["ingest"] \/ (q = "ingest" /\ hand["ingest"].pc \in Past)
    BY <1>1, <2>1 DEF QueueTypes, NoActiveJob, Past
  <2>4. Stands' => Stands /\ (job["ingest"].active => job'["ingest"].active)
    BY <2>1, <2>3 DEF Stands, WorkedInv
  <2> QED BY <1>1, <1>2, <2>1, <2>2, <2>3, <2>4 DEF Past
<1>16. ASSUME NEW q \in Queues, HandlerError(q) PROVE Goal
  <2>1. UNCHANGED <<outbox, disp, req, book, job>> /\ hand[q].pc # "idle" /\ Goto(q, "fail")
    BY <1>16 DEF HandlerError, CallPcs, bookVars, outboxVars
  <2> QED BY <1>1, <1>13, <2>1 DEF HandPcs, Past
\* A failure is reported: the book has failed, unless it was deleted.
<1>17. ASSUME NEW q \in Queues, ReportFailure(q) PROVE Goal
  <2>1. UNCHANGED <<outbox, disp, req, job>> /\ hand[q].pc = "fail" /\ Goto(q, "erred")
    BY <1>17 DEF ReportFailure, outboxVars
  <2>2. (SetStatus("failed") /\ Current(q)) \/ (book' = book /\ ~ Current(q))
    BY <1>1, <1>17 DEF ReportFailure, Fault
  <2>3. book'.status # "queued" \/ book'.deleted
    <3>1. CASE SetStatus("failed")
      BY <3>1, SetStatusFacts DEF BookTypes
    <3>2. CASE book' = book /\ ~ Current(q)
      <4>1. book.deleted
        BY <1>1, <2>1, <3>2 DEF Current
      <4> QED BY <3>2, <4>1
    <3> QED BY <2>2, <3>1, <3>2
  <2> QED BY <1>1, <1>13, <2>1, <2>2, <2>3 DEF HandPcs
\* A run begins: the book is processing, or it was deleted.
<1>18. ASSUME NEW q \in Queues, NEW next \in HandPcs, Begin(q, next) PROVE Goal
  <2>1. UNCHANGED <<outbox, disp, req, job>> /\ hand[q].pc = "begin"
    BY <1>18 DEF Begin, outboxVars
  <2>2. PICK p \in HandPcs : Goto(q, p)
    BY <1>18 DEF Begin, HandPcs
  <2>3. (SetStatus("processing") /\ Current(q)) \/ (book' = book /\ ~ Current(q))
    BY <1>18 DEF Begin
  <2>4. book'.status # "queued" \/ book'.deleted
    <3>1. CASE SetStatus("processing")
      BY <3>1, SetStatusFacts DEF BookTypes
    <3>2. CASE book' = book /\ ~ Current(q)
      <4>1. book.deleted
        BY <1>1, <2>1, <3>2 DEF Current
      <4> QED BY <3>2, <4>1
    <3> QED BY <2>3, <3>1, <3>2
  <2> QED BY <1>1, <1>13, <2>1, <2>2, <2>3, <2>4
<1>19. ASSUME IngestParse \/ IngestReplaceChunks PROVE Goal
  <2>1. UNCHANGED <<outbox, disp, req, book, job>> /\ hand["ingest"].pc \in {"parse", "replace"}
    BY <1>19 DEF IngestParse, IngestReplaceChunks, bookVars, outboxVars
  <2>2. PICK p \in HandPcs : Goto("ingest", p)
    BY <1>19 DEF IngestParse, IngestReplaceChunks, HandPcs, CallPcs
  <2> QED BY <1>1, <1>13, <2>1, <2>2 DEF Past
<1>20. ASSUME IngestEnqueueIndex \/ IngestEnqueueFails PROVE Goal
  <2>1. UNCHANGED <<outbox, disp, req, book>> /\ hand["ingest"].pc = "enqueue"
    BY <1>20 DEF IngestEnqueueIndex, IngestEnqueueFails, bookVars, outboxVars
  <2>2. PICK p \in HandPcs : Goto("ingest", p)
    BY <1>20 DEF IngestEnqueueIndex, IngestEnqueueFails, HandPcs
  <2>3. job' = job \/ job' = Accept("index", 1)
    BY <1>1, <1>20, <2>1 DEF IngestEnqueueIndex, IngestEnqueueFails, Enqueue
  <2>4. /\ \A o \in Queues : job'[o].active => job'[o].gen = 1
        /\ job["ingest"].active => job'["ingest"].active
    BY <1>1, <2>3, AcceptFacts
  <2> QED BY <1>1, <1>13, <2>1, <2>2, <2>4 DEF Past
<1>21. ASSUME IndexListChunks \/ IndexReady \/ (\E from, to \in HandPcs \ {"idle"} : IndexStep(from, to)) PROVE Goal
  <2>1. UNCHANGED <<outbox, disp, req, job>> /\ hand["index"].pc # "idle"
    BY <1>21 DEF IndexListChunks, IndexReady, IndexStep, bookVars, outboxVars
  <2>2. CASE IndexListChunks
    <3>1. hand'["ingest"] = hand["ingest"] /\ UNCHANGED book
      BY <2>2 DEF IndexListChunks, QueueTypes, Queues, bookVars
    <3> QED BY <1>1, <1>2, <2>1, <3>1 DEF Stands
  <2>3. CASE IndexReady \/ \E from, to \in HandPcs \ {"idle"} : IndexStep(from, to)
    <3>1. PICK p \in HandPcs : Goto("index", p)
      BY <2>3 DEF IndexReady, IndexStep, HandPcs
    <3>2. book' = book \/ SetStatus("ready")
      BY <2>3 DEF IndexReady, IndexStep, bookVars
    <3> QED BY <1>1, <1>13, <2>1, <3>1, <3>2
  <2> QED BY <1>21, <2>2, <2>3
<1>22. ASSUME IndexerStep PROVE Goal
  <2>1. CASE \/ IndexDeleteVectors \/ IndexDeleteLexical \/ IndexEmbedAndStore \/ IndexEmbedFails \/ IndexVectorsSynced
             \/ IndexLexical \/ IndexLexicalFails \/ IndexLexicalSynced
    <3>1. \E from, to \in HandPcs \ {"idle"} : IndexStep(from, to)
      BY <2>1 DEF IndexDeleteVectors, IndexDeleteLexical, IndexEmbedAndStore, IndexEmbedFails, IndexVectorsSynced,
         IndexLexical, IndexLexicalFails, IndexLexicalSynced, HandPcs, CallPcs
    <3> QED BY <1>21, <3>1
  <2>2. CASE IndexBegin
    BY <1>1, <1>18, <2>2 DEF IndexBegin, HandPcs, CallPcs
  <2> QED BY <1>1, <1>14, <1>15, <1>16, <1>17, <1>21, <1>22, <2>1, <2>2 DEF IndexerStep
<1>23. ASSUME IngestStep PROVE Goal
  <2>1. CASE IngestBegin
    BY <1>1, <1>18, <2>1 DEF IngestBegin, HandPcs, CallPcs
  <2> QED BY <1>1, <1>14, <1>15, <1>16, <1>17, <1>19, <1>20, <1>23, <2>1 DEF IngestStep
<1>24. CASE UNCHANGED vars
  BY <1>1, <1>2, <1>24 DEF vars, bookVars, outboxVars, queueVars, Stands
<1> QED
  BY <1>3, <1>4, <1>5, <1>7, <1>8, <1>10, <1>11, <1>12, <1>15, <1>20, <1>22, <1>23, <1>24
  DEF Next, DispatchStep, DispatchFault, HandlerFault

\* A queued book has an outbox message still to be dispatched or an ingest job, of its
\* generation: whichever call of dispatchPendingIngestOutbox or of the services fails, dies or
\* loses its reply, an upload is not lost. (A lost report of a failure, and a reprocess while an
\* earlier generation is active, are what may lose it.)
THEOREM QueuedHasWorkCorrect ==
    ASSUME UploadsOnly
    PROVE  Spec => []QueuedHasWork
<1> DEFINE Inv == OneGeneration /\ WorkedInv
<1>1. Init => Inv
  BY DEF Init, NoBook, NoRequest, NoBatch, NoActiveJob, NoHandler, OneGeneration, WorkedInv, Past, Queues
<1>2. PipelineInv /\ Inv /\ [Next]_vars => Inv'
  BY WorkedStep DEF PipelineInv
<1>3. PipelineInv /\ Inv => QueuedHasWork
  <2> SUFFICES ASSUME PipelineInv, Inv, Stands PROVE \/ \E m \in Msgs : outbox[m].gen = book.gen /\ outbox[m].state = "unsent"
                                                     \/ job["ingest"].active /\ job["ingest"].gen = book.gen
    BY DEF QueuedHasWork, Stands
  <2>1. book.gen = 1 /\ book.status # "absent"
    BY DEF Stands, OneGeneration
  <2>2. PICK m \in Msgs : outbox[m].state # "absent"
    BY <2>1 DEF OneGeneration
  <2>3. outbox[m].gen = 1 /\ outbox[m].state \in {"unsent", "sent"}
    BY <2>2 DEF OneGeneration, PipelineInv, BookTypes
  <2>4. CASE outbox[m].state = "sent"
    BY <2>1, <2>4 DEF WorkedInv, Worked, OneGeneration, Queues
  <2> QED BY <2>1, <2>3, <2>4
<1> QED BY <1>1, <1>2, <1>3, PipelineInvCorrect, PTL DEF Spec


=============================================================================
