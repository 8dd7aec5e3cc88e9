---------------------------- MODULE BookUploads ----------------------------
(***************************************************************************)
(* The book service around a book's file: uploads made once per            *)
(* idempotency key, the object that holds the file, deletion of a book and *)
(* the worker that cleans up after it.  What happens to the book's status  *)
(* and index is module Pipeline.                                           *)
(*                                                                         *)
(* A step is one statement or transaction on the database or one call to   *)
(* the object store or the search index.                                   *)
(***************************************************************************)
EXTENDS Naturals, FiniteSets, Idempotency

CONSTANTS
    BookKeys,      \* idempotency keys of uploads
    Hashes,        \* uploadRequestHash: owner, file name, size, category, tags
    Books,         \* book ids: numbers, in the order they are made
    BookCalls,     \* requests in progress
    MaxFaults      \* bound: failures of the cleanup's calls, and stops of the service

ASSUME BookUploadsAssumption ==
    Books \subseteq Nat \ {0} /\ "none" \notin Hashes \cup BookKeys /\ MaxFaults \in Nat

VARIABLES
    bookRecord,    \* idempotency_record_models
    book,          \* book_models: the rows
    object,        \* the object store: books whose file is stored
    bookCall,      \* the locals of each request
    cleaner,       \* the locals of the cleanup worker
    faults,        \* failures so far
    excused,       \* history: keys retried twice at once, or whose commit was in doubt
    undeleted,     \* history: books that a row read before their deletion brought back
    stranded       \* history: books whose cleanup was cut off while it was running

bookVars == <<bookRecord, book, object, bookCall, cleaner, faults, excused, undeleted, stranded>>

NoBook == [state |-> "none", cleanup |-> "none", key |-> "none"]
NoBookCall == [pc |-> "idle", key |-> "none", hash |-> "none", book |-> 0]
NoCleanup == [pc |-> "idle", todo |-> {}, book |-> 0]

BookUploadsTypeOK ==
    /\ \A k \in BookKeys : bookRecord[k].state \in RecordStates
    /\ book \in [Books -> [state: {"none", "live", "deleted"},
                           cleanup: {"none", "queued", "running", "failed"},
                           key: BookKeys \cup {"none"}]]
    /\ object \subseteq Books /\ undeleted \subseteq Books /\ stranded \subseteq Books
    /\ excused \subseteq BookKeys /\ faults \in 0 .. MaxFaults
    /\ \A c \in BookCalls : bookCall[c].book \in Books \cup {0}
    /\ cleaner.todo \subseteq Books /\ cleaner.book \in Books \cup {0}

BookAt(c, pc) == bookCall[c].pc = pc
BookGo(c, pc) == bookCall' = [bookCall EXCEPT ![c].pc = pc]
BookReturn(c) == bookCall' = [bookCall EXCEPT ![c] = NoBookCall]

\* The ids not taken by a row, a file or a request: util.NewID.
UnusedBook == {b \in Books : /\ book[b].key = "none" /\ b \notin object
                             /\ \A c \in BookCalls : bookCall[c].book # b}
NewBookID == CHOOSE b \in UnusedBook : \A d \in UnusedBook : b <= d

\* GetBook: the row, unless it is deleted.
GetBook(b) == book[b].state = "live"

-----------------------------------------------------------------------------
(* UploadBook *)

\* handleUploadBook: the form is checked; then the record of the key is read.
UploadBook(c) ==
    \E k \in BookKeys, h \in Hashes :
        /\ BookAt(c, "idle") /\ UnusedBook # {}
        /\ bookCall' = [bookCall EXCEPT ![c] = [pc |-> "look", key |-> k, hash |-> h, book |-> 0]]
        /\ UNCHANGED <<bookRecord, book, object, cleaner, faults, excused, undeleted, stranded>>

\* A completed record answers with its book, if that is not deleted by now.
beginBookIdempotency(c) ==
    LET verdict == FirstLook(bookRecord[bookCall[c].key], bookCall[c].hash)
    IN  /\ BookAt(c, "look")
        /\ IF verdict \in {"insert", "retry"} THEN BookGo(c, verdict) ELSE BookReturn(c)
        /\ UNCHANGED <<bookRecord, book, object, cleaner, faults, excused, undeleted, stranded>>

\* As it would be without the unique index.
InsertAnyway(c) ==
    /\ bookCall[c].pc \in {"insert", "retry"} /\ UnusedBook # {}
    /\ bookRecord' = [bookRecord EXCEPT ![bookCall[c].key] = Processing(bookCall[c].hash)]
    /\ bookCall' = [bookCall EXCEPT ![c].pc = "put", ![c].book = NewBookID]
    /\ UNCHANGED <<book, object, cleaner, faults, excused, undeleted, stranded>>

\* The record of a new key is inserted, unless the index has one by now; the record of a
\* failed request is updated, whatever its state is by now.  The book gets its id.
SaveIdempotencyRecord(c) ==
    LET k == bookCall[c].key
        free == BookAt(c, "insert") => bookRecord[k].state = "none"
    IN  /\ bookCall[c].pc \in {"insert", "retry"}
        /\ \/ /\ free /\ UnusedBook # {}
              /\ bookRecord' = [bookRecord EXCEPT ![k] = Processing(bookCall[c].hash)]
              /\ bookCall' = [bookCall EXCEPT ![c].pc = "put", ![c].book = NewBookID]
              /\ excused' = IF BookAt(c, "retry") /\ bookRecord[k].state # "failed"
                            THEN excused \cup {k} ELSE excused
           \/ /\ ~ free \/ UnusedBook = {}
              /\ BookReturn(c) /\ UNCHANGED <<bookRecord, excused>>
        /\ UNCHANGED <<book, object, cleaner, faults, undeleted, stranded>>

\* As it would be if the error of the object store were dropped.
PutUnchecked(c) ==
    /\ BookAt(c, "put")
    /\ object' \in {object, object \cup {bookCall[c].book}} /\ BookGo(c, "save")
    /\ UNCHANGED <<bookRecord, book, cleaner, faults, excused, undeleted, stranded>>

\* objects.Put
PutObject(c) ==
    /\ BookAt(c, "put")
    /\ \/ object' = object \cup {bookCall[c].book} /\ BookGo(c, "save")
       \/ UNCHANGED object /\ BookGo(c, "markFailed")
    /\ UNCHANGED <<bookRecord, book, cleaner, faults, excused, undeleted, stranded>>

\* The book, the completed record and the outbox message are one transaction.  It may
\* also fail after it took effect, when the answer to the commit is lost.
SaveBookAndOutbox(c) ==
    LET k == bookCall[c].key
        b == bookCall[c].book
        Committed ==
            /\ book' = [book EXCEPT ![b] = [state |-> "live", cleanup |-> "none", key |-> k]]
            /\ bookRecord' = [bookRecord EXCEPT ![k] = Completed(bookCall[c].hash, b)]
    IN  /\ BookAt(c, "save")
        /\ \/ Committed /\ BookReturn(c) /\ UNCHANGED excused
           \/ Committed /\ BookGo(c, "deleteObject") /\ excused' = excused \cup {k}
           \/ BookGo(c, "deleteObject") /\ UNCHANGED <<book, bookRecord, excused>>
        /\ UNCHANGED <<object, cleaner, faults, undeleted, stranded>>

\* The file of a book that was not saved is deleted; an error of that is dropped.
DeleteObject(c) ==
    /\ BookAt(c, "deleteObject")
    /\ object' \in {object, object \ {bookCall[c].book}}
    /\ BookGo(c, "markFailed")
    /\ UNCHANGED <<bookRecord, book, cleaner, faults, excused, undeleted, stranded>>

\* The error of this statement is dropped too: then the record stays processing.
markBookIdempotencyFailed(c) ==
    /\ BookAt(c, "markFailed")
    /\ bookRecord' \in {bookRecord, [bookRecord EXCEPT ![bookCall[c].key] = FailedRecord(bookCall[c].hash)]}
    /\ BookReturn(c)
    /\ UNCHANGED <<book, object, cleaner, faults, excused, undeleted, stranded>>

\* The service stops in the middle of a request.
BookCallStops(c) ==
    /\ ~ BookAt(c, "idle") /\ faults < MaxFaults
    /\ faults' = faults + 1
    /\ BookReturn(c)
    /\ UNCHANGED <<bookRecord, book, object, cleaner, excused, undeleted, stranded>>

-----------------------------------------------------------------------------
(* Updating and deleting a book *)

\* UpdateBook and ReprocessBook read the row, not deleted, and write the whole of it back.
ReadBook(c) ==
    \E b \in Books :
        /\ BookAt(c, "idle") /\ GetBook(b)
        /\ bookCall' = [bookCall EXCEPT ![c] = [pc |-> "write", key |-> book[b].key, hash |-> "none", book |-> b]]
        /\ UNCHANGED <<bookRecord, book, object, cleaner, faults, excused, undeleted, stranded>>

SaveBook(c) ==
    LET b == bookCall[c].book
    IN  /\ BookAt(c, "write")
        /\ book' = [book EXCEPT ![b] = [state |-> "live", cleanup |-> "none", key |-> bookCall[c].key]]
        /\ undeleted' = IF book[b].state = "live" THEN undeleted ELSE undeleted \cup {b}
        /\ BookReturn(c)
        /\ UNCHANGED <<bookRecord, object, cleaner, faults, excused, stranded>>

\* DeleteBook reads the row, deleted or not.  A book whose cleanup failed is queued for
\* another; one whose cleanup is queued or running is left alone.
DeleteBook(c) ==
    \E b \in Books :
        /\ BookAt(c, "idle") /\ book[b].state # "none"
        /\ \/ book[b].state = "live"
              /\ bookCall' = [bookCall EXCEPT ![c] = [NoBookCall EXCEPT !.pc = "markDeleted", !.book = b]]
           \/ book[b].state = "deleted" /\ book[b].cleanup = "failed"
              /\ bookCall' = [bookCall EXCEPT ![c] = [NoBookCall EXCEPT !.pc = "requeue", !.book = b]]
        /\ UNCHANGED <<bookRecord, book, object, cleaner, faults, excused, undeleted, stranded>>

MarkBookDeleted(c) ==
    LET b == bookCall[c].book
    IN  /\ BookAt(c, "markDeleted")
        /\ book' = IF book[b].state = "live"
                   THEN [book EXCEPT ![b].state = "deleted", ![b].cleanup = "queued"] ELSE book
        /\ BookReturn(c)
        /\ UNCHANGED <<bookRecord, object, cleaner, faults, excused, undeleted, stranded>>

\* UpdateBookCleanup writes by id: a deleted row, a row brought back, or none.
UpdateBookCleanup(b, status) ==
    book' = IF book[b].state = "none" THEN book ELSE [book EXCEPT ![b].cleanup = status]

RequeueCleanup(c) ==
    /\ BookAt(c, "requeue")
    /\ UpdateBookCleanup(bookCall[c].book, "queued")
    /\ BookReturn(c)
    /\ UNCHANGED <<bookRecord, object, cleaner, faults, excused, undeleted, stranded>>

-----------------------------------------------------------------------------
(* The cleanup worker *)

\* As it would be if a failed cleanup were not taken up again.
QueuedCleanup == {b \in Books : book[b].state = "deleted" /\ book[b].cleanup = "queued"}

\* Deleted books whose cleanup has not begun, or failed.
PendingCleanup == {b \in Books : book[b].state = "deleted" /\ book[b].cleanup \in {"queued", "failed"}}

\* The pending books, up to a page of them, become running in one transaction.
ClaimBooksPendingCleanup ==
    /\ cleaner.pc = "idle" /\ PendingCleanup # {}
    /\ book' = [b \in Books |-> IF b \in PendingCleanup THEN [book[b] EXCEPT !.cleanup = "running"] ELSE book[b]]
    /\ cleaner' = [pc |-> "next", todo |-> PendingCleanup, book |-> 0]
    /\ UNCHANGED <<bookRecord, object, bookCall, faults, excused, undeleted, stranded>>

CleanerGo(pc) == cleaner' = [cleaner EXCEPT !.pc = pc]

\* The call of this step fails: the row says so, if that statement does not fail as well.
CleanupFails ==
    /\ faults < MaxFaults /\ faults' = faults + 1
    /\ \/ UpdateBookCleanup(cleaner.book, "failed") /\ UNCHANGED stranded
       \/ UNCHANGED book /\ stranded' = stranded \cup {cleaner.book}
    /\ cleaner' = [cleaner EXCEPT !.pc = "next", !.book = 0]
    /\ UNCHANGED object

\* The books of a batch one after the other, in the order of their last cleanup.
NextCleanup ==
    /\ cleaner.pc = "next"
    /\ \/ \E b \in cleaner.todo : cleaner' = [pc |-> "search", todo |-> cleaner.todo \ {b}, book |-> b]
       \/ cleaner.todo = {} /\ cleaner' = NoCleanup
    /\ UNCHANGED <<bookRecord, book, object, bookCall, faults, excused, undeleted, stranded>>

\* cleanupDeletedBook: search index, object, rows.
CleanupSearch ==
    /\ cleaner.pc = "search"
    /\ \/ CleanerGo("object") /\ UNCHANGED <<book, object, faults, stranded>>
       \/ CleanupFails
    /\ UNCHANGED <<bookRecord, bookCall, excused, undeleted>>

CleanupObject ==
    /\ cleaner.pc = "object"
    /\ \/ CleanerGo("row") /\ object' = object \ {cleaner.book} /\ UNCHANGED <<book, faults, stranded>>
       \/ CleanupFails
    /\ UNCHANGED <<bookRecord, bookCall, excused, undeleted>>

CleanupRow ==
    /\ cleaner.pc = "row"
    /\ \/ /\ book' = [book EXCEPT ![cleaner.book].state = "none", ![cleaner.book].cleanup = "none"]
          /\ cleaner' = [cleaner EXCEPT !.pc = "next", !.book = 0]
          /\ UNCHANGED <<object, faults, stranded>>
       \/ CleanupFails
    /\ UNCHANGED <<bookRecord, bookCall, excused, undeleted>>

\* The service stops: the books it had claimed stay running.
CleanerStops ==
    /\ cleaner.pc # "idle" /\ faults < MaxFaults
    /\ faults' = faults + 1
    /\ stranded' = stranded \cup cleaner.todo \cup ({cleaner.book} \ {0})
    /\ cleaner' = NoCleanup
    /\ UNCHANGED <<bookRecord, book, object, bookCall, excused, undeleted>>

-----------------------------------------------------------------------------
BookUploadsInit ==
    /\ bookRecord = [k \in BookKeys |-> NoRecord]
    /\ book = [b \in Books |-> NoBook]
    /\ object = {} /\ undeleted = {} /\ stranded = {} /\ excused = {} /\ faults = 0
    /\ bookCall = [c \in BookCalls |-> NoBookCall]
    /\ cleaner = NoCleanup

CleanerStep ==
    ClaimBooksPendingCleanup \/ NextCleanup \/ CleanupSearch \/ CleanupObject \/ CleanupRow

BookUploadsNext ==
    \/ CleanerStep \/ CleanerStops
    \/ \E c \in BookCalls :
        \/ UploadBook(c) \/ beginBookIdempotency(c) \/ SaveIdempotencyRecord(c) \/ PutObject(c)
        \/ SaveBookAndOutbox(c) \/ DeleteObject(c) \/ markBookIdempotencyFailed(c)
        \/ ReadBook(c) \/ SaveBook(c) \/ DeleteBook(c) \/ MarkBookDeleted(c) \/ RequeueCleanup(c)
        \/ BookCallStops(c)

BookUploadsSpec ==
    BookUploadsInit /\ [][BookUploadsNext]_bookVars /\ WF_bookVars(CleanerStep)

-----------------------------------------------------------------------------
(* What the service promises *)

\* Retries of an upload with the same idempotency key make one book, whichever requests
\* overlap and whichever step fails; the keys excused are the ones retried twice at once
\* after a failure, and the ones whose commit was in doubt.
OneBookPerKey ==
    \A k \in BookKeys \ excused : Cardinality({b \in Books : book[b].key = k}) <= 1

\* A book that is listed has its file, whatever uploads, deletions and cleanups run at
\* the same time; excused are the books a row read before their deletion brought back.
BookHasObject ==
    \A b \in Books \ undeleted :
        book[b].state = "live" /\ book[b].key \notin excused => b \in object

\* A deleted book is cleaned up in the end, also when a call of the cleanup failed, unless
\* the service stopped in the middle of its cleanup.
CleanupFinishes ==
    \A b \in Books : book[b].state = "deleted" ~> (book[b].state # "deleted" \/ b \in stranded)
=============================================================================
