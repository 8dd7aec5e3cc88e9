---------------------------- MODULE Idempotency -----------------------------
(***************************************************************************)
(* Idempotency records (idempotency_record_models): one per scope, actor   *)
(* and key, unique by an index.  The book, chat and auth services each     *)
(* have their own copy of the protocol around them; what the copies have   *)
(* in common is here, and the modules of the services give it its steps.   *)
(***************************************************************************)

\* A key nobody used yet has no row.
NoRecord == [state |-> "none", hash |-> "none", result |-> "none"]

\* The decision after the first read: create the record, take a failed request up
\* again, replay a completed one, or refuse.
FirstLook(rec, hash) ==
    CASE rec.state = "none"      -> "insert"
      [] rec.state # "none" /\ rec.hash # hash -> "refused"
      [] rec.state = "completed" /\ rec.hash = hash -> "replay"
      [] rec.state = "processing" /\ rec.hash = hash -> "refused"
      [] rec.state = "failed" /\ rec.hash = hash -> "retry"

\* The decision after the insert met the unique index: the record that is there was
\* made by a concurrent request, and unless it is complete this one is refused.
SecondLook(rec, hash) ==
    IF rec.state = "completed" /\ rec.hash = hash THEN "replay" ELSE "refused"

Processing(hash) == [state |-> "processing", hash |-> hash, result |-> "none"]
Completed(hash, result) == [state |-> "completed", hash |-> hash, result |-> result]
FailedRecord(hash) == [state |-> "failed", hash |-> hash, result |-> "none"]
RecordStates == {"none", "processing", "completed", "failed"}
=============================================================================
