---------------------------- MODULE IngestBatches -----------------------------
(***************************************************************************)
(* A directory that is ingested file by file beside the requests of the    *)
(* API (app/services/ingest_batches.py): every file goes through the       *)
(* single-file path of DocumentIngest in the session of the batch, its     *)
(* outcome is recorded in a commit of its own, and the status that readers *)
(* see is derived from the items, their runs and the documents as they are *)
(* by then.                                                                *)
(***************************************************************************)
EXTENDS DocumentIngest, Sequences

CONSTANTS
    Files,   \* the content of the PDF files of the directory, in their order
    Loader   \* the session of the batch, one of Requests

ASSUME FilesAssumption == Files \in Seq(Checksums) /\ Loader \in Requests

VARIABLES
    batch,   \* ingest_batches: the status and the counters
    items,   \* ingest_batch_items, in the order of the files
    place    \* where queue_local_ingest_directory is

batchVars == <<vars, batch, items, place>>

-------------------------------------------------------------------------------
Kinds == {"queued", "queued_recovery", "duplicate", "failed"}

ItemRow == [status       : Kinds,
            sha256       : Checksums \cup {None},
            document     : Ids \cup {None},
            run          : Runs \cup {None},
            duplicate    : BOOLEAN,
            recovery_run : BOOLEAN]

Places == {"start", "scanned", "ingesting", "failing", "returned", "dead"}

Terminal == {"failed", "completed", "completed_with_errors"}

Counters == {"file_count", "queued_count", "recovery_queued_count",
             "duplicate_count", "failed_count"}

BatchRow == [status : {"running"} \cup Terminal, count : [Counters -> Nat]]

ASSUME BatchRowAssumption == None \notin BatchRow /\ None \notin Checksums

emptyBatch_Queued == [status |-> "queued", count |-> [c \in Counters |-> 0]]

emptyBatch == [status |-> "running", count |-> [c \in Counters |-> 0]]

Continue(location) == place' = location

(* The batch row is committed before the directory is scanned.             *)
CreateBatch ==
    /\ place = "start"
    /\ batch = None
    /\ batch' = emptyBatch
    /\ UNCHANGED <<vars, items, place>>

(* The scan fails, or finds nothing.                                       *)
ScanFails ==
    /\ place = "start"
    /\ batch # None
    /\ batch' = [batch EXCEPT !.status = "failed"]
    /\ Continue("returned")
    /\ UNCHANGED <<vars, items>>

ScanFinds ==
    /\ place = "start"
    /\ batch # None
    /\ Continue("scanned")
    /\ UNCHANGED <<vars, batch, items>>

(* ingest_local_file of the next file; it takes no idempotency key.        *)
IngestNext ==
    /\ place = "scanned"
    /\ Len(items) < Len(Files)
    /\ Receive(Loader, [scope |-> "create", target |-> Files[Len(items) + 1], key |-> None])
    /\ Continue("ingesting")
    /\ UNCHANGED <<batch, items>>

Ingests ==
    /\ place = "ingesting"
    /\ Progress(Loader)
    /\ UNCHANGED <<batch, items, place>>

DocumentWith(c) ==
    IF \E d \in Ids : HasChecksum(d, c)
    THEN CHOOSE d \in Ids : HasChecksum(d, c) ELSE None

(* What the response of the single-file path says of itself: only the      *)
(* first upload of a file is no duplicate.                                 *)
IsDuplicate(payload) == payload.run = None \/ payload.recovery

(* _record_batch_item_success picks the status of the item ...             *)
ItemStatus(payload) ==
    IF payload.recovery /\ payload.run # None THEN "queued_recovery"
    ELSE IF IsDuplicate(payload) /\ payload.run = None THEN "duplicate"
    ELSE "queued"

CounterFor_AnyDuplicate(payload) ==
    IF IsDuplicate(payload) THEN "duplicate_count"
    ELSE IF payload.recovery /\ payload.run # None THEN "recovery_queued_count"
    ELSE "queued_count"

(* ... and, by conditions of its own, the counter that goes up.            *)
CounterFor(payload) ==
    IF payload.recovery /\ payload.run # None THEN "recovery_queued_count"
    ELSE IF IsDuplicate(payload) /\ payload.run = None THEN "duplicate_count"
    ELSE "queued_count"

CountUp(count, counter) ==
    [c \in Counters |-> IF c \in {"file_count", counter} THEN count[c] + 1 ELSE count[c]]

Record(row, counter) ==
    /\ items' = Append(items, row)
    /\ batch' = [batch EXCEPT !.count = CountUp(@, counter)]

(* _record_batch_item_success                                              *)
RecordSuccess ==
    LET payload == answer[Loader]
    IN  /\ place = "ingesting"
        /\ pc[Loader] = "replying"
        /\ payload # Refused
        /\ Record([status       |-> ItemStatus(payload),
                   sha256       |-> request[Loader].target,
                   document     |-> DocumentWith(request[Loader].target),
                   run          |-> payload.run,
                   duplicate    |-> IsDuplicate(payload),
                   recovery_run |-> payload.recovery],
                  CounterFor(payload))
        /\ Reply(Loader)
        /\ Continue("scanned")

(* The file was refused, or something raised, also after the run had been  *)
(* queued: rolled back, and recorded as failed.                            *)
IngestFails ==
    /\ place = "ingesting"
    /\ \/ pc[Loader] = "replying" /\ Reply(Loader)
       \/ Abort(Loader)
    /\ Continue("failing")
    /\ UNCHANGED <<batch, items>>

FailedItem(sha256) ==
    [status |-> "failed", sha256 |-> sha256, document |-> None, run |-> None,
     duplicate |-> FALSE, recovery_run |-> FALSE]

RecordFailure_TryAgain ==
    /\ place = "failing"
    /\ Continue("scanned")
    /\ UNCHANGED <<vars, batch, items>>

(* _record_batch_item_failure: the file may be gone by now, and has no     *)
(* checksum then.                                                          *)
RecordFailure ==
    /\ place = "failing"
    /\ \E sha256 \in {Files[Len(items) + 1], None} :
         Record(FailedItem(sha256), "failed_count")
    /\ Continue("scanned")
    /\ UNCHANGED vars

FinishBatch ==
    /\ place = "scanned"
    /\ Len(items) = Len(Files)
    /\ batch' = [batch EXCEPT !.status =
          IF batch.count["failed_count"] > 0 THEN "completed_with_errors" ELSE "completed"]
    /\ Continue("returned")
    /\ UNCHANGED <<vars, items>>

(* The process of the batch dies, or an exception leaves the loop because  *)
(* a failure cannot be recorded; nothing takes the batch up again.         *)
BatchDies ==
    /\ place \in {"start", "scanned", "ingesting", "failing"}
    /\ Continue("dead")
    /\ IF pc[Loader] \in Serving THEN Abort(Loader)
       ELSE IF pc[Loader] = "replying" THEN Reply(Loader)
       ELSE UNCHANGED vars
    /\ UNCHANGED <<batch, items>>

-------------------------------------------------------------------------------
(* What a reader is told: _resolve_batch_item and _derive_batch_status     *)

Completed(r) == r # None /\ runs[r] = "completed"
Pending(r)   == r # None /\ InFlight(r)

(* The document of an item; that of a failed one is looked up by checksum. *)
(* A reader hashes a file that was gone, should it be back; it is taken to *)
(* stay away.                                                              *)
Referenced(i) ==
    IF items[i].status = "failed" THEN DocumentWith(items[i].sha256)
    ELSE items[i].document

Latest(d) == IF d = None THEN None ELSE documents[d].latest_run_id
Serves(d) == IF d = None THEN None ELSE documents[d].active_run_id

ResolvesFailed_AnyMatch(active, latest) ==
    IF Pending(IF active # None THEN active ELSE latest) THEN "running"
    ELSE IF latest # None THEN "recovered"
    ELSE "failed"

ResolvesFailed(active, latest) ==
    IF Pending(IF active # None THEN active ELSE latest) THEN "running"
    ELSE IF Completed(active) \/ Completed(latest) THEN "recovered"
    ELSE "failed"

Done(item) == IF item.recovery_run THEN "recovered" ELSE "completed"

ResolvesQueued_OwnRunOnly(item, active, latest) ==
    IF Pending(item.run) THEN "running"
    ELSE IF Completed(item.run) THEN Done(item)
    ELSE "failed"

ResolvesQueued(item, active, latest) ==
    IF Pending(item.run) THEN "running"
    ELSE IF Completed(item.run) THEN Done(item)
    ELSE IF Pending(latest) THEN "running"
    ELSE LET winning == IF active # None /\ active # item.run THEN active ELSE latest
         IN  IF runs[item.run] = "failed" /\ winning # item.run /\ Completed(winning)
             THEN "recovered"
             ELSE IF Completed(active) THEN Done(item)
             ELSE "failed"

Resolution(i) ==
    LET d == Referenced(i)
    IN  IF items[i].status = "failed" THEN ResolvesFailed(Serves(d), Latest(d))
        ELSE IF items[i].duplicate /\ items[i].run = None THEN "duplicate"
        ELSE ResolvesQueued(items[i], Serves(d), Latest(d))

Resolutions == {Resolution(i) : i \in DOMAIN items}

DerivedStatus ==
    IF batch.status = "failed" THEN "failed"
    ELSE IF "running" \in Resolutions THEN "running"
    ELSE IF "failed" \in Resolutions THEN "completed_with_errors"
    ELSE "completed"

-------------------------------------------------------------------------------
BatchInit ==
    /\ Init
    /\ batch = None
    /\ items = <<>>
    /\ place = "start"

BatchStep ==
    \/ CreateBatch \/ ScanFails \/ ScanFinds
    \/ IngestNext \/ Ingests
    \/ RecordSuccess \/ IngestFails \/ RecordFailure
    \/ FinishBatch

Others == Requests \ {Loader}

ApiStep ==
    \/ /\ RoomFor(Len(Files) - Len(items))
       /\ \E q \in Others, asked \in RequestType : Receive(q, asked)
    \/ \E q \in Others : Progress(q) \/ Abort(q) \/ Reply(q)

BatchNext ==
    \/ (BatchStep \/ BatchDies) /\ Prompt
    \/ (ApiStep \/ WorkerStep) /\ Prompt /\ UNCHANGED <<batch, items, place>>

BatchSpec == BatchInit /\ [][BatchNext]_batchVars

(* The command runs on until it returns or dies, requests and workers as   *)
(* in DocumentIngest.                                                      *)
BatchFairness ==
    /\ SF_batchVars(BatchStep /\ Prompt)
    /\ \A q \in Others :
         SF_batchVars(Progress(q) /\ Prompt /\ UNCHANGED <<batch, items, place>>)
         /\ WF_batchVars(Reply(q) /\ Prompt /\ UNCHANGED <<batch, items, place>>)
    /\ WF_batchVars(WorkerStep /\ Prompt /\ UNCHANGED <<batch, items, place>>)

FairBatchSpec == BatchSpec /\ BatchFairness

-------------------------------------------------------------------------------
(* Correctness                                                             *)

(* Every variable has its type.                                            *)
BatchTypeOK ==
    /\ TypeOK
    /\ batch \in BatchRow \cup {None}
    /\ items \in Seq(ItemRow)
    /\ place \in Places

(* The counter that stands for a status.                                   *)
CounterOf ==
    [queued |-> "queued_count", queued_recovery |-> "recovery_queued_count",
     duplicate |-> "duplicate_count", failed |-> "failed_count"]

(* The counters of a batch are those of its items, whichever way a file    *)
(* ended: the two chains of conditions that pick the status of an item and *)
(* the counter of the batch never disagree.                                *)
CountsMatchItems ==
    batch # None =>
        /\ batch.count["file_count"] = Len(items)
        /\ \A k \in Kinds :
             batch.count[CounterOf[k]] =
                 Cardinality({i \in DOMAIN items : items[i].status = k})

(* A file of a batch is reported as failed, while the document with its    *)
(* content serves a run, only if it was gone when its failure was          *)
(* recorded: not because the item of a run that was queued could not be    *)
(* recorded, nor because its run failed and another one succeeded.         *)
ServedNeverFailed ==
    \A i \in DOMAIN items :
        /\ \E d \in Ids : HasChecksum(d, Files[i]) /\ Active(d) # None
        /\ Resolution(i) = "failed"
        => items[i].sha256 = None

(* A file that queued a run, or whose document has one in flight, is not   *)
(* reported as done before a run of that document has succeeded.           *)
NeverDoneEarly ==
    \A i \in DOMAIN items :
        Resolution(i) \in {"completed", "recovered", "duplicate"} =>
            \E r \in Runs : runs[r] = "completed"
                            /\ HasChecksum(DocumentOf[r], items[i].sha256)

(* A batch comes to an end that readers see, or its process dies: every    *)
(* wait of its files and every run they queued ends.                       *)
BatchSettles ==
    batch # None ~>
        \/ place = "dead"
        \/ place = "returned" /\ DerivedStatus # "running"

===============================================================================
