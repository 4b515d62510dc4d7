----------------------------- MODULE RunLifecycle -----------------------------
(***************************************************************************)
(* The life of a document run: submitted by the API, claimed by a polling  *)
(* worker under a database lease, parsed, persisted, validated, promoted   *)
(* to documents.active_run_id or failed and retried, requeued when the     *)
(* lease of its worker went stale (app/services/runs.py, run_leases.py,    *)
(* run_persistence.py, run_post_promotion.py, document_run_queue.py).      *)
(*                                                                         *)
(* One action is one database transaction of the code, or the read that    *)
(* starts one when something can happen between the read and the commit:   *)
(* `loaded` and `loadedDoc` hold what the session of a worker then has in  *)
(* memory, `recovering` what that of an upload has.  Row locks are held    *)
(* inside one action only.                                                 *)
(*                                                                         *)
(* Four assumptions about the deployment are parameters, so that the       *)
(* module can be checked with and without each of them; SafeDeployment is  *)
(* their conjunction.                                                      *)
(***************************************************************************)
EXTENDS Naturals, UnitOfWork

CONSTANTS
    Runs,                  \* numbered in the order of created_at
    Documents,
    Workers,
    Uploads,               \* sessions that upload the file of a known document
    DocumentOf,            \* the document each run belongs to
    MaxAttempts,           \* settings.worker_max_attempts
    FailableStages,        \* the stages whose failure is explored
    LeasesTimely,          \* a live worker's lease is never found stale
    SweepsPrompt,          \* nobody acts between a sweep's read and its commit
    QuietAfterPromotion,   \* nothing raises after the promotion commit
    ReadsPrompt,           \* nobody changes a document an upload has read and not locked
    None                   \* SQL NULL

Stages == {"parse", "embedding", "artifact_write", "chunk_persist",
           "table_persist", "figure_persist", "retrieval_span_persist",
           "run_persist", "validation", "promotion",
           "post_promotion_evaluation"}

ASSUME RunsAssumption == Runs \subseteq Nat
ASSUME DocumentOfAssumption == DocumentOf \in [Runs -> Documents]
ASSUME MaxAttemptsAssumption == MaxAttempts \in Nat \ {0}
ASSUME StagesAssumption == FailableStages \subseteq Stages
ASSUME DeploymentAssumption ==
    {LeasesTimely, SweepsPrompt, QuietAfterPromotion, ReadsPrompt} \subseteq BOOLEAN
ASSUME NoneAssumption ==
    /\ None \notin Runs /\ None \notin Workers
    /\ None \notin {"fresh", "stale", "due", "later", "pending", "passed", "failed"}

SafeDeployment ==
    LeasesTimely /\ SweepsPrompt /\ QuietAfterPromotion /\ ReadsPrompt

VARIABLES
    runs,        \* document_runs
    documents,   \* documents: active_run_id and latest_run_id
    corpus,      \* the chunk, table and figure rows of each run
    evaluated,   \* the runs with a document_run_evaluations row
    pc,          \* per worker: where its loop is
    job,         \* per worker: the run it holds in its session
    attempt,     \* per worker: the attempt of that run it works for
    error,       \* per worker: the exception it is handling
    loaded,      \* per worker: the run rows its session loaded
    loadedDoc,   \* per worker: the document row its session loaded
    recovering   \* per upload: the document it found and has not locked yet

database == <<runs, documents, corpus, evaluated>>
session  == <<job, attempt, error, loaded, loadedDoc>>
vars     == <<database, pc, session, recovering>>

-------------------------------------------------------------------------------
(* Rows                                                                    *)

InProgress == {"processing", "validating"}
Inflight   == {"queued", "retry_wait"} \cup InProgress
Statuses   == {"absent", "completed", "failed"} \cup Inflight

RunRow == [status            : Statuses,
           attempts          : Nat,
           locked_by         : Workers \cup {None},
           last_heartbeat_at : {None, "fresh", "stale"},
           next_attempt_at   : {None, "due", "later"},
           validation_status : {None, "pending", "passed", "failed"},
           failure_stage     : {None, "stale_lease"} \cup Stages]

DocumentRow == [active_run_id : Runs \cup {None}, latest_run_id : Runs \cup {None}]

(* The document an upload found by its checksum, and its row as it was.    *)
Found == [id : Documents, row : DocumentRow]

(* The child rows of a run are deleted and inserted together; `by` is the  *)
(* attempt whose parse they hold, `rows` their status column.              *)
CorpusRow == [by : Nat, rows : {"none", "persisted", "validated", "rejected"}]

(* The worker is inside process_run, up to the promotion commit.           *)
Working == {"claimed", "parsing", "parsed", "persisting", "persisted",
            "marked", "validating", "validated", "failing"}
Locations == Working \cup {"polling", "sweeping", "promoted", "down"}

Failures == [stage : Stages, kind : {"retryable", "value_error", "rejected"}]

absentRun == [status |-> "absent", attempts |-> 0, locked_by |-> None,
              last_heartbeat_at |-> None, next_attempt_at |-> None,
              validation_status |-> None, failure_stage |-> None]

(* The columns of a run a commit updates (see UnitOfWork).  A column set   *)
(* to the current time always differs from the loaded one and is assigned  *)
(* after the flush instead.                                                *)
FlushRun(row, old, new) ==
    [status            |-> Flush(row.status, old.status, new.status),
     attempts          |-> row.attempts,
     locked_by         |-> Flush(row.locked_by, old.locked_by, new.locked_by),
     last_heartbeat_at |-> Flush(row.last_heartbeat_at, old.last_heartbeat_at,
                                 new.last_heartbeat_at),
     next_attempt_at   |-> Flush(row.next_attempt_at, old.next_attempt_at,
                                 new.next_attempt_at),
     validation_status |-> Flush(row.validation_status, old.validation_status,
                                 new.validation_status),
     failure_stage     |-> Flush(row.failure_stage, old.failure_stage,
                                 new.failure_stage)]

FlushDocument(row, old, new) ==
    [active_run_id |-> Flush(row.active_run_id, old.active_run_id, new.active_run_id),
     latest_run_id |-> Flush(row.latest_run_id, old.latest_run_id, new.latest_run_id)]

Stale_Any(r) == runs[r].status \in InProgress

Stale(r) ==
    /\ runs[r].status \in InProgress
    /\ runs[r].last_heartbeat_at = "stale"

Claimable(r) ==
    \/ runs[r].status = "queued"
    \/ runs[r].status = "retry_wait" /\ runs[r].next_attempt_at # "later"

(* SKIP LOCKED: the open persist transaction of another worker may hold    *)
(* the row lock of a run it lost.                                          *)
MayBeLocked(r) == \E w \in Workers : pc[w] = "persisting" /\ job[w] = r

Holds(w, r) == pc[w] \in Working /\ job[w] = r

-------------------------------------------------------------------------------
(* Sessions of a worker                                                    *)

Goto(w, location) == pc' = [pc EXCEPT ![w] = location]

Nothing == [r \in Runs |-> None]
Only(r) == [Nothing EXCEPT ![r] = runs[r]]

(* The first access after a commit or a rollback reloads the row.          *)
Load(w) == loaded' = [loaded EXCEPT ![w] = Only(job[w])]
LoadDocument(w) ==
    loadedDoc' = [loadedDoc EXCEPT ![w] = documents[DocumentOf[job[w]]]]

(* A commit, or closing the session, expires everything loaded.            *)
Expire(w) ==
    /\ loaded' = [loaded EXCEPT ![w] = Nothing]
    /\ loadedDoc' = [loadedDoc EXCEPT ![w] = None]

(* The worker leaves the run and the session is closed.                    *)
Leave(w, location) ==
    /\ Goto(w, location)
    /\ job' = [job EXCEPT ![w] = None]
    /\ attempt' = [attempt EXCEPT ![w] = 0]
    /\ error' = [error EXCEPT ![w] = None]
    /\ Expire(w)

SetRun(r, row) == runs' = [runs EXCEPT ![r] = row]

-------------------------------------------------------------------------------
(* The API                                                                 *)

(* The latest run of a document, by its row, is not in flight.              *)
MayQueue_RetriesForgotten(row) ==
    row.latest_run_id # None =>
        runs[row.latest_run_id].status \notin InProgress \cup {"queued"}

MayQueue(row) ==
    row.latest_run_id # None => runs[row.latest_run_id].status \notin Inflight

(* A queued run is added and the document pointed at it.                   *)
Queue(r) ==
    /\ runs[r].status = "absent"
    /\ \A s \in Runs : s < r => runs[s].status # "absent"
    /\ SetRun(r, [absentRun EXCEPT !.status = "queued",
                                   !.next_attempt_at = "due",
                                   !.validation_status = "pending"])
    /\ documents' = [documents EXCEPT ![DocumentOf[r]].latest_run_id = r]
    /\ UNCHANGED <<corpus, evaluated, pc, session>>

(* The first upload of a file, which inserts the document, and             *)
(* reprocess_document, which reads it under the lock.                      *)
Submit(r) ==
    /\ MayQueue(documents[DocumentOf[r]])
    /\ Queue(r)
    /\ UNCHANGED recovering

(* Another upload of the file: SELECT ... WHERE sha256, without a lock.    *)
FindDocument(u, d) ==
    /\ recovering[u] = None
    /\ documents[d].latest_run_id # None
    /\ recovering' = [recovering EXCEPT ![u] = [id |-> d, row |-> documents[d]]]
    /\ UNCHANGED <<database, pc, session>>

(* _resolve_existing_document_upload locks the document, decides on the    *)
(* row as it was found, and queues a recovery run ...                      *)
QueueRecovery(u, r) ==
    /\ recovering[u] # None
    /\ DocumentOf[r] = recovering[u].id
    /\ recovering[u].row.active_run_id = None
    /\ MayQueue(recovering[u].row)
    /\ Queue(r)
    /\ recovering' = [recovering EXCEPT ![u] = None]

(* ... or answers with what is there; or the request raises or dies.       *)
EndUpload(u) ==
    /\ recovering[u] # None
    /\ recovering' = [recovering EXCEPT ![u] = None]
    /\ UNCHANGED <<database, pc, session>>

-------------------------------------------------------------------------------
(* Time                                                                    *)

(* A lease is not renewed for worker_lease_timeout_seconds.                *)
LeaseExpires(r) ==
    /\ runs[r].status \in InProgress
    /\ runs[r].last_heartbeat_at = "fresh"
    /\ LeasesTimely => \A w \in Workers : ~Holds(w, r)
    /\ SetRun(r, [runs[r] EXCEPT !.last_heartbeat_at = "stale"])
    /\ UNCHANGED <<documents, corpus, evaluated, pc, session, recovering>>

BackoffElapses(r) ==
    /\ runs[r].status = "retry_wait"
    /\ runs[r].next_attempt_at = "later"
    /\ SetRun(r, [runs[r] EXCEPT !.next_attempt_at = "due"])
    /\ UNCHANGED <<documents, corpus, evaluated, pc, session, recovering>>

-------------------------------------------------------------------------------
(* The worker loop: sweep stale leases, then claim                         *)

(* requeue_stale_runs, the SELECT: no row lock is taken.                   *)
SweepRead(w) ==
    /\ pc[w] = "polling"
    /\ \E r \in Runs : Stale(r)
    /\ loaded' = [loaded EXCEPT ![w] = [r \in Runs |-> IF Stale(r) THEN runs[r] ELSE None]]
    /\ Goto(w, "sweeping")
    /\ UNCHANGED <<database, job, attempt, error, loadedDoc, recovering>>

(* requeue_stale_runs, per run: give up or retry, judged on the loaded row. *)
Requeued(row, old) ==
    LET released == [old EXCEPT !.locked_by = None, !.last_heartbeat_at = None]
    IN  IF old.attempts >= MaxAttempts
        THEN FlushRun(row, old,
                 [released EXCEPT
                    !.status = "failed",
                    !.validation_status = "failed",
                    !.failure_stage = IF @ = None THEN "stale_lease" ELSE @])
        ELSE [FlushRun(row, old, [released EXCEPT !.status = "retry_wait"])
                EXCEPT !.next_attempt_at = "due"]

(* requeue_stale_runs, the commit of the whole sweep.                      *)
SweepCommit(w) ==
    /\ pc[w] = "sweeping"
    /\ runs' = [r \in Runs |-> IF loaded[w][r] = None THEN runs[r]
                               ELSE Requeued(runs[r], loaded[w][r])]
    /\ Leave(w, "polling")
    /\ UNCHANGED <<documents, corpus, evaluated, recovering>>

Claimed_WithoutLease(row, w) ==
    [row EXCEPT !.status = "processing",
                !.locked_by = w,
                !.next_attempt_at = None,
                !.validation_status = "pending",
                !.failure_stage = None,
                !.attempts = @ + 1]

(* What claim_next_run assigns to the locked row.                          *)
Claimed(row, w) ==
    [row EXCEPT !.status = "processing",
                !.locked_by = w,
                !.last_heartbeat_at = "fresh",
                !.next_attempt_at = None,
                !.validation_status = "pending",
                !.failure_stage = None,
                !.attempts = @ + 1]

(* claim_next_run: SELECT ... FOR UPDATE SKIP LOCKED to commit, after a    *)
(* sweep that found nothing.                                               *)
Claim(w, r) ==
    /\ pc[w] = "polling"
    /\ \A s \in Runs : ~Stale(s)
    /\ Claimable(r)
    /\ \A s \in Runs : s < r /\ Claimable(s) => MayBeLocked(s)
    /\ SetRun(r, Claimed(runs[r], w))
    /\ Goto(w, "claimed")
    /\ job' = [job EXCEPT ![w] = r]
    /\ attempt' = [attempt EXCEPT ![w] = runs[r].attempts + 1]
    /\ UNCHANGED <<documents, corpus, evaluated, error, loaded, loadedDoc, recovering>>

-------------------------------------------------------------------------------
(* Leases of a running attempt                                             *)

(* heartbeat_run, called by the stages themselves: ownership is not looked *)
(* at.                                                                     *)
Heartbeat(w) ==
    /\ pc[w] \in {"claimed", "parsing", "marked"}
    /\ SetRun(job[w], [runs[job[w]] EXCEPT !.last_heartbeat_at = "fresh"])
    /\ Goto(w, CASE pc[w] = "claimed" -> "parsing"
                 [] pc[w] = "parsing" -> "parsed"
                 [] pc[w] = "marked"  -> "validating")
    /\ UNCHANGED <<documents, corpus, evaluated, session, recovering>>

(* _refresh_run_lease, from the heartbeat thread: only while the row still *)
(* names this worker.                                                      *)
RefreshLease(w) ==
    /\ pc[w] \in Working
    /\ runs[job[w]].locked_by = w
    /\ runs[job[w]].status \in InProgress
    /\ runs[job[w]].last_heartbeat_at # "fresh"
    /\ SetRun(job[w], [runs[job[w]] EXCEPT !.last_heartbeat_at = "fresh"])
    /\ UNCHANGED <<documents, corpus, evaluated, pc, session, recovering>>

-------------------------------------------------------------------------------
(* The stages of an attempt                                                *)

(* Embedding and artifact_write: the transaction that will persist the     *)
(* parse loads the run and the document.                                   *)
BeginPersist(w) ==
    /\ pc[w] = "parsed"
    /\ Load(w)
    /\ LoadDocument(w)
    /\ Goto(w, "persisting")
    /\ UNCHANGED <<database, job, attempt, error, recovering>>

PersistedDocument_Served(doc, r) == [active_run_id |-> r, latest_run_id |-> r]

PersistedDocument(doc, r) == [doc EXCEPT !.latest_run_id = r]

(* _replace_run_chunks, _tables and _figures and _mark_run_persisted: one  *)
(* commit.                                                                 *)
PersistRun(w) ==
    LET r   == job[w]
        d   == DocumentOf[r]
        old == loaded[w][r]
        doc == loadedDoc[w]
    IN  /\ pc[w] = "persisting"
        /\ SetRun(r, FlushRun(runs[r], old, [old EXCEPT !.validation_status = "pending"]))
        /\ documents' = [documents EXCEPT
             ![d] = FlushDocument(@, doc, PersistedDocument(doc, r))]
        /\ corpus' = [corpus EXCEPT ![r] = [by |-> attempt[w], rows |-> "persisted"]]
        /\ Expire(w)
        /\ Goto(w, "persisted")
        /\ UNCHANGED <<evaluated, job, attempt, error, recovering>>

Validating_Misspelt == "validated"

Validating == "validating"

(* _mark_run_validating: both columns are assigned on an expired row, so   *)
(* both are written whatever the row has become.                           *)
MarkValidating(w) ==
    /\ pc[w] = "persisted"
    /\ SetRun(job[w], [runs[job[w]] EXCEPT !.status = Validating,
                                           !.last_heartbeat_at = "fresh"])
    /\ Goto(w, "marked")
    /\ UNCHANGED <<documents, corpus, evaluated, session, recovering>>

(* validate_persisted_run reads the persisted rows and reports that they   *)
(* pass.                                                                   *)
ValidationPasses(w) ==
    /\ pc[w] = "validating"
    /\ Load(w)
    /\ LoadDocument(w)
    /\ Goto(w, "validated")
    /\ UNCHANGED <<database, job, attempt, error, recovering>>

(* finalize_run_success: the run, its child rows and the document in one   *)
(* commit.                                                                 *)
Promote(w) ==
    LET r   == job[w]
        d   == DocumentOf[r]
        old == loaded[w][r]
        doc == loadedDoc[w]
    IN  /\ pc[w] = "validated"
        /\ SetRun(r, FlushRun(runs[r], old,
             [old EXCEPT !.status = "completed",
                         !.locked_by = None,
                         !.last_heartbeat_at = None,
                         !.next_attempt_at = None,
                         !.validation_status = "passed",
                         !.failure_stage = None]))
        /\ documents' = [documents EXCEPT
             ![d] = FlushDocument(@, doc, [active_run_id |-> r, latest_run_id |-> r])]
        /\ corpus' = [corpus EXCEPT ![r].rows = "validated"]
        /\ Expire(w)
        /\ Goto(w, "promoted")
        /\ UNCHANGED <<evaluated, job, attempt, error, recovering>>

Evaluate_FailsRun(w) ==
    /\ pc[w] = "promoted"
    /\ \/ /\ evaluated' = evaluated \cup {job[w]}
          /\ UNCHANGED runs
       \/ /\ UNCHANGED evaluated
          /\ SetRun(job[w], [runs[job[w]] EXCEPT !.status = "retry_wait"])
    /\ Leave(w, "polling")
    /\ UNCHANGED <<documents, corpus, recovering>>

(* evaluate_promoted_run: it writes the evaluation row, or logs whatever   *)
(* kept it from doing so.                                                  *)
Evaluate(w) ==
    /\ pc[w] = "promoted"
    /\ \/ evaluated' = evaluated \cup {job[w]}
       \/ UNCHANGED evaluated
    /\ Leave(w, "polling")
    /\ UNCHANGED <<runs, documents, corpus, recovering>>

-------------------------------------------------------------------------------
(* Failures                                                                *)

(* The stages during which the worker is at a location.                    *)
StagesAt(location) ==
    CASE location \in {"claimed", "parsing"} -> {"parse"}
      [] location = "parsed" -> {"embedding", "artifact_write"}
      [] location = "persisting" ->
            {"chunk_persist", "table_persist", "figure_persist",
             "retrieval_span_persist", "run_persist"}
      [] location \in {"persisted", "marked", "validating"} -> {"validation"}
      [] location = "validated" -> {"promotion"}
      [] location = "promoted" /\ ~QuietAfterPromotion ->
            {"promotion", "post_promotion_evaluation"}
      [] OTHER -> {}

(* is_retryable_error: everything but a ValueError.  A ValidationError is  *)
(* the ValueError that carries a report.                                   *)
KindsAt(location) ==
    {"retryable", "value_error"} \cup (IF location = "validating" THEN {"rejected"} ELSE {})

(* A stage raises: process() rolls back and reads the run again.           *)
StageFails(w) ==
    /\ \E stage \in StagesAt(pc[w]) \cap FailableStages, kind \in KindsAt(pc[w]) :
         error' = [error EXCEPT ![w] = [stage |-> stage, kind |-> kind]]
    /\ Load(w)
    /\ loadedDoc' = [loadedDoc EXCEPT ![w] = None]
    /\ Goto(w, "failing")
    /\ UNCHANGED <<database, job, attempt, recovering>>

Failed_OneMore(row, old, failure) ==
    LET released == [old EXCEPT !.locked_by = None,
                                !.last_heartbeat_at = None,
                                !.failure_stage = failure.stage]
    IN  IF failure.kind = "retryable" /\ old.attempts <= MaxAttempts
        THEN [FlushRun(row, old, [released EXCEPT !.status = "retry_wait"])
                EXCEPT !.next_attempt_at = "later"]
        ELSE FlushRun(row, old, [released EXCEPT !.status = "failed",
                                                 !.validation_status = "failed"])

(* finalize_run_failure, on the row as it was loaded.                      *)
Failed(row, old, failure) ==
    LET released == [old EXCEPT !.locked_by = None,
                                !.last_heartbeat_at = None,
                                !.failure_stage = failure.stage]
    IN  IF failure.kind = "retryable" /\ old.attempts < MaxAttempts
        THEN [FlushRun(row, old, [released EXCEPT !.status = "retry_wait"])
                EXCEPT !.next_attempt_at = "later"]
        ELSE FlushRun(row, old, [released EXCEPT !.status = "failed",
                                                 !.validation_status = "failed"])

FinalizeFailure_Withdraws(w) ==
    LET r == job[w]
    IN  /\ pc[w] = "failing"
        /\ SetRun(r, Failed(runs[r], loaded[w][r], error[w]))
        /\ documents' = [documents EXCEPT ![DocumentOf[r]].active_run_id = None]
        /\ Leave(w, "polling")
        /\ UNCHANGED <<corpus, evaluated, recovering>>

FinalizeFailure(w) ==
    LET r == job[w]
    IN  /\ pc[w] = "failing"
        /\ SetRun(r, Failed(runs[r], loaded[w][r], error[w]))
        /\ corpus' = IF error[w].kind = "rejected"
                     THEN [corpus EXCEPT ![r].rows = "rejected"]
                     ELSE corpus
        /\ Leave(w, "polling")
        /\ UNCHANGED <<documents, evaluated, recovering>>

(* The process dies, wherever it is: open transactions are rolled back,    *)
(* the database keeps what was committed.                                  *)
Crash(w) ==
    /\ pc[w] # "down"
    /\ Leave(w, "down")
    /\ UNCHANGED <<database, recovering>>

Restart(w) ==
    /\ pc[w] = "down"
    /\ Goto(w, "polling")
    /\ UNCHANGED <<database, session, recovering>>

-------------------------------------------------------------------------------
Init ==
    /\ runs = [r \in Runs |-> absentRun]
    /\ documents = [d \in Documents |-> [active_run_id |-> None, latest_run_id |-> None]]
    /\ corpus = [r \in Runs |-> [by |-> 0, rows |-> "none"]]
    /\ evaluated = {}
    /\ pc = [w \in Workers |-> "polling"]
    /\ job = [w \in Workers |-> None]
    /\ attempt = [w \in Workers |-> 0]
    /\ error = [w \in Workers |-> None]
    /\ loaded = [w \in Workers |-> Nothing]
    /\ loadedDoc = [w \in Workers |-> None]
    /\ recovering = [u \in Uploads |-> None]

WorkerStep(w) ==
    \/ SweepRead(w)
    \/ SweepCommit(w)
    \/ \E r \in Runs : Claim(w, r)
    \/ Heartbeat(w)
    \/ RefreshLease(w)
    \/ BeginPersist(w)
    \/ PersistRun(w)
    \/ MarkValidating(w)
    \/ ValidationPasses(w)
    \/ Promote(w)
    \/ Evaluate(w)
    \/ StageFails(w)
    \/ FinalizeFailure(w)

NobodyElseSweeps(w) == \A v \in Workers \ {w} : pc[v] # "sweeping"

UploadStep(u) ==
    \/ \E d \in Documents : FindDocument(u, d)
    \/ \E r \in Runs : QueueRecovery(u, r)
    \/ EndUpload(u)

(* ReadsPrompt: a document does not change between the read of an upload   *)
(* and its lock.                                                           *)
Prompt ==
    ReadsPrompt =>
        \A u \in Uploads :
            recovering[u] # None /\ recovering'[u] # None =>
                documents'[recovering[u].id] = documents[recovering[u].id]

Next ==
    \/ \E r \in Runs : LeaseExpires(r) \/ BackoffElapses(r)
    \/ \E r \in Runs : Submit(r) /\ Prompt
    \/ \E u \in Uploads : UploadStep(u) /\ Prompt
    \/ \E w \in Workers :
         (SweepsPrompt => NobodyElseSweeps(w)) /\ WorkerStep(w) /\ Prompt
    \/ \E w \in Workers : Crash(w) \/ Restart(w)

Spec == Init /\ [][Next]_vars

(* What the loop and the deployment promise: a worker that is up goes on,  *)
(* a dead one is started again, time passes, and a poll that could claim a *)
(* run or requeue a stale one is not interrupted every single time.        *)
Fairness ==
    /\ \A r \in Runs : WF_vars(LeaseExpires(r)) /\ WF_vars(BackoffElapses(r))
    /\ \A w \in Workers : WF_vars(Restart(w))
    /\ \A w \in Workers : WF_vars(
         \/ SweepCommit(w) \/ Heartbeat(w) \/ BeginPersist(w) \/ PersistRun(w)
         \/ MarkValidating(w) \/ ValidationPasses(w) \/ Promote(w) \/ Evaluate(w)
         \/ FinalizeFailure(w))
    /\ \A w \in Workers : SF_vars(SweepRead(w)) /\ SF_vars(SweepCommit(w))
    /\ \A r \in Runs : SF_vars(\E w \in Workers : Claim(w, r))

FairSpec == Spec /\ Fairness

-------------------------------------------------------------------------------
(* Correctness                                                             *)

(* Every variable has its type; in particular every status a worker writes *)
(* is one the polling queries know.                                        *)
TypeOK ==
    /\ runs \in [Runs -> RunRow]
    /\ documents \in [Documents -> DocumentRow]
    /\ corpus \in [Runs -> CorpusRow]
    /\ evaluated \subseteq Runs
    /\ pc \in [Workers -> Locations]
    /\ job \in [Workers -> Runs \cup {None}]
    /\ attempt \in [Workers -> Nat]
    /\ error \in [Workers -> Failures \cup {None}]
    /\ loaded \in [Workers -> [Runs -> RunRow \cup {None}]]
    /\ loadedDoc \in [Workers -> DocumentRow \cup {None}]
    /\ recovering \in [Uploads -> Found \cup {None}]

Active(d) == documents[d].active_run_id

(* The run a document serves is a run of that document, completed, its     *)
(* validation passed and its rows marked validated: what audit.py reports  *)
(* as active_run_wrong_document, active_run_not_completed and              *)
(* active_run_not_validated never happens.                                 *)
ActiveRunIsPublished ==
    \A d \in Documents : Active(d) # None =>
        /\ DocumentOf[Active(d)] = d
        /\ runs[Active(d)].status = "completed"
        /\ runs[Active(d)].validation_status = "passed"
        /\ corpus[Active(d)].rows = "validated"

(* The lease is exclusive: two workers are never inside process_run for    *)
(* the same run, across claims, crashes, sweeps and retries.               *)
OneWorkerPerRun ==
    \A v, w \in Workers, r \in Runs : Holds(v, r) /\ Holds(w, r) => v = w

(* No run is claimed more often than worker_max_attempts, whichever of     *)
(* finalize_run_failure and requeue_stale_runs ends an attempt.            *)
AttemptsBounded == \A r \in Runs : runs[r].attempts <= MaxAttempts

(* A run in progress always has a heartbeat to grow stale: requeue skips   *)
(* rows without one, and such a run would never be retried.                *)
Recoverable ==
    \A r \in Runs : runs[r].status \in InProgress =>
        runs[r].last_heartbeat_at # None

(* A document never has two runs in flight, so what the 409 of             *)
(* reprocess_document promises survives retries and requeues; recovery     *)
(* uploads keep it as long as ReadsPrompt holds.                           *)
OneInflightRunPerDocument ==
    \A r, s \in Runs :
        /\ runs[r].status \in Inflight
        /\ runs[s].status \in Inflight
        /\ DocumentOf[r] = DocumentOf[s]
        => r = s

(* "A failed or non-promoted run does not change the current active        *)
(* corpus" (SYSTEM_PLAN.md:144): the rows a document serves change only in *)
(* the step that makes another run active.                                 *)
ServedCorpusOnlyReplaced ==
    [][\A d \in Documents :
         /\ Active(d) # None
         /\ Active(d)' = Active(d)
         => corpus'[Active(d)] = corpus[Active(d)]]_vars

(* A promotion never brings back an older run than the one served.         *)
NeverServesOlderRun ==
    [][\A d \in Documents :
         Active(d) # None => Active(d)' \in Runs /\ Active(d)' >= Active(d)]_vars

(* The lifecycle as its users see it.                                      *)
Outcome(r) ==
    CASE runs[r].status = "absent"    -> "absent"
      [] runs[r].status \in Inflight  -> "pending"
      [] runs[r].status = "completed" -> "succeeded"
      [] runs[r].status = "failed"    -> "failed"

Contract == INSTANCE RunContract WITH
    outcome   <- [r \in Runs |-> Outcome(r)],
    served    <- [d \in Documents |-> Active(d)],
    published <- [d \in Documents |-> IF Active(d) = None THEN None
                                      ELSE corpus[Active(d)]]

(* Workers, leases, sweeps, retries and crashes together keep the promise  *)
(* of RunContract: every step of theirs is one of its steps or invisible.  *)
ImplementsContract == Contract!Spec

(* A queued run completes or fails for good, however often its workers     *)
(* die: stale leases are swept, retries come due and attempts run out.     *)
EveryRunEnds ==
    \A r \in Runs : runs[r].status = "queued" ~>
        runs[r].status \in {"completed", "failed"}

===============================================================================
