---------------------------- MODULE DocumentIngest ----------------------------
(***************************************************************************)
(* How documents and runs come into being: uploads and local files that    *)
(* are deduplicated by checksum, recovery runs of documents that never     *)
(* succeeded, reprocess requests, the responses stored under idempotency   *)
(* keys, and the limit on runs in flight (app/services/document_ingest.py, *)
(* document_run_queue.py, idempotency.py).  The worker is seen from the    *)
(* outside, as RunContract describes it: a run in flight completes, and    *)
(* its document serves it, or fails.                                       *)
(*                                                                         *)
(* Every statement whose result may be stale when the next one runs is an  *)
(* action of its own; what a transaction inserts becomes visible in Commit *)
(* and until then only blocks others.  A request that raises, or whose     *)
(* process dies, is Abort: files that stay behind without a row to name    *)
(* them are forgotten.                                                     *)
(***************************************************************************)
EXTENDS Naturals, FiniteSets

CONSTANTS
    Ids,             \* document ids, in the order they are drawn
    Runs,            \* run ids; those of a document in the order of run_number
    DocumentOf,      \* the document each run id belongs to
    Checksums,
    Requests,        \* sessions of the API or of the command line
    Keys,            \* idempotency keys
    InflightLimit,   \* remote_ingest_max_inflight_runs; 0 is no limit
    KeysSequential,  \* a keyed request is not repeated while it is under way
    ReadsPrompt,     \* nobody acts between the read of a document and its lock
    Refused,         \* the answer 4xx
    None             \* SQL NULL

ASSUME IdsAssumption == Ids \subseteq Nat /\ Runs \subseteq Nat
ASSUME DocumentOfIdAssumption == DocumentOf \in [Runs -> Ids]
ASSUME FiniteAssumption == IsFiniteSet(Runs) /\ IsFiniteSet(Requests)
ASSUME LimitAssumption == InflightLimit \in Nat
ASSUME ClientAssumption == {KeysSequential, ReadsPrompt} \subseteq BOOLEAN
ASSUME NoIdAssumption ==
    /\ None \notin Ids /\ None \notin Runs /\ None \notin Keys
    /\ Refused # None

VARIABLES
    documents,   \* documents: sha256, active_run_id and latest_run_id
    runs,        \* document_runs: what became of each run
    sources,     \* the documents whose source/<id>.pdf exists
    responses,   \* api_idempotency_keys
    origin,      \* per run: the key of the request that queued it, and whether to recover
    pc,          \* per request: where its handler is
    request,     \* per request: what was asked
    loaded,      \* per request: the document its session loaded or inserts
    lookup,      \* per request: the stored response its session loaded
    answer       \* per request: what it will answer

database == <<documents, runs, sources, responses, origin>>
session  == <<request, loaded, lookup, answer>>
vars     == <<database, pc, session>>

-------------------------------------------------------------------------------
Scopes == {"create", "reprocess"}

DocumentRow == [sha256 : Checksums,
                active_run_id : Runs \cup {None},
                latest_run_id : Runs \cup {None}]

(* queued, processing, validating and retry_wait are all in flight.  The   *)
(* last three are for DocumentCleanup: failed long ago, and deleted.       *)
RunStatuses == {"absent", "inflight", "completed", "failed",
                "expired", "superseded", "purged"}

(* The fingerprint of a request is what it asks for: the checksum of the   *)
(* file, or the document to process again.                                 *)
RequestType ==
    [scope : {"create"}, target : Checksums, key : Keys \cup {None}]
    \cup [scope : {"reprocess"}, target : Ids, key : Keys \cup {None}]

OriginType == [key : Scopes \X (Keys \cup {None}), recovery : BOOLEAN]

(* The document a session loaded, and its row as it was then.              *)
Loaded == [id : Ids, row : DocumentRow]

(* DocumentUploadResponse: the run, if one is queued or in flight, and     *)
(* recovery_run; 4xx is Refused.                                           *)
Answers  == [run : Runs \cup {None}, recovery : BOOLEAN] \cup {Refused}
Response == [fingerprint : Checksums \cup Ids, answer : Answers]

ASSUME RowAssumption ==
    /\ None \notin DocumentRow \cup RequestType \cup OriginType
    /\ None \notin Loaded \cup Answers \cup Response
    /\ Refused \notin [run : Runs \cup {None}, recovery : BOOLEAN]

Queued(r)  == [run |-> r, recovery |-> FALSE]
Recovery(r) == [run |-> r, recovery |-> TRUE]
Duplicate  == [run |-> None, recovery |-> FALSE]

Resolving == {"resolving", "outrun"}
Writing   == {"moving", "storing", "committing"}
Serving   == {"received", "finding", "admitting", "inserting", "locking"}
             \cup Resolving \cup Writing
Locations == Serving \cup {"idle", "replying"}

RunsOf(d) == {r \in Runs : DocumentOf[r] = d}
InFlight(r) == runs[r] = "inflight"

(* _next_run_number: one more than the last.                               *)
NextRun(d) ==
    CHOOSE r \in RunsOf(d) :
        /\ runs[r] = "absent"
        /\ \A s \in RunsOf(d) : s < r => runs[s] # "absent"

Goto(q, location) == pc' = [pc EXCEPT ![q] = location]

Loads(q, d) ==
    loaded' = [loaded EXCEPT ![q] = [id |-> d, row |-> documents[d]]]

(* The handler returns; its session is closed and what it did not commit   *)
(* is rolled back.                                                         *)
Return(q, a) ==
    /\ Goto(q, "replying")
    /\ answer' = [answer EXCEPT ![q] = a]
    /\ loaded' = [loaded EXCEPT ![q] = None]
    /\ lookup' = [lookup EXCEPT ![q] = None]
    /\ UNCHANGED request

(* A row lock is held to the end of the transaction: from the moment the   *)
(* document is read under the lock, while the response is stored.          *)
Locked(d) ==
    \E q \in Requests :
        pc[q] \in Writing /\ loaded[q] # None /\ loaded[q].id = d

(* The document this request inserted is not committed yet.                *)
Inserting(q) ==
    pc[q] \in Writing /\ loaded[q] # None /\ documents[loaded[q].id] = None

HasChecksum(d, c) == documents[d] # None /\ documents[d].sha256 = c

Key(q) == <<request[q].scope, request[q].key>>
Keyed(q) == request[q].key # None
Stored(q) == IF Keyed(q) THEN responses[Key(q)] ELSE None
SameRequest(q, row) == row.fingerprint = request[q].target

AtCapacity_OneMore ==
    /\ InflightLimit > 0
    /\ Cardinality({r \in Runs : InFlight(r)}) > InflightLimit

(* _enforce_remote_document_run_backpressure                               *)
AtCapacity ==
    /\ InflightLimit > 0
    /\ Cardinality({r \in Runs : InFlight(r)}) >= InflightLimit

-------------------------------------------------------------------------------
(* Requests arrive                                                         *)

(* Bound: run ids are left for whatever the requests under way, and n more *)
(* of them, may queue.                                                     *)
RoomFor(n) ==
    \A d \in Ids :
        Cardinality({r \in RunsOf(d) : runs[r] = "absent"})
            > n + Cardinality({q \in Requests : pc[q] # "idle"})

(* Where the handler goes on without a stored response.                    *)
Start(asked) == IF asked.scope = "create" THEN "finding" ELSE "locking"

(* ingest_upload, ingest_local_file (which has no key) and                 *)
(* reprocess_document.                                                     *)
Receive(q, asked) ==
    /\ pc[q] = "idle"
    /\ RoomFor(0)
    /\ KeysSequential /\ asked.key # None =>
         \A p \in Requests : pc[p] # "idle" =>
             request[p] # asked
    /\ request' = [request EXCEPT ![q] = asked]
    /\ Goto(q, IF asked.key # None THEN "received" ELSE Start(asked))
    /\ UNCHANGED <<database, loaded, lookup, answer>>

(* get_idempotent_response found a row: the same answer again, or 409      *)
(* idempotency_key_reused.                                                 *)
Replay(q) ==
    /\ pc[q] = "received"
    /\ Stored(q) # None
    /\ Return(q, IF SameRequest(q, Stored(q)) THEN Stored(q).answer ELSE Refused)
    /\ UNCHANGED database

StartOver_Unchecked(q) ==
    /\ pc[q] = "received"
    /\ Goto(q, Start(request[q]))
    /\ UNCHANGED <<database, session>>

(* get_idempotent_response found none.                                     *)
StartOver(q) ==
    /\ pc[q] = "received"
    /\ Stored(q) = None
    /\ Goto(q, Start(request[q]))
    /\ UNCHANGED <<database, session>>

-------------------------------------------------------------------------------
(* Uploads of a new file                                                   *)

(* SELECT ... WHERE sha256: the row is loaded without a lock.              *)
FindDocument(q) ==
    /\ pc[q] = "finding"
    /\ \E d \in Ids :
         /\ HasChecksum(d, request[q].target)
         /\ Loads(q, d)
    /\ Goto(q, "resolving")
    /\ UNCHANGED <<database, request, lookup, answer>>

FindNothing(q) ==
    /\ pc[q] = "finding"
    /\ \A d \in Ids : ~HasChecksum(d, request[q].target)
    /\ Goto(q, "admitting")
    /\ UNCHANGED <<database, session>>

Admit(q) ==
    /\ pc[q] = "admitting"
    /\ IF AtCapacity
       THEN Return(q, Refused)
       ELSE Goto(q, "inserting") /\ UNCHANGED session
    /\ UNCHANGED database

(* The unique index on documents.sha256 makes the INSERT wait for another  *)
(* transaction that inserts the same checksum.                             *)
IndexFree(q) ==
    \A p \in Requests : Inserting(p) => loaded[p].row.sha256 # request[q].target

(* A new UUID.  Bound: a request waits when the ids are used up.           *)
Unused(d) ==
    /\ documents[d] = None
    /\ \A r \in RunsOf(d) : runs[r] = "absent"
    /\ \A p \in Requests : loaded[p] # None => loaded[p].id # d

InsertDocument(q) ==
    /\ pc[q] = "inserting"
    /\ IndexFree(q)
    /\ \A d \in Ids : ~HasChecksum(d, request[q].target)
    /\ \E d \in Ids :
         /\ Unused(d)
         /\ \A e \in Ids : e < d => ~Unused(e)
         /\ loaded' = [loaded EXCEPT ![q] =
              [id |-> d,
               row |-> [sha256 |-> request[q].target,
                        active_run_id |-> None, latest_run_id |-> None]]]
    /\ Goto(q, "moving")
    /\ UNCHANGED <<database, request, lookup, answer>>

(* IntegrityError: another request was first; its document is resolved,    *)
(* and the response will not be stored.                                    *)
InsertConflicts(q) ==
    /\ pc[q] = "inserting"
    /\ \E d \in Ids :
         /\ HasChecksum(d, request[q].target)
         /\ Loads(q, d)
    /\ Goto(q, "outrun")
    /\ UNCHANGED <<database, request, lookup, answer>>

(* move_source_file, and the INSERT of the first run.                      *)
MoveSource(q) ==
    LET d == loaded[q].id
    IN  /\ pc[q] = "moving"
        /\ sources' = sources \cup {d}
        /\ answer' = [answer EXCEPT ![q] = Queued(NextRun(d))]
        /\ Goto(q, IF Keyed(q) THEN "storing" ELSE "committing")
        /\ UNCHANGED <<documents, runs, responses, origin, request, loaded, lookup>>

-------------------------------------------------------------------------------
(* Uploads of a known file: _resolve_existing_document_upload              *)

(* session.get(DocumentRun, ...), by an id of the document as it was       *)
(* loaded: FOR UPDATE does not refresh a row the session already has.      *)
RunExists(r) == r # None /\ runs[r] \notin {"absent", "superseded", "purged"}

SeesActive(q) == RunExists(loaded[q].row.active_run_id)
SeesInflight(q) ==
    LET latest == loaded[q].row.latest_run_id
    IN  RunExists(latest) /\ InFlight(latest)

(* The document is gone: 404.                                              *)
ResolveNothing(q) ==
    /\ pc[q] \in Resolving
    /\ documents[loaded[q].id] = None
    /\ Return(q, Refused)
    /\ UNCHANGED database

(* The duplicate response, or the run that is already in flight.           *)
ResolveExisting(q) ==
    LET found == IF SeesActive(q) THEN Duplicate
                 ELSE Recovery(loaded[q].row.latest_run_id)
    IN  /\ pc[q] \in Resolving
        /\ documents[loaded[q].id] # None
        /\ ~Locked(loaded[q].id)
        /\ SeesActive(q) \/ SeesInflight(q)
        /\ IF pc[q] = "resolving" /\ Keyed(q)
           THEN /\ Goto(q, "storing")
                /\ answer' = [answer EXCEPT ![q] = found]
                /\ UNCHANGED <<request, loaded, lookup>>
           ELSE Return(q, found)
        /\ UNCHANGED database

QueueRun_AsQueued(q, d, r, row) ==
    /\ runs' = [runs EXCEPT ![r] = "queued"]
    /\ documents' = [documents EXCEPT ![d] = [row EXCEPT !.latest_run_id = r]]
    /\ origin' = [origin EXCEPT ![r] =
         [key |-> Key(q), recovery |-> pc[q] \in Resolving]]

(* _create_run_for_locked_document                                         *)
QueueRun(q, d, r, row) ==
    /\ runs' = [runs EXCEPT ![r] = "inflight"]
    /\ documents' = [documents EXCEPT ![d] = [row EXCEPT !.latest_run_id = r]]
    /\ origin' = [origin EXCEPT ![r] =
         [key |-> Key(q), recovery |-> pc[q] \in Resolving]]

(* A recovery run is committed before its response is stored.              *)
QueueRecovery(q) ==
    LET d == loaded[q].id
        r == NextRun(d)
    IN  /\ pc[q] \in Resolving
        /\ documents[d] # None
        /\ ~Locked(d)
        /\ ~SeesActive(q) /\ ~SeesInflight(q)
        /\ QueueRun(q, d, r, documents[d])
        /\ IF pc[q] = "resolving" /\ Keyed(q)
           THEN /\ Goto(q, "storing")
                /\ answer' = [answer EXCEPT ![q] = Recovery(r)]
                /\ loaded' = [loaded EXCEPT ![q] = None]
                /\ UNCHANGED <<request, lookup>>
           ELSE Return(q, Recovery(r))
        /\ UNCHANGED <<sources, responses>>

-------------------------------------------------------------------------------
(* reprocess_document                                                      *)

MayReprocess_Any(d) == TRUE

(* The latest run is not in flight, read under the lock.                   *)
MayReprocess(d) ==
    LET latest == documents[d].latest_run_id
    IN  ~(RunExists(latest) /\ InFlight(latest))

LockDocument(q) ==
    LET d == request[q].target
    IN  /\ pc[q] = "locking"
        /\ ~Locked(d)
        /\ IF documents[d] = None \/ ~MayReprocess(d) \/ AtCapacity
           THEN Return(q, Refused)
           ELSE /\ Loads(q, d)
                /\ answer' = [answer EXCEPT ![q] = Queued(NextRun(d))]
                /\ Goto(q, IF Keyed(q) THEN "storing" ELSE "committing")
                /\ UNCHANGED <<request, lookup>>
        /\ UNCHANGED database

-------------------------------------------------------------------------------
(* store_idempotent_response and the commit                                *)

LookUpResponse(q) ==
    /\ pc[q] = "storing"
    /\ Stored(q) # None => SameRequest(q, Stored(q))
    /\ lookup' = [lookup EXCEPT ![q] = Stored(q)]
    /\ Goto(q, "committing")
    /\ UNCHANGED <<database, request, loaded, answer>>

(* A row that was found is overwritten; one that was inserted since wins.  *)
StoreResponse(q) ==
    responses' =
        IF ~Keyed(q) \/ (lookup[q] = None /\ Stored(q) # None)
        THEN responses
        ELSE [responses EXCEPT ![Key(q)] =
                [fingerprint |-> request[q].target, answer |-> answer[q]]]

(* The run of the response is new, and inserted by this transaction.       *)
Creates(q) == answer[q].run # None /\ runs[answer[q].run] = "absent"

Commit_ResponseLater(q) ==
    /\ pc[q] = "committing"
    /\ IF Creates(q)
       THEN QueueRun(q, loaded[q].id, answer[q].run, loaded[q].row)
       ELSE UNCHANGED <<documents, runs, origin>>
    /\ UNCHANGED <<sources, responses>>
    /\ Return(q, answer[q])

(* The document, the run and the response in one commit.                   *)
Commit(q) ==
    /\ pc[q] = "committing"
    /\ Stored(q) # None => SameRequest(q, Stored(q))
    /\ IF Creates(q)
       THEN QueueRun(q, loaded[q].id, answer[q].run, loaded[q].row)
       ELSE UNCHANGED <<documents, runs, origin>>
    /\ StoreResponse(q)
    /\ Return(q, answer[q])
    /\ UNCHANGED sources

Discard_EveryFile(q) ==
    sources' = IF pc[q] \in {"storing", "committing"} /\ loaded[q] # None
               THEN sources \ {loaded[q].id} ELSE sources

(* The file of a document that is not committed is deleted again.          *)
Discard(q) ==
    sources' = IF pc[q] \in {"storing", "committing"} /\ Inserting(q)
               THEN sources \ {loaded[q].id} ELSE sources

(* The key was used for another request meanwhile: 409, and everything is  *)
(* rolled back.                                                            *)
KeyReused(q) ==
    /\ pc[q] \in {"storing", "committing"}
    /\ Stored(q) # None
    /\ ~SameRequest(q, Stored(q))
    /\ Discard(q)
    /\ Return(q, Refused)
    /\ UNCHANGED <<documents, runs, responses, origin>>

(* An exception, or the death of the process, wherever the request is; the *)
(* client has no answer, and may send the request again.                   *)
Abort(q) ==
    /\ pc[q] \in Serving
    /\ Discard(q)
    /\ Goto(q, "idle")
    /\ request' = [request EXCEPT ![q] = None]
    /\ loaded' = [loaded EXCEPT ![q] = None]
    /\ lookup' = [lookup EXCEPT ![q] = None]
    /\ answer' = [answer EXCEPT ![q] = None]
    /\ UNCHANGED <<documents, runs, responses, origin>>

(* The client has its answer.                                              *)
Reply(q) ==
    /\ pc[q] = "replying"
    /\ Goto(q, "idle")
    /\ request' = [request EXCEPT ![q] = None]
    /\ answer' = [answer EXCEPT ![q] = None]
    /\ UNCHANGED <<database, loaded, lookup>>

-------------------------------------------------------------------------------
(* The worker, as RunContract has it                                       *)

(* finalize_run_success: the run is served from now on; without the source *)
(* file it would have failed.                                              *)
RunSucceeds(r) ==
    LET d == DocumentOf[r]
    IN  /\ InFlight(r)
        /\ d \in sources
        /\ ~Locked(d)
        /\ runs' = [runs EXCEPT ![r] = "completed"]
        /\ documents' = [documents EXCEPT ![d].active_run_id = r,
                                          ![d].latest_run_id = r]
        /\ UNCHANGED <<sources, responses, origin, pc, session>>

RunFails(r) ==
    /\ InFlight(r)
    /\ runs' = [runs EXCEPT ![r] = "failed"]
    /\ UNCHANGED <<documents, sources, responses, origin, pc, session>>

-------------------------------------------------------------------------------
Init ==
    /\ documents = [d \in Ids |-> None]
    /\ runs = [r \in Runs |-> "absent"]
    /\ sources = {}
    /\ responses = [k \in Scopes \X Keys |-> None]
    /\ origin = [r \in Runs |-> None]
    /\ pc = [q \in Requests |-> "idle"]
    /\ request = [q \in Requests |-> None]
    /\ loaded = [q \in Requests |-> None]
    /\ lookup = [q \in Requests |-> None]
    /\ answer = [q \in Requests |-> None]

(* What a request does of its own accord once it is there.                 *)
Progress(q) ==
    \/ Replay(q) \/ StartOver(q)
    \/ FindDocument(q) \/ FindNothing(q) \/ Admit(q)
    \/ InsertDocument(q) \/ InsertConflicts(q) \/ MoveSource(q)
    \/ ResolveNothing(q) \/ ResolveExisting(q) \/ QueueRecovery(q)
    \/ LockDocument(q)
    \/ LookUpResponse(q) \/ Commit(q) \/ KeyReused(q)

WorkerStep == \E r \in Runs : RunSucceeds(r) \/ RunFails(r)

(* ReadsPrompt: while one request is between the read of a document and    *)
(* its lock, no other one gets there and nobody changes the document.      *)
Prompt ==
    ReadsPrompt =>
        \A q \in Requests :
            pc[q] \in Resolving /\ pc'[q] \in Resolving =>
                /\ documents'[loaded[q].id] = documents[loaded[q].id]
                /\ \A p \in Requests \ {q} :
                     pc'[p] \in Resolving => loaded'[p].id # loaded[q].id

Next ==
    \/ \E q \in Requests, asked \in RequestType : Receive(q, asked)
    \/ \E q \in Requests : Progress(q) /\ Prompt
    \/ \E q \in Requests : Abort(q) \/ Reply(q)
    \/ WorkerStep /\ Prompt

Spec == Init /\ [][Next]_vars

-------------------------------------------------------------------------------
(* Correctness                                                             *)

(* Every variable has its type.                                            *)
TypeOK ==
    /\ documents \in [Ids -> DocumentRow \cup {None}]
    /\ runs \in [Runs -> RunStatuses]
    /\ sources \subseteq Ids
    /\ responses \in [Scopes \X Keys -> Response \cup {None}]
    /\ origin \in [Runs -> OriginType \cup {None}]
    /\ pc \in [Requests -> Locations]
    /\ request \in [Requests -> RequestType \cup {None}]
    /\ loaded \in [Requests -> Loaded \cup {None}]
    /\ lookup \in [Requests -> Response \cup {None}]
    /\ answer \in [Requests -> Answers \cup {None}]

(* A document never has two runs in flight, whether they come from         *)
(* uploads, recoveries or reprocess requests.                              *)
OneRunInFlight ==
    \A r, s \in Runs :
        InFlight(r) /\ InFlight(s) /\ DocumentOf[r] = DocumentOf[s] => r = s

(* "One canonical logical document per checksum" (SYSTEM_PLAN.md:23), and  *)
(* a run in flight finds the file it is to parse and the document it is    *)
(* to be promoted to.                                                      *)
DocumentsComplete ==
    /\ \A d, e \in Ids :
         documents[d] # None /\ HasChecksum(e, documents[d].sha256) => d = e
    /\ \A r \in Runs :
         InFlight(r) => DocumentOf[r] \in sources /\ documents[DocumentOf[r]] # None

(* A key never pays for the same work twice: a request that is repeated    *)
(* because its answer was lost queues another run only after the first one *)
(* has failed.                                                             *)
RepeatedOnlyAfterFailure ==
    \A r, s \in Runs :
        /\ r < s
        /\ DocumentOf[r] = DocumentOf[s]
        /\ origin[r] # None /\ origin[s] # None
        /\ origin[r].key = origin[s].key
        /\ origin[r].key \in Scopes \X Keys
        => runs[r] \in {"failed", "expired", "purged"}

(* What was once answered under a key stays the answer to it.              *)
AnswersStand ==
    [][\A k \in Scopes \X Keys :
         responses[k] # None => responses'[k] = responses[k]]_vars

(* The request has passed the check of the limit and not yet queued a run. *)
Admitted(q) ==
    \/ pc[q] \in {"inserting", "moving"}
    \/ pc[q] \in {"storing", "committing"} /\ Creates(q)

(* The limit may be exceeded by the requests that were counted together,   *)
(* and by no more; recovery runs are not limited.                          *)
WithinCapacity ==
    InflightLimit > 0 =>
        Cardinality({r \in Runs : InFlight(r) /\ ~origin[r].recovery})
          + Cardinality({q \in Requests : Admitted(q)})
            < InflightLimit + Cardinality(Requests)

(* The API as the users of a document see it.                              *)
Outcome(r) ==
    CASE runs[r] = "absent" -> "absent"
      [] runs[r] = "inflight" -> "pending"
      [] runs[r] \in {"completed", "superseded"} -> "succeeded"
      [] runs[r] \in {"failed", "expired", "purged"} -> "failed"

Active(d) == IF documents[d] = None THEN None ELSE documents[d].active_run_id

Contract == INSTANCE RunContract WITH
    Documents <- Ids,
    outcome   <- [r \in Runs |-> Outcome(r)],
    served    <- [d \in Ids |-> Active(d)],
    published <- [d \in Ids |-> Active(d)]

(* The runs that requests queue, together with a worker that keeps its     *)
(* side, satisfy the contract that RunLifecycle implements.                *)
ImplementsContract == Contract!Spec

===============================================================================
