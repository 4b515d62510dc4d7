--------------------------- MODULE DocumentCleanup ----------------------------
(***************************************************************************)
(* DocumentIngest together with the maintenance command that runs beside   *)
(* it (app/maintenance.py, app/services/cleanup.py): a pass that deletes   *)
(* documents whose runs all failed long ago, and one that deletes the      *)
(* successful runs which later ones superseded.  Both load rows first,     *)
(* delete files at once, and delete the rows in one commit at the end.     *)
(* Row locks are not taken; the DELETE waits for those of others.          *)
(***************************************************************************)
EXTENDS DocumentIngest

CONSTANT CleanupUndisturbed   \* see Undisturbed

ASSUME CleanupAssumption == CleanupUndisturbed \in BOOLEAN

VARIABLES
    phase,     \* where the command is
    pending,   \* the documents the pass has still to look at
    view,      \* the document rows the pass loaded
    doomed     \* the documents, or runs, whose rows the commit will delete

cleanup == <<phase, pending, view, doomed>>
allVars == <<vars, cleanup>>

-------------------------------------------------------------------------------
(* A failure becomes older than the cutoff of the pass.                    *)
Expire(r) ==
    /\ runs[r] = "failed"
    /\ runs' = [runs EXCEPT ![r] = "expired"]
    /\ UNCHANGED <<documents, sources, responses, origin, pc, session, cleanup>>

Finish ==
    /\ phase' = "idle"
    /\ pending' = {}
    /\ view' = None
    /\ doomed' = {}

-------------------------------------------------------------------------------
(* cleanup_expired_failed_run_artifacts: the documents of old failures.    *)
BeginExpired ==
    /\ phase = "idle"
    /\ \E r \in Runs : runs[r] = "expired"
    /\ phase' = "expired"
    /\ pending' = {DocumentOf[r] : r \in {s \in Runs : runs[s] = "expired"}}
    /\ UNCHANGED <<vars, view, doomed>>

(* _document_runs_are_expired_failures                                     *)
ExpiredFailures(d) ==
    \A r \in RunsOf(d) : runs[r] \in {"absent", "expired", "superseded"}

(* _delete_never_active_failed_document, per document: the source file     *)
(* goes, the row is marked for deletion.                                   *)
DoomDocument(d) ==
    /\ phase = "expired"
    /\ d \in pending
    /\ pending' = pending \ {d}
    /\ IF documents[d] # None /\ Active(d) = None /\ ExpiredFailures(d)
       THEN /\ sources' = sources \ {d}
            /\ doomed' = doomed \cup {d}
       ELSE UNCHANGED <<sources, doomed>>
    /\ UNCHANGED <<documents, runs, responses, origin, pc, session, phase, view>>

(* The DELETE of a document takes its runs with it (ON DELETE CASCADE).    *)
CommitExpired ==
    /\ phase = "expired"
    /\ pending = {}
    /\ \A d \in doomed : ~Locked(d)
    /\ documents' = [d \in Ids |-> IF d \in doomed THEN None ELSE documents[d]]
    /\ runs' = [r \in Runs |-> IF DocumentOf[r] \in doomed /\ runs[r] # "absent"
                               THEN "purged" ELSE runs[r]]
    /\ Finish
    /\ UNCHANGED <<sources, responses, origin, pc, session>>

-------------------------------------------------------------------------------
(* cleanup_superseded_runs: all documents are loaded before the first one  *)
(* is looked at.                                                           *)
BeginSuperseded ==
    /\ phase = "idle"
    /\ \E r \in Runs : runs[r] = "completed"
    /\ phase' = "superseded"
    /\ pending' = {d \in Ids : documents[d] # None}
    /\ view' = documents
    /\ UNCHANGED <<vars, doomed>>

(* determine_superseded_run_ids keeps the run that was active when the     *)
(* documents were loaded, and the newest other one.                        *)
Keeps_ActiveOnly(successful, active) == successful \cap {active}

Keeps(successful, active) ==
    (successful \cap {active})
    \cup {r \in successful \ {active} : \A s \in successful \ {active} : s <= r}

DoomRuns(d) ==
    LET successful == {r \in RunsOf(d) : runs[r] = "completed"}
    IN  /\ phase = "superseded"
        /\ d \in pending
        /\ pending' = pending \ {d}
        /\ doomed' = doomed \cup (successful \ Keeps(successful, view[d].active_run_id))
        /\ UNCHANGED <<vars, phase, view>>

(* Pointers to a deleted run become NULL (ON DELETE SET NULL).             *)
Unlink(r) == IF r \in doomed THEN None ELSE r

CommitSuperseded ==
    /\ phase = "superseded"
    /\ pending = {}
    /\ \A r \in doomed : ~Locked(DocumentOf[r])
    /\ runs' = [r \in Runs |-> IF r \in doomed THEN "superseded" ELSE runs[r]]
    /\ documents' = [d \in Ids |->
         IF documents[d] = None THEN None
         ELSE [documents[d] EXCEPT !.active_run_id = Unlink(@),
                                   !.latest_run_id = Unlink(@)]]
    /\ Finish
    /\ UNCHANGED <<sources, responses, origin, pc, session>>

(* The command is killed: the files it deleted stay deleted.               *)
CleanupDies ==
    /\ phase # "idle"
    /\ Finish
    /\ UNCHANGED vars

-------------------------------------------------------------------------------
CleanupInit ==
    /\ Init
    /\ phase = "idle"
    /\ pending = {}
    /\ view = None
    /\ doomed = {}

CleanupStep ==
    \/ BeginExpired \/ CommitExpired
    \/ BeginSuperseded \/ CommitSuperseded
    \/ \E d \in Ids : DoomDocument(d) \/ DoomRuns(d)
    \/ CleanupDies

(* CleanupUndisturbed: from the deletion of the source file of a document  *)
(* to the commit that deletes its row the command is not killed, and no    *)
(* other transaction writes the document.                                  *)
Undisturbed ==
    CleanupUndisturbed /\ "expired" \in {phase, phase'} =>
        /\ phase' = "idle" /\ doomed # {} => documents' # documents
        /\ \A d \in doomed \cap doomed' : documents'[d] = documents[d]
        /\ \A q \in Requests :
             pc'[q] \in Writing /\ loaded'[q] # None => loaded'[q].id \notin doomed'

CleanupNext ==
    \/ Next /\ UNCHANGED cleanup /\ Undisturbed
    \/ CleanupStep /\ Undisturbed
    \/ \E r \in Runs : Expire(r)

CleanupSpec == CleanupInit /\ [][CleanupNext]_allVars

-------------------------------------------------------------------------------
(* Correctness                                                             *)

(* Every variable has its type.                                            *)
CleanupTypeOK ==
    /\ TypeOK
    /\ phase \in {"idle", "expired", "superseded"}
    /\ pending \subseteq Ids
    /\ view \in [Ids -> DocumentRow \cup {None}] \cup {None}
    /\ doomed \subseteq Ids \cup Runs

(* The run a document serves is never deleted, however many promotions     *)
(* happen between the read of the documents and the commit of the pass;    *)
(* nor is the successful one before it, if the document was served at all  *)
(* when it was read.                                                       *)
ServedRunsKept ==
    [][\A d \in Ids :
         Active(d) # None =>
            LET before == {r \in RunsOf(d) : runs[r] = "completed" /\ r < Active(d)}
            IN  /\ Active(d)' # None
                /\ runs'[Active(d)] = "completed"
                /\ view # None /\ view[d] # None /\ view[d].active_run_id # None
                      /\ before # {}
                   => \E r \in before : runs'[r] = "completed"]_allVars

===============================================================================
