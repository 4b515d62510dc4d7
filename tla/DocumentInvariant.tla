-------------------------- MODULE DocumentInvariant ---------------------------
(***************************************************************************)
(* Why documents, runs and stored answers of DocumentCleanup fit together. *)
(* A request queues a run from a document that it loaded, under a lock it  *)
(* takes later or with an answer it stores later; a cleanup pass deletes   *)
(* from rows it loaded at its start.  What each of them holds is still so  *)
(* when it commits.                                                        *)
(***************************************************************************)
EXTENDS DocumentCleanup, RequestInvariant

(* Requests are never repeated while under way, nobody acts between the    *)
(* read of a document and its lock, nor between the deletion of a source   *)
(* file and that of its row.                                               *)
CarefulDeployment == KeysSequential /\ ReadsPrompt /\ CleanupUndisturbed

-------------------------------------------------------------------------------
(* Documents and their runs                                                *)

RunsInOrder ==
    \A r, s \in Runs :
        DocumentOf[r] = DocumentOf[s] /\ s < r /\ Exists(r) => Exists(s)

(* The latest run is the last one there is, a run in flight is the latest, *)
(* and the active one the last that succeeded.                             *)
DocumentSound(d) ==
    documents[d] # None =>
        LET active == documents[d].active_run_id
            latest == documents[d].latest_run_id
        IN  /\ latest \in RunsOf(d) /\ Exists(latest)
            /\ \A r \in RunsOf(d) :
                 /\ Exists(r) => r <= latest
                 /\ InFlight(r) => r = latest
                 /\ runs[r] \in {"completed", "superseded"} => active # None /\ r <= active
                 /\ runs[r] # "purged"
            /\ active # None => active \in RunsOf(d) /\ runs[active] = "completed"
            /\ d \in sources \/ (phase = "expired" /\ d \in doomed)

(* A document that is resolved is as it was loaded, or gone.               *)
ResolvingSound(q) ==
    pc[q] \in Resolving =>
        documents[loaded[q].id] \in {None, loaded[q].row}

(* A document that is locked is as it was read.                            *)
LockSound(q) ==
    LET d == loaded[q].id
    IN  pc[q] \in Writing /\ loaded[q] # None /\ documents[d] # None =>
          /\ pc[q] # "moving"
          /\ documents[d] = loaded[q].row
          /\ \A p \in Requests \ {q} :
               pc[p] \in Writing /\ loaded[p] # None => loaded[p].id # d
          /\ Creates(q) =>
               /\ request[q].scope = "reprocess" /\ request[q].target = d
               /\ Follows(answer[q].run, d)
               /\ \A r \in RunsOf(d) : ~InFlight(r)

DocumentInv ==
    /\ RunsInOrder
    /\ OneDocumentPerChecksum
    /\ \A d \in Ids : DocumentSound(d)
    /\ \A q \in Requests : ResolvingSound(q) /\ InsertingSound(q) /\ LockSound(q)

-------------------------------------------------------------------------------
(* The cleanup command                                                     *)

(* Between passes nothing is held; only successful runs are superseded.    *)
PassSound ==
    /\ phase = "idle" => pending = {} /\ view = None /\ doomed = {}
    /\ phase = "superseded" => \A r \in doomed : r \in Runs /\ runs[r] = "completed"

(* What will be deleted is still as dead as when it was looked at.         *)
ExpiredSound ==
    phase = "expired" =>
        \A d \in doomed :
            /\ d \in Ids /\ documents[d] # None
            /\ Active(d) = None /\ ExpiredFailures(d)
            /\ ~Locked(d)

(* The active run of the view was overtaken by later ones at most, and the *)
(* pass leaves one that succeeded before it.                               *)
ViewSound(d) ==
    view[d] # None /\ view[d].active_run_id # None =>
        LET active == view[d].active_run_id
            before == {r \in RunsOf(d) : runs[r] = "completed" /\ r < active}
        IN  /\ documents[d] # None /\ Active(d) # None
            /\ active \in RunsOf(d) /\ runs[active] = "completed" /\ active <= Active(d)
            /\ active \notin doomed
            /\ Active(d) = active /\ before # {} => ~(before \subseteq doomed)

SupersededSound ==
    phase = "superseded" =>
        /\ \A d \in pending : view[d] # None
        /\ \A d \in Ids : ViewSound(d)
        /\ \A d \in Ids : view[d] # None => documents[d] # None
        /\ \A r \in doomed :
             /\ DocumentOf[r] \notin pending
             /\ documents[DocumentOf[r]] # None
             /\ Active(DocumentOf[r]) # None /\ r < Active(DocumentOf[r])

CleanupInv == ExpiredSound /\ SupersededSound

-------------------------------------------------------------------------------
(* Stored answers                                                          *)

(* An answer that is stored while a request is under way answers another   *)
(* request under its key.                                                  *)
KeySound(q) ==
    Keyed(q) /\ pc[q] \notin {"idle", "replying"} =>
        /\ \A p \in Requests \ {q} : pc[p] # "idle" => request[p] # request[q]
        /\ pc[q] # "received" /\ Stored(q) # None => ~SameRequest(q, Stored(q))

(* The run of a reprocess request is committed with its answer.            *)
OriginSound(r) ==
    /\ origin[r] = None <=> ~Exists(r)
    /\ Exists(r) /\ origin[r].key \in {"reprocess"} \X Keys =>
         responses[origin[r].key] # None

AnswerInv ==
    /\ \A q \in Requests : lookup[q] = None /\ (request[q] # None => KeySound(q))
    /\ \A r \in Runs : OriginSound(r)
    /\ RepeatedOnlyAfterFailure

-------------------------------------------------------------------------------
(* What holds in any deployment, where documents are read promptly and the *)
(* cleanup is undisturbed, and where keys are sequential too.              *)
BaseInv   == CleanupTypeOK /\ RequestInv /\ PassSound
StoreInv  == BaseInv /\ DocumentInv /\ CleanupInv
IngestInv == StoreInv /\ AnswerInv

===============================================================================
