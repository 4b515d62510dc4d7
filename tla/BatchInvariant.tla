---------------------------- MODULE BatchInvariant ----------------------------
(***************************************************************************)
(* Why readers of a batch of IngestBatches are told the truth, in any      *)
(* deployment: recovery runs that race are included.  The outcome of a     *)
(* file is recorded once and read later, when its run may have failed and  *)
(* others may have been queued; documents, their content and their         *)
(* successful runs are there to stay.                                      *)
(***************************************************************************)
EXTENDS IngestBatches, RequestInvariant

(* What a row of a document names: a run that succeeded, and one that is   *)
(* there.                                                                  *)
RowSound(d, row) ==
    /\ row.active_run_id # None =>
         row.active_run_id \in RunsOf(d) /\ runs[row.active_run_id] = "completed"
    /\ row.latest_run_id # None =>
         row.latest_run_id \in RunsOf(d) /\ Exists(row.latest_run_id)

(* A document that a session loaded has the same content still, which is   *)
(* that of the file that was uploaded.                                     *)
LoadedSound(q) ==
    LET d == loaded[q].id
    IN  loaded[q] # None =>
          /\ RowSound(d, loaded[q].row)
          /\ documents[d] # None => documents[d].sha256 = loaded[q].row.sha256
          /\ pc[q] \in Resolving => documents[d] # None
          /\ request[q].scope = "create" => loaded[q].row.sha256 = request[q].target

(* A document is locked once; where a run is to be created, it is as it    *)
(* was read under the lock.                                                *)
HeldSound(q) ==
    LET d == loaded[q].id
    IN  pc[q] \in Writing /\ loaded[q] # None /\ documents[d] # None =>
          /\ pc[q] # "moving"
          /\ Creates(q) => documents[d] = loaded[q].row
          /\ \A p \in Requests \ {q} :
               pc[p] \in Writing /\ loaded[p] # None => loaded[p].id # d

IngestSound ==
    /\ OneDocumentPerChecksum
    /\ \A d \in Ids : documents[d] # None => RowSound(d, documents[d])
    /\ \A q \in Requests : InsertingSound(q) /\ LoadedSound(q) /\ HeldSound(q)

-------------------------------------------------------------------------------
(* The file c was answered with the document d: with one of its runs, or   *)
(* as a duplicate of one that succeeded.                                   *)
Answered(c, d, r) ==
    /\ HasChecksum(d, c)
    /\ IF r = None THEN \E s \in RunsOf(d) : runs[s] = "completed"
                   ELSE r \in RunsOf(d) /\ Exists(r)

NextFile == [scope |-> "create", target |-> Files[Len(items) + 1], key |-> None]

(* The batch works on one file at a time.                                  *)
LoaderSound ==
    /\ Len(items) <= Len(Files)
    /\ place \in {"ingesting", "failing"} => Len(items) < Len(Files)
    /\ pc[Loader] # "idle" => place = "ingesting" /\ request[Loader] = NextFile
    /\ place = "ingesting" => pc[Loader] # "idle"
    /\ pc[Loader] = "committing" => Inserting(Loader)
    /\ pc[Loader] = "replying" /\ answer[Loader] # Refused =>
         /\ answer[Loader] # None
         /\ \E d \in Ids : Answered(request[Loader].target, d, answer[Loader].run)

ItemSound(item) ==
    IF item.status = "failed" THEN item.run = None
    ELSE /\ item.document \in Ids
         /\ Answered(item.sha256, item.document, item.run)
         /\ item.run = None => item.duplicate

(* Items are recorded in the order of the files, and the batch finishes    *)
(* after the last one; only a file that failed may be without a checksum.  *)
ItemsInOrder ==
    \A i \in DOMAIN items :
        \/ items[i].sha256 = Files[i]
        \/ items[i].sha256 = None /\ items[i].status = "failed"

FinishedSound ==
    batch # None /\ batch.status # "running" =>
        /\ place = "returned"
        /\ batch.status # "failed" =>
             /\ Len(items) = Len(Files)
             /\ batch.status = "completed" <=> batch.count["failed_count"] = 0

BatchSound ==
    /\ batch = None => items = <<>> /\ place \in {"start", "dead"}
    /\ \A i \in DOMAIN items : ItemSound(items[i])
    /\ CountsMatchItems
    /\ ItemsInOrder
    /\ FinishedSound

BatchInv ==
    BatchTypeOK /\ RequestInv /\ IngestSound /\ LoaderSound /\ BatchSound

-------------------------------------------------------------------------------
(* What follows for a batch that came to its end                           *)

Finished == batch # None /\ batch.status \in {"completed", "completed_with_errors"}

(* Every file of the directory has its item, with its checksum unless the  *)
(* file failed and was gone by then, and the batch is stored as completed  *)
(* without errors if and only if none of them failed.                      *)
FilesAccountedFor ==
    Finished =>
        /\ DOMAIN items = DOMAIN Files
        /\ ItemsInOrder
        /\ batch.status = "completed" <=> \A i \in DOMAIN items : items[i].status # "failed"

(* A reader who is told that a finished batch is completed finds a run     *)
(* that succeeded for the content of every file of the directory.          *)
CompletedMeansIngested ==
    Finished /\ DerivedStatus = "completed" =>
        \A i \in DOMAIN Files :
            \E r \in Runs : runs[r] = "completed" /\ HasChecksum(DocumentOf[r], Files[i])

===============================================================================
