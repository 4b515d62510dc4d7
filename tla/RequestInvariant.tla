--------------------------- MODULE RequestInvariant ---------------------------
(***************************************************************************)
(* What the requests of DocumentIngest hold where they are, in any         *)
(* deployment and whatever else runs beside them: a cleanup command        *)
(* (DocumentInvariant) or an ingest batch (BatchInvariant).                *)
(***************************************************************************)
EXTENDS DocumentIngest

Exists(r) == runs[r] # "absent"

-------------------------------------------------------------------------------
(* Requests                                                                *)

Creating  == {"finding", "admitting", "inserting", "moving"} \cup Resolving
Answering == {"storing", "committing"}

(* A request that has not queued its run yet, if it queues one.            *)
Spending(q) ==
    pc[q] \in Serving /\ (pc[q] \in Answering => Creates(q))

(* The run that _next_run_number would give out.                           *)
Follows(r, d) ==
    /\ r \in RunsOf(d) /\ ~Exists(r)
    /\ \A s \in RunsOf(d) : s < r => Exists(s)

Spenders  == {q \in Requests : Spending(q)}
Absent(d) == {r \in RunsOf(d) : ~Exists(r)}

(* What a request holds where it is; there is a run id left for each.      *)
RequestSound(q) ==
    /\ request[q] = None <=> pc[q] = "idle"
    /\ pc[q] \in Creating => request[q].scope = "create"
    /\ pc[q] = "locking" => request[q].scope = "reprocess"
    /\ pc[q] \in Resolving \cup {"moving"} => loaded[q] # None
    /\ pc[q] \notin Resolving \cup Writing => loaded[q] = None
    /\ pc[q] \in Answering =>
         /\ answer[q] \notin {None, Refused}
         /\ Creates(q) => loaded[q] # None /\ answer[q].run \in RunsOf(loaded[q].id)
    /\ pc[q] = "storing" => Keyed(q)

(* The runs of a document are deleted with it.                             *)
NoOrphans ==
    \A r \in Runs :
        runs[r] \notin {"absent", "purged"} => documents[DocumentOf[r]] # None

RequestInv ==
    /\ \A q \in Requests : RequestSound(q)
    /\ NoOrphans
    /\ \A d \in Ids : Cardinality(Spenders) <= Cardinality(Absent(d))

-------------------------------------------------------------------------------
(* New documents                                                           *)

OneDocumentPerChecksum ==
    \A d, e \in Ids :
        documents[d] # None /\ HasChecksum(e, documents[d].sha256) => d = e

(* A document that is being inserted is nobody else's, and new.            *)
InsertingSound(q) ==
    LET d == loaded[q].id
    IN  Inserting(q) =>
          /\ request[q].scope = "create"
          /\ loaded[q].row = [sha256 |-> request[q].target,
                              active_run_id |-> None, latest_run_id |-> None]
          /\ \A r \in RunsOf(d) : ~Exists(r)
          /\ \A p \in Requests \ {q} : loaded[p] # None => loaded[p].id # d
          /\ \A e \in Ids : ~HasChecksum(e, request[q].target)
          /\ \A p \in Requests \ {q} :
               Inserting(p) => loaded[p].row.sha256 # request[q].target
          /\ pc[q] # "moving" => d \in sources /\ Follows(answer[q].run, d)

===============================================================================
