------------------------ MODULE RunLifecycleInvariant -------------------------
(***************************************************************************)
(* Why the lifecycle of RunLifecycle is safe: the facts every step relies  *)
(* on and preserves in a deployment that satisfies SafeDeployment.  The    *)
(* invariant of the code is ActiveRunIsPublished; it is not inductive by   *)
(* itself, because nothing in it says that the row a worker promotes is    *)
(* still its own.                                                          *)
(***************************************************************************)
EXTENDS RunLifecycle

(* Inside process_run, up to the promotion or the failure, the row names   *)
(* the worker, its lease is alive and its status is the one the worker     *)
(* left there.                                                             *)
StatusesAt(location) ==
    IF location \in {"marked", "validating", "validated"} THEN {"validating"}
    ELSE IF location = "failing" THEN InProgress
    ELSE {"processing"}

LeaseHeld(w) ==
    pc[w] \in Working =>
        /\ runs[job[w]].locked_by = w
        /\ runs[job[w]].last_heartbeat_at = "fresh"
        /\ runs[job[w]].status \in StatusesAt(pc[w])

(* A run that will be attempted again has an attempt left, and one under   *)
(* way has a heartbeat.                                                    *)
RowSound(r) ==
    /\ runs[r].attempts <= MaxAttempts
    /\ runs[r].status \in {"absent", "queued", "retry_wait"} =>
         runs[r].attempts < MaxAttempts
    /\ runs[r].status \in InProgress => runs[r].last_heartbeat_at # None

(* One sweep at a time, and what it loaded is still there and still stale. *)
SweepSound(w) ==
    pc[w] = "sweeping" =>
        /\ NobodyElseSweeps(w)
        /\ \A r \in Runs : loaded[w][r] # None => Stale(r) /\ loaded[w][r] = runs[r]

(* What a worker is about to write over is what it loaded.                 *)
ViewCurrent(w) ==
    /\ pc[w] \in {"persisting", "validated", "failing"} =>
         loaded[w][job[w]] = runs[job[w]]
    /\ pc[w] \in {"persisting", "validated"} =>
         loadedDoc[w] = documents[DocumentOf[job[w]]]

(* Documents point at the newest of their runs; older ones are over.       *)
LatestSound(r) ==
    LET latest == documents[DocumentOf[r]].latest_run_id
    IN  /\ runs[r].status \in Inflight => latest = r
        /\ runs[r].status # "absent" =>
             /\ latest # None
             /\ latest >= r
             /\ \A s \in Runs : s < r => runs[s].status # "absent"

LifecycleSound ==
    /\ \A w \in Workers : LeaseHeld(w)
    /\ \A r \in Runs : RowSound(r)
    /\ \A w \in Workers : SweepSound(w)
    /\ \A w \in Workers : ViewCurrent(w)
    /\ \A r \in Runs : LatestSound(r)
    /\ ActiveRunIsPublished

(* An upload that has not locked its document yet decides on the row as it *)
(* still is.                                                               *)
UploadSound(u) ==
    recovering[u] # None => recovering[u].row = documents[recovering[u].id]

SafetyInv == LifecycleSound /\ \A u \in Uploads : UploadSound(u)

===============================================================================
