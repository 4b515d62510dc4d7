-------------------------- MODULE RunLifecycleProofs --------------------------
(***************************************************************************)
(* Proofs about RunLifecycle, for any runs, documents, workers, uploads    *)
(* and attempt limit: every variable has its type in any deployment; in    *)
(* one that keeps leases alive, sweeps promptly, raises nothing after a    *)
(* promotion and changes no document between the read and the lock of an   *)
(* upload, the invariant of RunLifecycleInvariant is inductive, its        *)
(* properties hold, and RunContract is implemented.                        *)
(***************************************************************************)
EXTENDS RunLifecycleInvariant, TLAPS

-------------------------------------------------------------------------------
(* Rows                                                                    *)

(* A commit writes a row of the table: every column is the stored or the   *)
(* edited one.                                                             *)
LEMMA FlushRunType ==
    ASSUME NEW row \in RunRow, NEW old, NEW new \in RunRow
    PROVE  FlushRun(row, old, new) \in RunRow
BY DEF FlushRun, Flush, RunRow

LEMMA FlushDocumentType ==
    ASSUME NEW row \in DocumentRow, NEW old, NEW new \in DocumentRow
    PROVE  FlushDocument(row, old, new) \in DocumentRow
BY DEF FlushDocument, Flush, DocumentRow

(* A session whose row nobody else touched writes what it assigned.        *)
LEMMA FlushRunOwn ==
    ASSUME NEW row \in RunRow, NEW new \in RunRow, new.attempts = row.attempts
    PROVE  FlushRun(row, row, new) = new
BY DEF FlushRun, Flush, RunRow

LEMMA FlushDocumentOwn ==
    ASSUME NEW row \in DocumentRow, NEW new \in DocumentRow
    PROVE  FlushDocument(row, row, new) = new
BY DEF FlushDocument, Flush, DocumentRow

LEMMA ColumnType ==
    ASSUME NEW row \in RunRow
    PROVE  /\ [row EXCEPT !.last_heartbeat_at = "fresh"] \in RunRow
           /\ [row EXCEPT !.last_heartbeat_at = "stale"] \in RunRow
           /\ [row EXCEPT !.next_attempt_at = "due"] \in RunRow
           /\ [row EXCEPT !.status = Validating,
                          !.last_heartbeat_at = "fresh"] \in RunRow
<1>1. Validating \in Statuses
  BY DEF Validating, Statuses, Inflight, InProgress
<1> QED BY <1>1 DEF RunRow

LEMMA ClaimedType ==
    ASSUME NEW row \in RunRow, NEW w \in Workers
    PROVE  Claimed(row, w) \in RunRow
<1>1. row.attempts + 1 \in Nat
  BY DEF RunRow
<1>2. "processing" \in Statuses
  BY DEF Statuses, Inflight, InProgress
<1> QED BY <1>1, <1>2 DEF Claimed, RunRow

LEMMA EndsListed == "failed" \in Statuses /\ "retry_wait" \in Statuses
BY DEF Statuses, Inflight

LEMMA ReleasedType ==
    ASSUME NEW old \in RunRow
    PROVE  [old EXCEPT !.locked_by = None, !.last_heartbeat_at = None] \in RunRow
BY DEF RunRow

LEMMA NextAttemptType ==
    ASSUME NEW row \in RunRow, NEW due \in {"due", "later"}
    PROVE  [row EXCEPT !.next_attempt_at = due] \in RunRow
BY DEF RunRow

LEMMA RequeuedType ==
    ASSUME NEW row \in RunRow, NEW old \in RunRow
    PROVE  Requeued(row, old) \in RunRow
<1> DEFINE released == [old EXCEPT !.locked_by = None, !.last_heartbeat_at = None]
           given == [released EXCEPT
                       !.status = "failed",
                       !.validation_status = "failed",
                       !.failure_stage = IF @ = None THEN "stale_lease" ELSE @]
           again == [released EXCEPT !.status = "retry_wait"]
<1>1. released \in RunRow
  BY ReleasedType
<1> HIDE DEF released
<1>2. given \in RunRow
  <2> DEFINE stage == IF released.failure_stage = None THEN "stale_lease"
                      ELSE released.failure_stage
  <2>1. stage \in {None, "stale_lease"} \cup Stages
    BY <1>1 DEF RunRow
  <2> HIDE DEF stage
  <2>2. [released EXCEPT !.status = "failed",
                         !.validation_status = "failed",
                         !.failure_stage = stage] \in RunRow
    BY <1>1, <2>1, EndsListed DEF RunRow
  <2> QED BY <2>2 DEF stage
<1>3. again \in RunRow
  BY <1>1, EndsListed DEF RunRow
<1> HIDE DEF given, again
<1>4. FlushRun(row, old, given) \in RunRow
  BY <1>2, FlushRunType
<1>5. FlushRun(row, old, again) \in RunRow
  BY <1>3, FlushRunType
<1>6. [FlushRun(row, old, again) EXCEPT !.next_attempt_at = "due"] \in RunRow
  BY <1>5, NextAttemptType
<1> QED BY <1>4, <1>6 DEF Requeued, given, again, released

LEMMA FailedType ==
    ASSUME NEW row \in RunRow, NEW old \in RunRow, NEW failure \in Failures
    PROVE  Failed(row, old, failure) \in RunRow
<1> DEFINE released == [old EXCEPT !.locked_by = None,
                                   !.last_heartbeat_at = None,
                                   !.failure_stage = failure.stage]
           given == [released EXCEPT !.status = "failed", !.validation_status = "failed"]
           again == [released EXCEPT !.status = "retry_wait"]
<1>1. released \in RunRow
  <2>1. failure.stage \in {None, "stale_lease"} \cup Stages
    BY DEF Failures
  <2> QED BY <2>1 DEF RunRow
<1> HIDE DEF released
<1>2. given \in RunRow
  BY <1>1, EndsListed DEF RunRow
<1>3. again \in RunRow
  BY <1>1, EndsListed DEF RunRow
<1> HIDE DEF given, again
<1>4. FlushRun(row, old, given) \in RunRow
  BY <1>2, FlushRunType
<1>5. FlushRun(row, old, again) \in RunRow
  BY <1>3, FlushRunType
<1>6. [FlushRun(row, old, again) EXCEPT !.next_attempt_at = "later"] \in RunRow
  BY <1>5, NextAttemptType
<1> QED BY <1>4, <1>6 DEF Failed, given, again, released

-------------------------------------------------------------------------------
(* Type correctness, whatever the deployment                               *)

(* What a worker has in its session when it needs it.                      *)
SessionOK(w) ==
    /\ pc[w] \in Working \cup {"promoted"} => job[w] \in Runs
    /\ pc[w] \in {"persisting", "validated", "failing"} => loaded[w][job[w]] \in RunRow
    /\ pc[w] \in {"persisting", "validated"} => loadedDoc[w] \in DocumentRow
    /\ pc[w] = "failing" => error[w] \in Failures

TypeInv == TypeOK /\ \A w \in Workers : SessionOK(w)

LEMMA LocationsDistinct ==
    /\ "polling" \in Locations /\ "sweeping" \in Locations
    /\ "promoted" \in Locations /\ "down" \in Locations
    /\ Working \subseteq Locations
    /\ "polling" \notin Working /\ "sweeping" \notin Working
    /\ "promoted" \notin Working /\ "down" \notin Working
BY DEF Locations, Working

LEMMA TypeInit == Init => TypeInv
<1> SUFFICES ASSUME Init PROVE TypeInv
  OBVIOUS
<1>1. absentRun \in RunRow
  BY DEF absentRun, RunRow, Statuses
<1>2. [active_run_id |-> None, latest_run_id |-> None] \in DocumentRow
  BY DEF DocumentRow
<1>3. TypeOK
  BY <1>1, <1>2 DEF Init, TypeOK, CorpusRow, Nothing, Locations
<1>4. \A w \in Workers : SessionOK(w)
  BY DEF Init, SessionOK, Working
<1> QED BY <1>3, <1>4 DEF TypeInv

(* The first run, a reprocess or a recovery.                               *)
Queues(r) == Submit(r) \/ \E u \in Uploads : QueueRecovery(u, r)

LEMMA QueuesQueue ==
    ASSUME NEW r \in Runs, Queues(r)
    PROVE  Queue(r)
BY DEF Queues, Submit, QueueRecovery

(* Steps that leave every session of a worker alone.                       *)
LEMMA TypeQueue ==
    ASSUME TypeInv, NEW r \in Runs, Queues(r)
    PROVE  TypeInv'
<1> USE DEF TypeInv, TypeOK
<1>1. runs' \in [Runs -> RunRow]
  <2>1. [absentRun EXCEPT !.status = "queued", !.next_attempt_at = "due",
                          !.validation_status = "pending"] \in RunRow
    BY DEF absentRun, RunRow, Statuses, Inflight
  <2> QED BY <2>1, QueuesQueue DEF Queue, SetRun
<1>2. documents' \in [Documents -> DocumentRow]
  <2>1. DocumentOf[r] \in Documents
    BY DocumentOfAssumption
  <2>2. [documents[DocumentOf[r]] EXCEPT !.latest_run_id = r] \in DocumentRow
    BY <2>1 DEF DocumentRow
  <2>3. documents' = [documents EXCEPT ![DocumentOf[r]] =
                        [documents[DocumentOf[r]] EXCEPT !.latest_run_id = r]]
    BY QueuesQueue DEF Queue
  <2> QED BY <2>1, <2>2, <2>3
<1>3. recovering' \in [Uploads -> Found \cup {None}]
  BY DEF Queues, Submit, QueueRecovery
<1>4. UNCHANGED <<corpus, evaluated, pc, session>>
  BY QueuesQueue DEF Queue
<1> QED BY <1>1, <1>2, <1>3, <1>4 DEF session, SessionOK

LEMMA TypeUpload ==
    ASSUME TypeInv, NEW u \in Uploads,
           (\E d \in Documents : FindDocument(u, d)) \/ EndUpload(u)
    PROVE  TypeInv'
<1> USE DEF TypeInv, TypeOK
<1>1. UNCHANGED <<database, pc, session>>
  BY DEF FindDocument, EndUpload
<1>2. recovering' \in [Uploads -> Found \cup {None}]
  BY DEF FindDocument, EndUpload, Found
<1> QED BY <1>1, <1>2 DEF database, session, SessionOK

LEMMA TypeTime ==
    ASSUME TypeInv, NEW r \in Runs, LeaseExpires(r) \/ BackoffElapses(r)
    PROVE  TypeInv'
<1> USE DEF TypeInv, TypeOK
<1>1. /\ [runs[r] EXCEPT !.last_heartbeat_at = "stale"] \in RunRow
      /\ [runs[r] EXCEPT !.next_attempt_at = "due"] \in RunRow
  BY ColumnType
<1>2. runs' \in [Runs -> RunRow]
  BY <1>1 DEF LeaseExpires, BackoffElapses, SetRun
<1> QED BY <1>2 DEF LeaseExpires, BackoffElapses, session, SessionOK

(* A worker that leaves its run keeps nothing that needs a type.           *)
LEMMA TypeLeave ==
    ASSUME TypeInv, NEW w \in Workers,
           Leave(w, "polling") \/ Leave(w, "down"),
           runs' \in [Runs -> RunRow], documents' \in [Documents -> DocumentRow],
           corpus' \in [Runs -> CorpusRow], evaluated' \subseteq Runs,
           recovering' = recovering
    PROVE  TypeInv'
<1>1. Nothing \in [Runs -> RunRow \cup {None}]
  BY DEF Nothing
<1> USE DEF TypeInv, TypeOK
<1>2. /\ pc' \in [Workers -> Locations]
      /\ \A v \in Workers \ {w} : pc'[v] = pc[v]
      /\ pc'[w] = "polling" \/ pc'[w] = "down"
  BY LocationsDistinct DEF Leave, Goto
<1>2j. job' \in [Workers -> Runs \cup {None}]
  BY DEF Leave
<1>2k. attempt' \in [Workers -> Nat]
  BY DEF Leave
<1>2a. /\ error' \in [Workers -> Failures \cup {None}]
       /\ loadedDoc' \in [Workers -> DocumentRow \cup {None}]
  BY DEF Leave, Expire
<1>2b. loaded' \in [Workers -> [Runs -> RunRow \cup {None}]]
  BY <1>1 DEF Leave, Expire
<1>3. TypeOK'
  BY <1>2, <1>2j, <1>2k, <1>2a, <1>2b
<1>4. ASSUME NEW v \in Workers PROVE SessionOK(v)'
  <2>1. CASE v = w
    BY <1>2, <2>1, LocationsDistinct DEF SessionOK
  <2>2. CASE v # w
    <3>1. /\ pc'[v] = pc[v] /\ job'[v] = job[v] /\ error'[v] = error[v]
          /\ loaded'[v] = loaded[v] /\ loadedDoc'[v] = loadedDoc[v]
      BY <1>2, <2>2 DEF Leave, Expire
    <3> QED BY <3>1 DEF SessionOK
  <2> QED BY <2>1, <2>2
<1> QED BY <1>3, <1>4

LEMMA TypeSweep ==
    ASSUME TypeInv, NEW w \in Workers, SweepRead(w) \/ SweepCommit(w)
    PROVE  TypeInv'
<1> USE DEF TypeInv, TypeOK
<1>1. CASE SweepRead(w)
  <2>1. loaded' \in [Workers -> [Runs -> RunRow \cup {None}]]
    BY <1>1 DEF SweepRead
  <2>2. pc' \in [Workers -> Locations] /\ pc' = [pc EXCEPT ![w] = "sweeping"]
    BY <1>1, LocationsDistinct DEF SweepRead, Goto
  <2>3. TypeOK'
    BY <1>1, <2>1, <2>2 DEF SweepRead, database
  <2>4. ASSUME NEW v \in Workers PROVE SessionOK(v)'
    BY <1>1, <2>2, LocationsDistinct DEF SweepRead, SessionOK, database
  <2> QED BY <2>3, <2>4
<1>2. CASE SweepCommit(w)
  <2>1. ASSUME NEW r \in Runs, loaded[w][r] # None
        PROVE  Requeued(runs[r], loaded[w][r]) \in RunRow
    BY <2>1, RequeuedType
  <2>2. runs' \in [Runs -> RunRow]
    BY <1>2, <2>1 DEF SweepCommit
  <2> QED BY <1>2, <2>2, TypeLeave DEF SweepCommit
<1> QED BY <1>1, <1>2

LEMMA TypeClaim ==
    ASSUME TypeInv, NEW w \in Workers, NEW r \in Runs, Claim(w, r)
    PROVE  TypeInv'
<1> USE DEF TypeInv, TypeOK
<1>1. runs' \in [Runs -> RunRow]
  BY ClaimedType DEF Claim, SetRun
<1>2. pc' \in [Workers -> Locations] /\ pc' = [pc EXCEPT ![w] = "claimed"]
  BY LocationsDistinct DEF Claim, Goto, Working
<1>3. attempt' \in [Workers -> Nat]
  BY DEF Claim, RunRow
<1>4. job' \in [Workers -> Runs \cup {None}] /\ job' = [job EXCEPT ![w] = r]
  BY DEF Claim
<1>5. ASSUME NEW v \in Workers PROVE SessionOK(v)'
  BY <1>2, <1>4 DEF Claim, SessionOK
<1> QED BY <1>1, <1>2, <1>3, <1>4, <1>5 DEF Claim

LEMMA TypeLease ==
    ASSUME TypeInv, NEW w \in Workers,
           Heartbeat(w) \/ RefreshLease(w) \/ MarkValidating(w)
    PROVE  TypeInv'
<1> USE DEF TypeInv, TypeOK
<1>1. job[w] \in Runs
  BY DEF Heartbeat, RefreshLease, MarkValidating, SessionOK, Working
<1>2. runs' \in [Runs -> RunRow]
  <2>1. /\ [runs[job[w]] EXCEPT !.last_heartbeat_at = "fresh"] \in RunRow
        /\ [runs[job[w]] EXCEPT !.status = Validating,
                                !.last_heartbeat_at = "fresh"] \in RunRow
    BY <1>1, ColumnType
  <2> QED BY <1>1, <2>1 DEF Heartbeat, RefreshLease, MarkValidating, SetRun
<1>3. /\ pc' \in [Workers -> Locations]
      /\ \A v \in Workers : pc'[v] = pc[v] \/ v = w
      /\ pc'[w] = pc[w] \/ pc'[w] \in {"parsing", "parsed", "validating", "marked"}
  BY DEF Heartbeat, RefreshLease, MarkValidating, Goto, Locations, Working
<1>4. ASSUME NEW v \in Workers PROVE SessionOK(v)'
  BY <1>1, <1>3 DEF Heartbeat, RefreshLease, MarkValidating, session, SessionOK
<1> QED BY <1>2, <1>3, <1>4 DEF Heartbeat, RefreshLease, MarkValidating, session

(* Steps that load the rows of the run.                                    *)
LEMMA TypeLoad ==
    ASSUME TypeInv, NEW w \in Workers,
           BeginPersist(w) \/ ValidationPasses(w) \/ StageFails(w)
    PROVE  TypeInv'
<1> USE DEF TypeInv, TypeOK
<1>1. job[w] \in Runs /\ DocumentOf[job[w]] \in Documents
  <2>1. pc[w] \in Working \cup {"promoted"}
    BY DEF BeginPersist, ValidationPasses, StageFails, StagesAt, Working
  <2> QED BY <2>1, DocumentOfAssumption DEF SessionOK
<1>2. /\ Only(job[w]) \in [Runs -> RunRow \cup {None}]
      /\ Only(job[w])[job[w]] \in RunRow
  BY <1>1 DEF Only, Nothing
<1>3. /\ loaded' \in [Workers -> [Runs -> RunRow \cup {None}]]
      /\ loaded'[w][job[w]] \in RunRow
      /\ \A v \in Workers \ {w} : loaded'[v] = loaded[v]
  BY <1>2 DEF BeginPersist, ValidationPasses, StageFails, Load
<1>4. /\ pc' \in [Workers -> Locations]
      /\ pc'[w] \in {"persisting", "validated", "failing"}
      /\ \A v \in Workers \ {w} : pc'[v] = pc[v]
  BY DEF BeginPersist, ValidationPasses, StageFails, Goto, Locations, Working
<1>5. CASE BeginPersist(w) \/ ValidationPasses(w)
  <2>1. /\ loadedDoc' \in [Workers -> DocumentRow \cup {None}]
        /\ loadedDoc'[w] \in DocumentRow
        /\ \A v \in Workers \ {w} : loadedDoc'[v] = loadedDoc[v]
    BY <1>1, <1>5 DEF BeginPersist, ValidationPasses, LoadDocument
  <2>2. pc'[w] # "failing"
    BY <1>5 DEF BeginPersist, ValidationPasses, Goto
  <2>3. ASSUME NEW v \in Workers PROVE SessionOK(v)'
    BY <1>1, <1>3, <1>4, <1>5, <2>1, <2>2
    DEF BeginPersist, ValidationPasses, SessionOK
  <2> QED BY <1>3, <1>4, <1>5, <2>1, <2>3 DEF BeginPersist, ValidationPasses, database
<1>6. CASE StageFails(w)
  <2>1. PICK stage \in StagesAt(pc[w]) \cap FailableStages, kind \in KindsAt(pc[w]) :
          error' = [error EXCEPT ![w] = [stage |-> stage, kind |-> kind]]
    BY <1>6 DEF StageFails
  <2>2. [stage |-> stage, kind |-> kind] \in Failures
    BY StagesAssumption DEF Failures, KindsAt
  <2>3. /\ error' \in [Workers -> Failures \cup {None}]
        /\ error'[w] \in Failures
        /\ \A v \in Workers \ {w} : error'[v] = error[v]
    BY <2>1, <2>2
  <2>4. /\ loadedDoc' \in [Workers -> DocumentRow \cup {None}]
        /\ \A v \in Workers \ {w} : loadedDoc'[v] = loadedDoc[v]
    BY <1>6 DEF StageFails
  <2>5. pc'[w] = "failing"
    BY <1>6 DEF StageFails, Goto
  <2>6. ASSUME NEW v \in Workers PROVE SessionOK(v)'
    BY <1>1, <1>3, <1>4, <1>6, <2>3, <2>4, <2>5 DEF StageFails, SessionOK
  <2> QED BY <1>3, <1>4, <1>6, <2>3, <2>4, <2>6 DEF StageFails, database
<1> QED BY <1>5, <1>6

(* The two commits of a successful attempt.                                *)
LEMMA TypeCommit ==
    ASSUME TypeInv, NEW w \in Workers, PersistRun(w) \/ Promote(w)
    PROVE  TypeInv'
<1> USE DEF TypeInv, TypeOK
<1> DEFINE r == job[w]
           d == DocumentOf[r]
           old == loaded[w][r]
           doc == loadedDoc[w]
<1>1. /\ pc[w] \in {"persisting", "validated"}
      /\ r \in Runs /\ d \in Documents /\ old \in RunRow /\ doc \in DocumentRow
  <2>1. pc[w] \in {"persisting", "validated"}
    BY DEF PersistRun, Promote
  <2>2. r \in Runs /\ old \in RunRow /\ doc \in DocumentRow
    BY <2>1 DEF SessionOK, Working
  <2> QED BY <2>1, <2>2, DocumentOfAssumption
<1>2. runs' \in [Runs -> RunRow]
  <2>1. [old EXCEPT !.validation_status = "pending"] \in RunRow
    BY <1>1 DEF RunRow
  <2>2. "completed" \in Statuses
    BY DEF Statuses
  <2>3. [old EXCEPT !.status = "completed", !.locked_by = None,
                    !.last_heartbeat_at = None, !.next_attempt_at = None,
                    !.validation_status = "passed", !.failure_stage = None] \in RunRow
    BY <1>1, <2>2 DEF RunRow
  <2>4. /\ FlushRun(runs[r], old, [old EXCEPT !.validation_status = "pending"]) \in RunRow
        /\ FlushRun(runs[r], old,
             [old EXCEPT !.status = "completed", !.locked_by = None,
                         !.last_heartbeat_at = None, !.next_attempt_at = None,
                         !.validation_status = "passed", !.failure_stage = None]) \in RunRow
    BY <1>1, <2>1, <2>3, FlushRunType
  <2> QED BY <1>1, <2>4 DEF PersistRun, Promote, SetRun
<1>3. documents' \in [Documents -> DocumentRow]
  <2>1. /\ PersistedDocument(doc, r) \in DocumentRow
        /\ [active_run_id |-> r, latest_run_id |-> r] \in DocumentRow
    BY <1>1 DEF PersistedDocument, DocumentRow
  <2>2. /\ FlushDocument(documents[d], doc, PersistedDocument(doc, r)) \in DocumentRow
        /\ FlushDocument(documents[d], doc,
                         [active_run_id |-> r, latest_run_id |-> r]) \in DocumentRow
    BY <1>1, <2>1, FlushDocumentType
  <2> QED BY <1>1, <2>2 DEF PersistRun, Promote
<1>4. corpus' \in [Runs -> CorpusRow]
  <2>1. /\ [by |-> attempt[w], rows |-> "persisted"] \in CorpusRow
        /\ [corpus[r] EXCEPT !.rows = "validated"] \in CorpusRow
    BY <1>1 DEF CorpusRow
  <2> QED BY <1>1, <2>1 DEF PersistRun, Promote
<1>5. /\ pc' \in [Workers -> Locations]
      /\ pc'[w] \in {"persisted", "promoted"}
      /\ \A v \in Workers \ {w} : pc'[v] = pc[v]
  BY DEF PersistRun, Promote, Goto, Locations, Working
<1>6. /\ loaded' \in [Workers -> [Runs -> RunRow \cup {None}]]
      /\ \A v \in Workers \ {w} : loaded'[v] = loaded[v]
  <2>1. Expire(w)
    BY DEF PersistRun, Promote
  <2> QED BY <2>1 DEF Expire, Nothing
<1>7. /\ loadedDoc' \in [Workers -> DocumentRow \cup {None}]
      /\ \A v \in Workers \ {w} : loadedDoc'[v] = loadedDoc[v]
  BY DEF PersistRun, Promote, Expire
<1>8. ASSUME NEW v \in Workers PROVE SessionOK(v)'
  BY <1>1, <1>5, <1>6, <1>7 DEF PersistRun, Promote, SessionOK
<1> QED BY <1>2, <1>3, <1>4, <1>5, <1>6, <1>7, <1>8 DEF PersistRun, Promote

(* The steps that end an attempt, one way or another.                      *)
LEMMA TypeEnd ==
    ASSUME TypeInv, NEW w \in Workers,
           Evaluate(w) \/ FinalizeFailure(w) \/ Crash(w)
    PROVE  TypeInv'
<1> USE DEF TypeInv, TypeOK
<1>1. CASE Evaluate(w)
  <2>1. job[w] \in Runs
    BY <1>1 DEF Evaluate, SessionOK
  <2> QED BY <1>1, <2>1, TypeLeave DEF Evaluate
<1>2. CASE FinalizeFailure(w)
  <2>1. job[w] \in Runs /\ loaded[w][job[w]] \in RunRow /\ error[w] \in Failures
    BY <1>2 DEF FinalizeFailure, SessionOK, Working
  <2>2. runs' \in [Runs -> RunRow]
    BY <1>2, <2>1, FailedType DEF FinalizeFailure, SetRun
  <2>3. corpus' \in [Runs -> CorpusRow]
    <3>1. [corpus[job[w]] EXCEPT !.rows = "rejected"] \in CorpusRow
      BY <2>1 DEF CorpusRow
    <3> QED BY <1>2, <2>1, <3>1 DEF FinalizeFailure
  <2> QED BY <1>2, <2>2, <2>3, TypeLeave DEF FinalizeFailure
<1>3. CASE Crash(w)
  BY <1>3, TypeLeave DEF Crash, database
<1> QED BY <1>1, <1>2, <1>3

LEMMA TypeRestart ==
    ASSUME TypeInv, NEW w \in Workers, Restart(w)
    PROVE  TypeInv'
<1> USE DEF TypeInv, TypeOK
<1>1. /\ pc' \in [Workers -> Locations]
      /\ pc'[w] = "polling"
      /\ \A v \in Workers \ {w} : pc'[v] = pc[v]
  BY LocationsDistinct DEF Restart, Goto
<1>2. ASSUME NEW v \in Workers PROVE SessionOK(v)'
  BY <1>1, LocationsDistinct DEF Restart, SessionOK, session
<1> QED BY <1>1, <1>2 DEF Restart, database, session

LEMMA TypeStep == TypeInv /\ [Next]_vars => TypeInv'
<1> SUFFICES ASSUME TypeInv, [Next]_vars PROVE TypeInv'
  OBVIOUS
<1>1. ASSUME NEW r \in Runs, Queues(r) \/ LeaseExpires(r) \/ BackoffElapses(r)
      PROVE  TypeInv'
  BY <1>1, TypeQueue, TypeTime
<1>1u. ASSUME NEW u \in Uploads, UploadStep(u)
       PROVE  TypeInv'
  BY <1>1, <1>1u, TypeUpload DEF UploadStep, Queues
<1>2. ASSUME NEW w \in Workers, WorkerStep(w)
      PROVE  TypeInv'
  BY <1>2, TypeSweep, TypeClaim, TypeLease, TypeLoad, TypeCommit, TypeEnd DEF WorkerStep
<1>3. ASSUME NEW w \in Workers, Crash(w) \/ Restart(w)
      PROVE  TypeInv'
  BY <1>3, TypeEnd, TypeRestart
<1>4. CASE UNCHANGED vars
  BY <1>4 DEF vars, database, session, TypeInv, TypeOK, SessionOK
<1> QED BY <1>1, <1>1u, <1>2, <1>3, <1>4 DEF Next, Queues

(* In every deployment, lost leases and racing sweeps included, every      *)
(* worker has in its session the rows it is about to write, and every      *)
(* status it writes is one the polling queries know.                       *)
THEOREM TypeCorrect == Spec => []TypeOK
<1>1. Spec => []TypeInv
  BY TypeInit, TypeStep, PTL DEF Spec
<1>2. TypeInv => TypeOK
  BY DEF TypeInv
<1> QED BY <1>1, <1>2, PTL

-------------------------------------------------------------------------------
(* A safe deployment                                                       *)

IInv == TypeInv /\ SafetyInv

(* What ActiveRunIsPublished says of one document.                         *)
Published(d) ==
    Active(d) # None =>
        /\ DocumentOf[Active(d)] = d
        /\ runs[Active(d)].status = "completed"
        /\ runs[Active(d)].validation_status = "passed"
        /\ corpus[Active(d)].rows = "validated"

-------------------------------------------------------------------------------
(* Consequences of the invariant                                           *)

LEMMA StatusesAtInProgress ==
    ASSUME NEW location PROVE StatusesAt(location) \subseteq InProgress
BY DEF StatusesAt, InProgress

LEMMA InProgressStatuses ==
    /\ InProgress \subseteq Inflight /\ Inflight \subseteq Statuses
    /\ "absent" \notin Inflight /\ "completed" \notin Inflight /\ "failed" \notin Inflight
    /\ "queued" \notin InProgress /\ "retry_wait" \notin InProgress
    /\ "queued" \in Inflight /\ "retry_wait" \in Inflight
    /\ "processing" \in InProgress /\ "validating" \in InProgress
BY DEF InProgress, Inflight, Statuses

(* A worker inside process_run owns its run, which is the latest of its    *)
(* document and served by none.                                            *)
LEMMA HeldRun ==
    ASSUME IInv, NEW w \in Workers, pc[w] \in Working
    PROVE  /\ job[w] \in Runs
           /\ DocumentOf[job[w]] \in Documents
           /\ runs[job[w]] \in RunRow
           /\ runs[job[w]].status \in StatusesAt(pc[w])
           /\ runs[job[w]].status \in InProgress
           /\ runs[job[w]].locked_by = w
           /\ runs[job[w]].last_heartbeat_at = "fresh"
           /\ documents[DocumentOf[job[w]]].latest_run_id = job[w]
           /\ \A d \in Documents : Active(d) # job[w]
<1>1. /\ job[w] \in Runs /\ runs[job[w]] \in RunRow
      /\ DocumentOf[job[w]] \in Documents
  BY DocumentOfAssumption DEF IInv, TypeInv, TypeOK, SessionOK
<1>2. /\ runs[job[w]].locked_by = w
      /\ runs[job[w]].last_heartbeat_at = "fresh"
      /\ runs[job[w]].status \in StatusesAt(pc[w])
  BY DEF IInv, SafetyInv, LifecycleSound, LeaseHeld
<1>3. runs[job[w]].status \in InProgress
  BY <1>2, StatusesAtInProgress
<1>4. documents[DocumentOf[job[w]]].latest_run_id = job[w]
  BY <1>1, <1>3, InProgressStatuses DEF IInv, SafetyInv, LifecycleSound, LatestSound
<1>5. ASSUME NEW d \in Documents, Active(d) = job[w] PROVE FALSE
  <2>1. runs[job[w]].status = "completed"
    BY <1>1, <1>5, NoneAssumption DEF IInv, SafetyInv, LifecycleSound, ActiveRunIsPublished
  <2> QED BY <1>3, <2>1, InProgressStatuses
<1> QED BY <1>1, <1>2, <1>3, <1>4, <1>5

LEMMA HeldApart ==
    ASSUME IInv, NEW v \in Workers, NEW w \in Workers, v # w,
           pc[v] \in Working, pc[w] \in Working
    PROVE  job[v] # job[w] /\ DocumentOf[job[v]] # DocumentOf[job[w]]
BY HeldRun

LEMMA ActiveType ==
    ASSUME TypeOK, NEW d \in Documents, Active(d) # None
    PROVE  Active(d) \in Runs
BY DEF TypeOK, Active, DocumentRow

-------------------------------------------------------------------------------
(* Steps of a worker on its own run                                        *)

(* What the rest of the system sees of a worker that writes its run, the   *)
(* document of that run and the child rows of that run: nothing.           *)
LEMMA OwnWrite ==
    ASSUME IInv, TypeInv', NEW w \in Workers, pc[w] \in Working,
           NobodyElseSweeps(w), pc'[w] # "sweeping",
           NEW row \in RunRow,
           runs' = [runs EXCEPT ![job[w]] = row],
           row.status # "absent",
           \A r \in Runs \ {job[w]} : corpus'[r] = corpus[r],
           \A d \in Documents \ {DocumentOf[job[w]]} : documents'[d] = documents[d],
           documents'[DocumentOf[job[w]]].latest_run_id = job[w],
           \A v \in Workers \ {w} :
               /\ pc'[v] = pc[v] /\ job'[v] = job[v]
               /\ loaded'[v] = loaded[v] /\ loadedDoc'[v] = loadedDoc[v]
    PROVE  /\ \A v \in Workers \ {w} : LeaseHeld(v)' /\ ViewCurrent(v)'
           /\ \A v \in Workers : SweepSound(v)'
           /\ \A r \in Runs : LatestSound(r)'
           /\ \A r \in Runs \ {job[w]} : RowSound(r)'
           /\ \A d \in Documents \ {DocumentOf[job[w]]} : Published(d)'
<1>1. /\ job[w] \in Runs /\ runs[job[w]].status \in InProgress
      /\ DocumentOf[job[w]] \in Documents
      /\ documents[DocumentOf[job[w]]].latest_run_id = job[w]
  BY HeldRun
<1>2. runs'[job[w]] = row /\ \A r \in Runs \ {job[w]} : runs'[r] = runs[r]
  BY <1>1 DEF IInv, TypeInv, TypeOK
<1>3. ASSUME NEW v \in Workers \ {w} PROVE LeaseHeld(v)' /\ ViewCurrent(v)'
  <2>1. CASE pc[v] \in Working
    <3>1. /\ job[v] \in Runs /\ job[v] # job[w]
          /\ DocumentOf[job[v]] \in Documents
          /\ DocumentOf[job[v]] # DocumentOf[job[w]]
      BY <2>1, HeldRun, HeldApart
    <3>2. runs'[job[v]] = runs[job[v]]
          /\ documents'[DocumentOf[job[v]]] = documents[DocumentOf[job[v]]]
      BY <3>1, <1>2
    <3> QED BY <3>2 DEF IInv, SafetyInv, LifecycleSound, LeaseHeld, ViewCurrent
  <2>2. CASE pc[v] \notin Working
    BY <2>2 DEF LeaseHeld, ViewCurrent, Working
  <2> QED BY <2>1, <2>2
<1>4. ASSUME NEW v \in Workers PROVE SweepSound(v)'
  BY DEF SweepSound, NobodyElseSweeps
<1>5. ASSUME NEW r \in Runs PROVE LatestSound(r)'
  <2>1. /\ runs'[r].status = "absent" <=> runs[r].status = "absent"
        /\ \A s \in Runs : runs'[s].status = "absent" <=> runs[s].status = "absent"
    BY <1>1, <1>2, InProgressStatuses
  <2>2. DocumentOf[r] \in Documents
        /\ documents'[DocumentOf[r]].latest_run_id = documents[DocumentOf[r]].latest_run_id
    BY <1>1, DocumentOfAssumption
  <2>3. runs'[r].status \in Inflight =>
          documents[DocumentOf[r]].latest_run_id = r
    BY <1>1, <1>2, <2>2 DEF IInv, SafetyInv, LifecycleSound, LatestSound
  <2> QED BY <2>1, <2>2, <2>3 DEF IInv, SafetyInv, LifecycleSound, LatestSound
<1>6. ASSUME NEW r \in Runs \ {job[w]} PROVE RowSound(r)'
  BY <1>2 DEF IInv, SafetyInv, LifecycleSound, RowSound
<1>7. ASSUME NEW d \in Documents \ {DocumentOf[job[w]]} PROVE Published(d)'
  <2>1. Active(d)' = Active(d) /\ (Active(d) # None => Active(d) \in Runs)
    BY ActiveType DEF Active, IInv, TypeInv
  <2>2. Active(d) # job[w]
    BY HeldRun
  <2>3. Published(d)
    BY DEF IInv, SafetyInv, LifecycleSound, ActiveRunIsPublished, Published
  <2> QED BY <1>2, <2>1, <2>2, <2>3 DEF Published
<1> QED BY <1>3, <1>4, <1>5, <1>6, <1>7

(* The promise of ActiveRunIsPublished for a document whose own run is     *)
(* being worked on and not yet served.                                     *)
LEMMA PublishedKept ==
    ASSUME IInv, NEW w \in Workers, pc[w] \in Working,
           NEW d \in Documents,
           Active(d)' = Active(d),
           \A r \in Runs \ {job[w]} : runs'[r] = runs[r] /\ corpus'[r] = corpus[r]
    PROVE  Published(d)'
<1>1. Active(d) # job[w] /\ (Active(d) # None => Active(d) \in Runs)
  BY HeldRun, ActiveType DEF IInv, TypeInv
<1>2. Published(d)
  BY DEF IInv, SafetyInv, LifecycleSound, ActiveRunIsPublished, Published
<1> QED BY <1>1, <1>2 DEF Published

LEMMA PublishedAll ==
    ASSUME \A d \in Documents : Published(d)'
    PROVE  ActiveRunIsPublished'
BY DEF Published, ActiveRunIsPublished

(* Renewing the lease and marking the run.                                 *)
LEMMA SafeMark ==
    ASSUME IInv, TypeInv', NEW w \in Workers, NobodyElseSweeps(w),
           Heartbeat(w) \/ MarkValidating(w)
    PROVE  LifecycleSound'
<1> DEFINE r == job[w]
           row == [runs[r] EXCEPT !.status = IF pc[w] = "persisted" THEN Validating ELSE @,
                                  !.last_heartbeat_at = "fresh"]
<1>1. pc[w] \in {"claimed", "parsing", "persisted", "marked"} /\ pc[w] \in Working
  BY DEF Heartbeat, MarkValidating, Working
<1>2. /\ r \in Runs /\ runs[r] \in RunRow /\ runs[r].status \in InProgress
      /\ runs[r].status \in StatusesAt(pc[w]) /\ runs[r].locked_by = w
      /\ DocumentOf[r] \in Documents
      /\ documents[DocumentOf[r]].latest_run_id = r
  BY <1>1, HeldRun
<1>3. /\ row \in RunRow /\ row.locked_by = w /\ row.attempts = runs[r].attempts
      /\ row.last_heartbeat_at = "fresh" /\ row.status \in InProgress
      /\ row.status = IF pc[w] = "persisted" THEN "validating" ELSE runs[r].status
  BY <1>2, InProgressStatuses DEF RunRow, Validating
<1>4. runs' = [runs EXCEPT ![r] = row]
  <2>1. CASE Heartbeat(w)
    <3>1. pc[w] # "persisted"
      BY <2>1 DEF Heartbeat
    <3>2. row = [runs[r] EXCEPT !.last_heartbeat_at = "fresh"]
      BY <1>2, <3>1 DEF RunRow
    <3> QED BY <2>1, <3>2 DEF Heartbeat, SetRun
  <2>2. CASE MarkValidating(w)
    BY <2>2 DEF MarkValidating, SetRun
  <2> QED BY <2>1, <2>2
<1>5. /\ pc'[w] \in Working /\ pc'[w] \notin {"persisting", "validated", "failing"}
      /\ row.status \in StatusesAt(pc'[w])
      /\ \A v \in Workers \ {w} : pc'[v] = pc[v]
  <2>1. CASE Heartbeat(w)
    BY <2>1, <1>2, <1>3 DEF Heartbeat, Goto, Working, StatusesAt, IInv, TypeInv, TypeOK
  <2>2. CASE MarkValidating(w)
    BY <2>2, <1>2, <1>3 DEF MarkValidating, Goto, Working, StatusesAt, IInv, TypeInv, TypeOK
  <2> QED BY <2>1, <2>2
<1>6. UNCHANGED <<documents, corpus, job, loaded, loadedDoc>>
  BY DEF Heartbeat, MarkValidating, session
<1>7. /\ \A v \in Workers \ {w} : LeaseHeld(v)' /\ ViewCurrent(v)'
      /\ \A v \in Workers : SweepSound(v)'
      /\ \A s \in Runs : LatestSound(s)'
      /\ \A s \in Runs \ {r} : RowSound(s)'
  <2>1. pc'[w] # "sweeping" /\ row.status # "absent"
    BY <1>3, <1>5, InProgressStatuses DEF Working
  <2> QED BY <1>1, <1>2, <1>3, <1>4, <1>5, <1>6, <2>1, OwnWrite
<1>8. runs'[r] = row /\ \A s \in Runs \ {r} : runs'[s] = runs[s]
  BY <1>2, <1>4 DEF IInv, TypeInv, TypeOK
<1>9. LeaseHeld(w)' /\ ViewCurrent(w)' /\ RowSound(r)'
  <2>1. RowSound(r)
    BY <1>2 DEF IInv, SafetyInv, LifecycleSound
  <2>2. LeaseHeld(w)'
    BY <1>3, <1>5, <1>6, <1>8 DEF LeaseHeld
  <2>3. ViewCurrent(w)'
    BY <1>5 DEF ViewCurrent
  <2>4. RowSound(r)'
    BY <1>2, <1>3, <1>6, <1>8, <2>1, InProgressStatuses, NoneAssumption DEF RowSound
  <2> QED BY <2>2, <2>3, <2>4
<1>10. ActiveRunIsPublished'
  <2>1. ASSUME NEW d \in Documents PROVE Published(d)'
    BY <1>1, <1>6, <1>8, PublishedKept DEF Active
  <2> QED BY <2>1, PublishedAll
<1> QED BY <1>6, <1>7, <1>9, <1>10 DEF LifecycleSound

(* Loading the rows of the run, for the next commit or for the failure.    *)
LEMMA SafeLoad ==
    ASSUME IInv, TypeInv', SafeDeployment, NEW w \in Workers, NobodyElseSweeps(w),
           BeginPersist(w) \/ ValidationPasses(w) \/ StageFails(w)
    PROVE  LifecycleSound'
<1> DEFINE r == job[w]
<1>1. pc[w] \in Working
  BY DEF BeginPersist, ValidationPasses, StageFails, StagesAt, Working, SafeDeployment
<1>2. /\ r \in Runs /\ runs[r] \in RunRow /\ runs[r].status \in InProgress
      /\ runs[r].status \in StatusesAt(pc[w]) /\ runs[r].locked_by = w
      /\ runs[r].last_heartbeat_at = "fresh"
      /\ DocumentOf[r] \in Documents
      /\ documents[DocumentOf[r]].latest_run_id = r
  BY <1>1, HeldRun
<1>3. /\ UNCHANGED <<runs, documents, corpus, job>>
      /\ runs' = [runs EXCEPT ![r] = runs[r]]
  BY <1>2 DEF BeginPersist, ValidationPasses, StageFails, database, IInv, TypeInv, TypeOK
<1>4. /\ pc'[w] \in Working /\ pc'[w] # "sweeping"
      /\ runs[r].status \in StatusesAt(pc'[w])
      /\ \A v \in Workers \ {w} : pc'[v] = pc[v]
  <2>1. CASE BeginPersist(w)
    BY <2>1, <1>2 DEF BeginPersist, Goto, Working, StatusesAt, IInv, TypeInv, TypeOK
  <2>2. CASE ValidationPasses(w)
    BY <2>2, <1>2 DEF ValidationPasses, Goto, Working, StatusesAt, IInv, TypeInv, TypeOK
  <2>3. CASE StageFails(w)
    BY <2>3, <1>2 DEF StageFails, Goto, Working, StatusesAt, IInv, TypeInv, TypeOK
  <2> QED BY <2>1, <2>2, <2>3
<1>5. /\ loaded'[w][r] = runs[r]
      /\ \A v \in Workers \ {w} : loaded'[v] = loaded[v] /\ loadedDoc'[v] = loadedDoc[v]
      /\ pc'[w] # "failing" => loadedDoc'[w] = documents[DocumentOf[r]]
  <2>1. Only(r)[r] = runs[r]
    BY <1>2 DEF Only, Nothing
  <2>2. CASE BeginPersist(w) \/ ValidationPasses(w)
    BY <2>1, <2>2, <1>2 DEF BeginPersist, ValidationPasses, Load, LoadDocument,
                            IInv, TypeInv, TypeOK
  <2>3. CASE StageFails(w)
    BY <2>1, <2>3, <1>2 DEF StageFails, Load, Goto, IInv, TypeInv, TypeOK
  <2> QED BY <2>2, <2>3
<1>6. /\ \A v \in Workers \ {w} : LeaseHeld(v)' /\ ViewCurrent(v)'
      /\ \A v \in Workers : SweepSound(v)'
      /\ \A s \in Runs : LatestSound(s)'
  <2>1. runs[r].status # "absent"
    BY <1>2, InProgressStatuses
  <2> QED BY <1>1, <1>2, <1>3, <1>4, <1>5, <2>1, OwnWrite, ZenonT(60)
<1>7. LeaseHeld(w)'
  BY <1>2, <1>3, <1>4 DEF LeaseHeld
<1>8. ViewCurrent(w)'
  BY <1>3, <1>5 DEF ViewCurrent
<1>9. ActiveRunIsPublished' /\ \A s \in Runs : RowSound(s)'
  BY <1>3 DEF IInv, SafetyInv, LifecycleSound, ActiveRunIsPublished, Active, RowSound
<1> QED BY <1>6, <1>7, <1>8, <1>9 DEF LifecycleSound

(* The two commits of a successful attempt, on rows nobody else touched.   *)
LEMMA PersistEffect ==
    ASSUME IInv, NEW w \in Workers, PersistRun(w)
    PROVE  LET r   == job[w]
               row == [runs[r] EXCEPT !.validation_status = "pending"]
           IN  /\ row \in RunRow /\ row.attempts = runs[r].attempts
               /\ row.status = runs[r].status /\ row.locked_by = runs[r].locked_by
               /\ row.last_heartbeat_at = runs[r].last_heartbeat_at
               /\ runs' = [runs EXCEPT ![r] = row]
               /\ documents' = documents
<1> DEFINE r == job[w]
           d == DocumentOf[r]
           row == [runs[r] EXCEPT !.validation_status = "pending"]
<1>1. pc[w] \in Working /\ pc[w] = "persisting"
  BY DEF PersistRun, Working
<1>2. /\ r \in Runs /\ runs[r] \in RunRow
      /\ d \in Documents /\ documents[d] \in DocumentRow
      /\ documents[d].latest_run_id = r
  BY <1>1, HeldRun DEF IInv, TypeInv, TypeOK
<1>3. loaded[w][r] = runs[r] /\ loadedDoc[w] = documents[d]
  BY <1>1 DEF IInv, SafetyInv, LifecycleSound, ViewCurrent
<1>4. /\ row \in RunRow /\ row.attempts = runs[r].attempts
      /\ row.status = runs[r].status /\ row.locked_by = runs[r].locked_by
      /\ row.last_heartbeat_at = runs[r].last_heartbeat_at
  BY <1>2 DEF RunRow
<1>5. runs' = [runs EXCEPT ![r] = row]
  <2>1. FlushRun(runs[r], runs[r], row) = row
    BY <1>2, <1>4, FlushRunOwn
  <2> QED BY <1>3, <2>1 DEF PersistRun, SetRun
<1>6. documents' = documents
  <2>1. PersistedDocument(documents[d], r) = documents[d]
    BY <1>2 DEF PersistedDocument, DocumentRow
  <2>2. FlushDocument(documents[d], documents[d], documents[d]) = documents[d]
    BY <1>2, FlushDocumentOwn
  <2>3. documents' = [documents EXCEPT
          ![d] = FlushDocument(@, documents[d], PersistedDocument(documents[d], r))]
    BY <1>3 DEF PersistRun
  <2> QED BY <1>2, <2>1, <2>2, <2>3 DEF IInv, TypeInv, TypeOK
<1> QED BY <1>4, <1>5, <1>6

LEMMA SafePersist ==
    ASSUME IInv, TypeInv', NEW w \in Workers, NobodyElseSweeps(w), PersistRun(w)
    PROVE  LifecycleSound'
<1> DEFINE r == job[w]
           d == DocumentOf[r]
<1>1. pc[w] \in Working /\ pc[w] = "persisting" /\ job' = job
  BY DEF PersistRun, Working
<1>2. /\ r \in Runs /\ runs[r] \in RunRow /\ d \in Documents
      /\ runs[r].status \in StatusesAt(pc[w]) /\ runs[r].status \in InProgress
      /\ runs[r].locked_by = w /\ runs[r].last_heartbeat_at = "fresh"
      /\ documents[d].latest_run_id = r
  BY <1>1, HeldRun
<1>3. PICK row \in RunRow :
        /\ row.attempts = runs[r].attempts
        /\ row.status = runs[r].status /\ row.locked_by = w
        /\ row.last_heartbeat_at = "fresh"
        /\ runs' = [runs EXCEPT ![r] = row]
  <2> DEFINE next == [runs[r] EXCEPT !.validation_status = "pending"]
  <2>1. /\ next \in RunRow /\ next.attempts = runs[r].attempts
        /\ next.status = runs[r].status /\ next.locked_by = runs[r].locked_by
        /\ next.last_heartbeat_at = runs[r].last_heartbeat_at
        /\ runs' = [runs EXCEPT ![r] = next]
    BY PersistEffect
  <2> HIDE DEF next
  <2> QED BY <1>2, <2>1
<1>4. documents' = documents
  BY PersistEffect
<1>5. /\ pc'[w] = "persisted"
      /\ \A v \in Workers \ {w} : /\ pc'[v] = pc[v] /\ loaded'[v] = loaded[v]
                                  /\ loadedDoc'[v] = loadedDoc[v]
      /\ \A s \in Runs \ {r} : corpus'[s] = corpus[s]
  BY <1>2 DEF PersistRun, Goto, Expire, IInv, TypeInv, TypeOK
<1>6. runs'[r] = row /\ \A s \in Runs \ {r} : runs'[s] = runs[s]
  BY <1>2, <1>3 DEF IInv, TypeInv, TypeOK
<1>7. /\ \A v \in Workers \ {w} : LeaseHeld(v)' /\ ViewCurrent(v)'
      /\ \A v \in Workers : SweepSound(v)'
      /\ \A s \in Runs : LatestSound(s)'
      /\ \A s \in Runs \ {r} : RowSound(s)'
  <2>1. row.status # "absent" /\ pc'[w] # "sweeping"
    BY <1>2, <1>3, <1>5, InProgressStatuses
  <2> QED BY <1>1, <1>2, <1>3, <1>4, <1>5, <2>1, OwnWrite
<1>8. LeaseHeld(w)' /\ ViewCurrent(w)'
  BY <1>1, <1>2, <1>3, <1>5, <1>6 DEF LeaseHeld, ViewCurrent, StatusesAt
<1>9. RowSound(r)'
  <2>1. RowSound(r)
    BY <1>2 DEF IInv, SafetyInv, LifecycleSound
  <2> QED BY <1>1, <1>2, <1>3, <1>6, <2>1, InProgressStatuses, NoneAssumption DEF RowSound
<1>10. ActiveRunIsPublished'
  <2>1. ASSUME NEW e \in Documents PROVE Published(e)'
    BY <1>1, <1>4, <1>5, <1>6, PublishedKept DEF Active
  <2> QED BY <2>1, PublishedAll
<1> QED BY <1>1, <1>7, <1>8, <1>9, <1>10 DEF LifecycleSound

(* What a promotion in a safe deployment amounts to.                       *)
LEMMA PromoteEffect ==
    ASSUME IInv, NEW w \in Workers, Promote(w)
    PROVE  LET r   == job[w]
               d   == DocumentOf[r]
               row == [runs[r] EXCEPT !.status = "completed",
                                      !.locked_by = None,
                                      !.last_heartbeat_at = None,
                                      !.next_attempt_at = None,
                                      !.validation_status = "passed",
                                      !.failure_stage = None]
           IN  /\ row \in RunRow /\ row.attempts = runs[r].attempts
               /\ row.status = "completed" /\ row.validation_status = "passed"
               /\ runs' = [runs EXCEPT ![r] = row]
               /\ documents' = [documents EXCEPT
                                  ![d] = [active_run_id |-> r, latest_run_id |-> r]]
               /\ corpus' = [corpus EXCEPT ![r].rows = "validated"]
<1> DEFINE r == job[w]
           d == DocumentOf[r]
           row == [runs[r] EXCEPT !.status = "completed",
                                  !.locked_by = None,
                                  !.last_heartbeat_at = None,
                                  !.next_attempt_at = None,
                                  !.validation_status = "passed",
                                  !.failure_stage = None]
<1>1. pc[w] \in Working /\ pc[w] = "validated"
  BY DEF Promote, Working
<1>2. r \in Runs /\ runs[r] \in RunRow /\ d \in Documents /\ documents[d] \in DocumentRow
  BY <1>1, HeldRun DEF IInv, TypeInv, TypeOK
<1>3. loaded[w][r] = runs[r] /\ loadedDoc[w] = documents[d]
  BY <1>1 DEF IInv, SafetyInv, LifecycleSound, ViewCurrent
<1>4. "completed" \in Statuses
  BY DEF Statuses
<1>5. /\ row \in RunRow /\ row.attempts = runs[r].attempts
      /\ row.status = "completed" /\ row.validation_status = "passed"
  BY <1>2, <1>4 DEF RunRow
<1>6. runs' = [runs EXCEPT ![r] = row]
  <2>1. runs' = [runs EXCEPT ![r] = FlushRun(runs[r], runs[r], row)]
    BY <1>3 DEF Promote, SetRun
  <2> HIDE DEF row
  <2>2. FlushRun(runs[r], runs[r], row) = row
    BY <1>2, <1>5, FlushRunOwn
  <2> QED BY <2>1, <2>2
<1>7. documents' = [documents EXCEPT ![d] = [active_run_id |-> r, latest_run_id |-> r]]
  <2>1. [active_run_id |-> r, latest_run_id |-> r] \in DocumentRow
    BY <1>2 DEF DocumentRow
  <2> QED BY <1>2, <1>3, <2>1, FlushDocumentOwn DEF Promote
<1> QED BY <1>5, <1>6, <1>7 DEF Promote

LEMMA SafePromote ==
    ASSUME IInv, TypeInv', NEW w \in Workers, NobodyElseSweeps(w), Promote(w)
    PROVE  LifecycleSound'
<1> DEFINE r == job[w]
           d == DocumentOf[r]
<1>1. pc[w] \in Working /\ job' = job
  BY DEF Promote, Working
<1>2. r \in Runs /\ d \in Documents /\ runs[r] \in RunRow
  BY <1>1, HeldRun
<1>3. PICK row \in RunRow :
        /\ row.attempts = runs[r].attempts
        /\ row.status = "completed" /\ row.validation_status = "passed"
        /\ runs' = [runs EXCEPT ![r] = row]
  BY PromoteEffect
<1>4. /\ documents' = [documents EXCEPT ![d] = [active_run_id |-> r, latest_run_id |-> r]]
      /\ corpus' = [corpus EXCEPT ![r].rows = "validated"]
  BY PromoteEffect
<1>5. /\ pc'[w] = "promoted"
      /\ \A v \in Workers \ {w} : /\ pc'[v] = pc[v] /\ loaded'[v] = loaded[v]
                                  /\ loadedDoc'[v] = loadedDoc[v]
  BY <1>2 DEF Promote, Goto, Expire, IInv, TypeInv, TypeOK
<1>6. runs'[r] = row /\ \A s \in Runs \ {r} : runs'[s] = runs[s]
  BY <1>2, <1>3 DEF IInv, TypeInv, TypeOK
<1>7. /\ documents'[d] = [active_run_id |-> r, latest_run_id |-> r]
      /\ \A e \in Documents \ {d} : documents'[e] = documents[e]
      /\ corpus'[r].rows = "validated"
      /\ \A s \in Runs \ {r} : corpus'[s] = corpus[s]
  BY <1>2, <1>4 DEF IInv, TypeInv, TypeOK, CorpusRow
<1>8. /\ \A v \in Workers \ {w} : LeaseHeld(v)' /\ ViewCurrent(v)'
      /\ \A v \in Workers : SweepSound(v)'
      /\ \A s \in Runs : LatestSound(s)'
      /\ \A s \in Runs \ {r} : RowSound(s)'
      /\ \A e \in Documents \ {d} : Published(e)'
  <2>1. /\ row.status # "absent" /\ pc'[w] # "sweeping"
        /\ documents'[d].latest_run_id = r
    BY <1>3, <1>5, <1>7
  <2> QED BY <1>1, <1>3, <1>5, <1>7, <2>1, OwnWrite
<1>9. LeaseHeld(w)' /\ ViewCurrent(w)'
  BY <1>5 DEF LeaseHeld, ViewCurrent, Working
<1>10. RowSound(r)'
  <2>1. RowSound(r)
    BY <1>2 DEF IInv, SafetyInv, LifecycleSound
  <2> QED BY <1>1, <1>3, <1>6, <2>1, InProgressStatuses DEF RowSound
<1>11. Published(d)'
  BY <1>1, <1>3, <1>6, <1>7 DEF Published, Active
<1>12. ActiveRunIsPublished'
  BY <1>1, <1>8, <1>11, PublishedAll
<1> QED BY <1>1, <1>8, <1>9, <1>10, <1>12 DEF LifecycleSound

-------------------------------------------------------------------------------
(* Steps that end an attempt                                               *)

(* A failure the session loaded the row for: the run is over, or waits for *)
(* an attempt it still has.                                                *)
LEMMA FailedOwn ==
    ASSUME NEW row \in RunRow, NEW failure \in Failures
    PROVE  LET next == Failed(row, row, failure)
           IN  /\ next \in RunRow
               /\ next.attempts = row.attempts
               /\ \/ next.status = "failed"
                  \/ next.status = "retry_wait" /\ row.attempts < MaxAttempts
<1> DEFINE released == [row EXCEPT !.locked_by = None,
                                   !.last_heartbeat_at = None,
                                   !.failure_stage = failure.stage]
           given == [released EXCEPT !.status = "failed", !.validation_status = "failed"]
           again == [released EXCEPT !.status = "retry_wait"]
<1>1. /\ released \in RunRow /\ released.attempts = row.attempts
      /\ {"failed", "retry_wait"} \subseteq Statuses
  BY DEF RunRow, Failures, Statuses, Inflight
<1>2. /\ given \in RunRow /\ given.attempts = row.attempts /\ given.status = "failed"
      /\ again \in RunRow /\ again.attempts = row.attempts /\ again.status = "retry_wait"
  BY <1>1 DEF RunRow
<1>3. FlushRun(row, row, given) = given /\ FlushRun(row, row, again) = again
  BY <1>2, FlushRunOwn
<1>4. /\ [again EXCEPT !.next_attempt_at = "later"] \in RunRow
      /\ [again EXCEPT !.next_attempt_at = "later"].attempts = row.attempts
      /\ [again EXCEPT !.next_attempt_at = "later"].status = "retry_wait"
  BY <1>2 DEF RunRow
<1> HIDE DEF released, given, again
<1> QED BY <1>2, <1>3, <1>4 DEF Failed, given, again, released

LEMMA RequeuedOwn ==
    ASSUME NEW row \in RunRow
    PROVE  LET next == Requeued(row, row)
           IN  /\ next \in RunRow
               /\ next.attempts = row.attempts
               /\ \/ next.status = "failed"
                  \/ next.status = "retry_wait" /\ row.attempts < MaxAttempts
<1> DEFINE released == [row EXCEPT !.locked_by = None, !.last_heartbeat_at = None]
           given == [released EXCEPT
                       !.status = "failed",
                       !.validation_status = "failed",
                       !.failure_stage = IF @ = None THEN "stale_lease" ELSE @]
           again == [released EXCEPT !.status = "retry_wait"]
<1>1. /\ released \in RunRow /\ released.attempts = row.attempts
      /\ {"failed", "retry_wait"} \subseteq Statuses
  BY DEF RunRow, Statuses, Inflight
<1>2. /\ given \in RunRow /\ given.attempts = row.attempts /\ given.status = "failed"
      /\ again \in RunRow /\ again.attempts = row.attempts /\ again.status = "retry_wait"
  BY <1>1 DEF RunRow
<1>3. FlushRun(row, row, given) = given /\ FlushRun(row, row, again) = again
  BY <1>2, FlushRunOwn
<1>3a. Requeued(row, row) =
          IF row.attempts >= MaxAttempts THEN FlushRun(row, row, given)
          ELSE [FlushRun(row, row, again) EXCEPT !.next_attempt_at = "due"]
  BY Zenon DEF Requeued
<1> HIDE DEF released, given, again
<1>4. /\ [again EXCEPT !.next_attempt_at = "due"] \in RunRow
      /\ [again EXCEPT !.next_attempt_at = "due"].attempts = row.attempts
      /\ [again EXCEPT !.next_attempt_at = "due"].status = "retry_wait"
  BY <1>2 DEF RunRow
<1>5. row.attempts \in Nat /\ MaxAttempts \in Nat
  BY MaxAttemptsAssumption DEF RunRow
<1> QED BY <1>2, <1>3, <1>3a, <1>4, <1>5

LEMMA SafeFailure ==
    ASSUME IInv, TypeInv', NEW w \in Workers, NobodyElseSweeps(w), FinalizeFailure(w)
    PROVE  LifecycleSound'
<1> DEFINE r == job[w]
<1>1. pc[w] \in Working /\ pc[w] = "failing"
  BY DEF FinalizeFailure, Working
<1>2. /\ r \in Runs /\ runs[r] \in RunRow /\ DocumentOf[r] \in Documents
      /\ documents[DocumentOf[r]].latest_run_id = r
      /\ loaded[w][r] = runs[r] /\ error[w] \in Failures
  BY <1>1, HeldRun DEF IInv, SafetyInv, LifecycleSound, ViewCurrent, TypeInv, SessionOK
<1>3. PICK row \in RunRow :
        /\ row.attempts = runs[r].attempts
        /\ \/ row.status = "failed"
           \/ row.status = "retry_wait" /\ runs[r].attempts < MaxAttempts
        /\ runs' = [runs EXCEPT ![r] = row]
  BY <1>2, FailedOwn DEF FinalizeFailure, SetRun
<1>4. /\ documents' = documents
      /\ pc'[w] = "polling"
      /\ \A v \in Workers \ {w} : /\ pc'[v] = pc[v] /\ job'[v] = job[v]
                                  /\ loaded'[v] = loaded[v]
                                  /\ loadedDoc'[v] = loadedDoc[v]
      /\ \A s \in Runs \ {r} : corpus'[s] = corpus[s]
  BY <1>2 DEF FinalizeFailure, Leave, Goto, Expire, IInv, TypeInv, TypeOK
<1>5. runs'[r] = row /\ \A s \in Runs \ {r} : runs'[s] = runs[s]
  BY <1>2, <1>3 DEF IInv, TypeInv, TypeOK
<1>6. /\ \A v \in Workers \ {w} : LeaseHeld(v)' /\ ViewCurrent(v)'
      /\ \A v \in Workers : SweepSound(v)'
      /\ \A s \in Runs : LatestSound(s)'
      /\ \A s \in Runs \ {r} : RowSound(s)'
  <2>1. row.status # "absent" /\ pc'[w] # "sweeping"
    BY <1>3, <1>4
  <2> QED BY <1>1, <1>2, <1>3, <1>4, <2>1, OwnWrite
<1>7. LeaseHeld(w)' /\ ViewCurrent(w)'
  BY <1>4 DEF LeaseHeld, ViewCurrent, Working
<1>8. \A s \in Runs : RowSound(s)'
  <2>1. ASSUME NEW s \in Runs, s = r PROVE RowSound(s)'
    <3>1. RowSound(s)
      BY DEF IInv, SafetyInv, LifecycleSound
    <3> QED BY <1>3, <1>5, <2>1, <3>1, InProgressStatuses DEF RowSound
  <2> QED BY <1>6, <2>1
<1>9. ActiveRunIsPublished'
  <2>1. ASSUME NEW e \in Documents PROVE Published(e)'
    BY <1>1, <1>4, <1>5, PublishedKept DEF Active
  <2> QED BY <2>1, PublishedAll
<1> QED BY <1>6, <1>7, <1>8, <1>9 DEF LifecycleSound

(* A worker that leaves its run without a word, or comes back.             *)
LEMMA SafeQuiet ==
    ASSUME IInv, NEW w \in Workers,
           \/ NobodyElseSweeps(w) /\ Evaluate(w)
           \/ Crash(w) \/ Restart(w)
    PROVE  LifecycleSound'
<1>1. UNCHANGED <<runs, documents, corpus>>
  BY DEF Evaluate, Crash, Restart, database
<1>2. /\ pc'[w] \in {"polling", "down"}
      /\ \A v \in Workers \ {w} : /\ pc'[v] = pc[v] /\ job'[v] = job[v]
                                  /\ loaded'[v] = loaded[v]
                                  /\ loadedDoc'[v] = loadedDoc[v]
  BY DEF Evaluate, Crash, Restart, Leave, Goto, Expire, session, IInv, TypeInv, TypeOK
<1>3. ASSUME NEW v \in Workers
      PROVE  LeaseHeld(v)' /\ SweepSound(v)' /\ ViewCurrent(v)'
  <2>1. CASE v = w
    BY <1>2, <2>1 DEF LeaseHeld, SweepSound, ViewCurrent, Working
  <2>2. CASE v # w
    <3>1. LeaseHeld(v) /\ SweepSound(v) /\ ViewCurrent(v)
      BY DEF IInv, SafetyInv, LifecycleSound
    <3> QED BY <1>1, <1>2, <2>2, <3>1
            DEF LeaseHeld, SweepSound, ViewCurrent, NobodyElseSweeps, Stale
  <2> QED BY <2>1, <2>2
<1>4. /\ \A r \in Runs : RowSound(r)' /\ LatestSound(r)'
      /\ ActiveRunIsPublished'
  BY <1>1 DEF IInv, SafetyInv, LifecycleSound, RowSound, LatestSound, ActiveRunIsPublished, Active
<1> QED BY <1>3, <1>4 DEF LifecycleSound

-------------------------------------------------------------------------------
(* The API, time, claims and sweeps                                        *)

(* Whoever queues a run decides on the document as it is: an upload by     *)
(* what it has loaded, the others by what they read under the lock.        *)
LEMMA QueuesSound ==
    ASSUME IInv, NEW r \in Runs, Queues(r)
    PROVE  MayQueue(documents[DocumentOf[r]])
<1>1. ASSUME NEW u \in Uploads, QueueRecovery(u, r)
      PROVE  MayQueue(documents[DocumentOf[r]])
  BY <1>1 DEF QueueRecovery, IInv, SafetyInv, UploadSound
<1> QED BY <1>1 DEF Queues, Submit

LEMMA SafeQueue ==
    ASSUME IInv, NEW r \in Runs, Queues(r)
    PROVE  LifecycleSound'
<1> DEFINE d == DocumentOf[r]
           row == [absentRun EXCEPT !.status = "queued", !.next_attempt_at = "due",
                                    !.validation_status = "pending"]
<1>0. Queue(r)
  BY QueuesQueue
<1>1. /\ d \in Documents /\ runs[r].status = "absent"
      /\ \A s \in Runs : s < r => runs[s].status # "absent"
      /\ documents[d].latest_run_id # None =>
           runs[documents[d].latest_run_id].status \notin Inflight
      /\ UNCHANGED <<corpus, pc, job, loaded, loadedDoc>>
  BY <1>0, DocumentOfAssumption, QueuesSound DEF Queue, MayQueue, session
<1>2. /\ runs'[r] = row /\ \A s \in Runs \ {r} : runs'[s] = runs[s]
      /\ documents'[d].latest_run_id = r
      /\ documents'[d].active_run_id = documents[d].active_run_id
      /\ \A e \in Documents \ {d} : documents'[e] = documents[e]
  BY <1>0, <1>1 DEF Queue, SetRun, IInv, TypeInv, TypeOK, DocumentRow
<1>3. row.status = "queued" /\ row.attempts = 0
  BY DEF absentRun
<1> HIDE DEF row
<1>4. ASSUME NEW s \in Runs, DocumentOf[s] = d PROVE runs[s].status \notin Inflight
  <2>1. runs[s].status \in Inflight => documents[d].latest_run_id = s
    BY <1>4 DEF IInv, SafetyInv, LifecycleSound, LatestSound
  <2> QED BY <1>1, <2>1, NoneAssumption
<1>5. ASSUME NEW w \in Workers
      PROVE  LeaseHeld(w)' /\ ViewCurrent(w)' /\ SweepSound(w)'
  <2>1. CASE pc[w] \in Working
    <3>1. /\ job[w] \in Runs /\ runs[job[w]].status \in Inflight
          /\ DocumentOf[job[w]] \in Documents
      BY <2>1, HeldRun, InProgressStatuses
    <3>2. job[w] # r /\ DocumentOf[job[w]] # d
      BY <1>1, <1>4, <3>1, InProgressStatuses
    <3>3. runs'[job[w]] = runs[job[w]]
          /\ documents'[DocumentOf[job[w]]] = documents[DocumentOf[job[w]]]
      BY <1>2, <3>1, <3>2
    <3>4. pc'[w] # "sweeping"
      BY <1>1, <2>1 DEF Working
    <3> QED BY <1>1, <3>3, <3>4 DEF IInv, SafetyInv, LifecycleSound, LeaseHeld, ViewCurrent, SweepSound
  <2>2. CASE pc[w] \notin Working
    <3>1. LeaseHeld(w)' /\ ViewCurrent(w)'
      BY <1>1, <2>2 DEF LeaseHeld, ViewCurrent, Working
    <3>2. ASSUME pc[w] = "sweeping", NEW s \in Runs, loaded[w][s] # None
          PROVE  runs'[s] = runs[s]
      BY <1>1, <1>2, <3>2, InProgressStatuses DEF IInv, SafetyInv, LifecycleSound, SweepSound, Stale
    <3>3. SweepSound(w)
      BY DEF IInv, SafetyInv, LifecycleSound
    <3> QED BY <1>1, <3>1, <3>2, <3>3 DEF SweepSound, NobodyElseSweeps, Stale
  <2> QED BY <2>1, <2>2
<1>6. ASSUME NEW s \in Runs PROVE RowSound(s)'
  <2>1. RowSound(s)
    BY DEF IInv, SafetyInv, LifecycleSound
  <2> QED BY <1>2, <1>3, <2>1, MaxAttemptsAssumption, InProgressStatuses DEF RowSound
<1>7. ASSUME NEW s \in Runs PROVE LatestSound(s)'
  <2>1. LatestSound(s)
    BY DEF IInv, SafetyInv, LifecycleSound
  <2>2. s \in Nat /\ r \in Nat /\ r # None /\ DocumentOf[s] \in Documents
    BY RunsAssumption, NoneAssumption, DocumentOfAssumption
  <2>3. runs[s].status # "absent" => s < r
    BY <1>1, <2>1, <2>2 DEF LatestSound
  <2>4. \A t \in Runs : runs[t].status # "absent" => runs'[t].status # "absent"
    BY <1>1, <1>2
  <2>5. CASE s = r
    BY <1>1, <1>2, <2>2, <2>4, <2>5 DEF LatestSound
  <2>6. CASE s # r /\ DocumentOf[s] = d
    <3>1. documents'[DocumentOf[s]].latest_run_id = r /\ runs'[s] = runs[s]
      BY <1>2, <2>6
    <3>2. runs[s].status # "absent" => r >= s
      BY <2>2, <2>3
    <3>3. runs[s].status \notin Inflight
      BY <1>4, <2>6
    <3> QED BY <2>1, <2>2, <2>4, <3>1, <3>2, <3>3 DEF LatestSound
  <2>7. CASE s # r /\ DocumentOf[s] # d
    BY <1>2, <2>1, <2>2, <2>4, <2>7 DEF LatestSound
  <2> QED BY <2>5, <2>6, <2>7
<1>8. ASSUME NEW e \in Documents PROVE Published(e)'
  <2>1. Published(e) /\ (Active(e) # None => Active(e) \in Runs)
    BY ActiveType DEF IInv, TypeInv, SafetyInv, LifecycleSound, ActiveRunIsPublished, Published
  <2>2. Active(e)' = Active(e)
    BY <1>2 DEF Active
  <2> QED BY <1>1, <1>2, <2>1, <2>2 DEF Published
<1> QED BY <1>5, <1>6, <1>7, <1>8, PublishedAll DEF LifecycleSound

LEMMA SafeTime ==
    ASSUME IInv, LeasesTimely, NEW r \in Runs, LeaseExpires(r) \/ BackoffElapses(r)
    PROVE  LifecycleSound'
<1>1. UNCHANGED <<documents, corpus, pc, job, loaded, loadedDoc>>
  BY DEF LeaseExpires, BackoffElapses, session
<1>2. /\ runs'[r].status = runs[r].status /\ runs'[r].attempts = runs[r].attempts
      /\ runs'[r].validation_status = runs[r].validation_status
      /\ runs'[r].last_heartbeat_at # None \/ runs[r].status = "retry_wait"
      /\ \A s \in Runs \ {r} : runs'[s] = runs[s]
  BY NoneAssumption DEF LeaseExpires, BackoffElapses, SetRun, IInv, TypeInv, TypeOK, RunRow
<1>3. ~Stale(r)
  BY InProgressStatuses DEF LeaseExpires, BackoffElapses, Stale
<1>4. ASSUME NEW w \in Workers, pc[w] \in Working PROVE job[w] # r
  BY <1>4, HeldRun, InProgressStatuses DEF LeaseExpires, BackoffElapses, Holds
<1>5. ASSUME NEW w \in Workers
      PROVE  LeaseHeld(w)' /\ ViewCurrent(w)' /\ SweepSound(w)'
  <2>1. CASE pc[w] \in Working
    <3>1. runs'[job[w]] = runs[job[w]] /\ pc[w] # "sweeping"
      BY <1>2, <1>4, <2>1, HeldRun DEF Working
    <3> QED BY <1>1, <3>1 DEF IInv, SafetyInv, LifecycleSound, LeaseHeld, ViewCurrent, SweepSound
  <2>2. CASE pc[w] \notin Working
    <3>1. LeaseHeld(w)' /\ ViewCurrent(w)'
      BY <1>1, <2>2 DEF LeaseHeld, ViewCurrent, Working
    <3>2. SweepSound(w)
      BY DEF IInv, SafetyInv, LifecycleSound
    <3> QED BY <1>1, <1>2, <1>3, <3>1, <3>2 DEF SweepSound, NobodyElseSweeps, Stale
  <2> QED BY <2>1, <2>2
<1>6. ASSUME NEW s \in Runs PROVE RowSound(s)' /\ LatestSound(s)'
  <2>1. RowSound(s) /\ LatestSound(s)
    BY DEF IInv, SafetyInv, LifecycleSound
  <2>2. /\ runs'[s].status = runs[s].status /\ runs'[s].attempts = runs[s].attempts
        /\ runs[s].status \in InProgress => runs'[s].last_heartbeat_at # None
        /\ \A t \in Runs : runs'[t].status = runs[t].status
    BY <1>2, <2>1, InProgressStatuses DEF RowSound
  <2> QED BY <1>1, <2>1, <2>2 DEF RowSound, LatestSound
<1>7. ASSUME NEW e \in Documents PROVE Published(e)'
  <2>1. Published(e) /\ (Active(e) # None => Active(e) \in Runs) /\ Active(e)' = Active(e)
    BY <1>1, ActiveType DEF IInv, TypeInv, SafetyInv, LifecycleSound, ActiveRunIsPublished, Published, Active
  <2> QED BY <1>1, <1>2, <2>1 DEF Published
<1> QED BY <1>5, <1>6, <1>7, PublishedAll DEF LifecycleSound

LEMMA SafeClaim ==
    ASSUME IInv, NEW w \in Workers, NobodyElseSweeps(w), NEW r \in Runs, Claim(w, r)
    PROVE  LifecycleSound'
<1>1. /\ UNCHANGED <<documents, corpus, loaded, loadedDoc>>
      /\ runs[r].status \in {"queued", "retry_wait"}
      /\ pc[w] = "polling" /\ pc' = [pc EXCEPT ![w] = "claimed"]
      /\ job' = [job EXCEPT ![w] = r]
  BY DEF Claim, Claimable, Goto
<1>2. /\ pc'[w] = "claimed" /\ job'[w] = r
      /\ \A v \in Workers \ {w} : pc'[v] = pc[v] /\ job'[v] = job[v]
  BY <1>1 DEF IInv, TypeInv, TypeOK
<1>3. /\ runs'[r].status = "processing" /\ runs'[r].locked_by = w
      /\ runs'[r].last_heartbeat_at = "fresh"
      /\ runs'[r].attempts = runs[r].attempts + 1
      /\ \A s \in Runs \ {r} : runs'[s] = runs[s]
  BY DEF Claim, Claimed, SetRun, IInv, TypeInv, TypeOK, RunRow
<1>4. ASSUME NEW v \in Workers
      PROVE  LeaseHeld(v)' /\ ViewCurrent(v)' /\ SweepSound(v)'
  <2>1. CASE v = w
    BY <1>2, <1>3, <2>1 DEF LeaseHeld, ViewCurrent, SweepSound, StatusesAt
  <2>2. CASE v # w /\ pc[v] \in Working
    <3>1. job[v] \in Runs \ {r}
      BY <1>1, <2>2, HeldRun, InProgressStatuses
    <3>2. runs'[job[v]] = runs[job[v]] /\ pc'[v] # "sweeping"
      BY <1>2, <1>3, <2>2, <3>1 DEF Working
    <3> QED BY <1>1, <1>2, <2>2, <3>2 DEF IInv, SafetyInv, LifecycleSound, LeaseHeld, ViewCurrent, SweepSound
  <2>3. CASE v # w /\ pc[v] \notin Working
    BY <1>2, <2>3 DEF LeaseHeld, ViewCurrent, SweepSound, NobodyElseSweeps, Working
  <2> QED BY <2>1, <2>2, <2>3
<1>5. ASSUME NEW s \in Runs PROVE RowSound(s)' /\ LatestSound(s)'
  <2>1. RowSound(s) /\ LatestSound(s) /\ RowSound(r) /\ LatestSound(r)
    BY DEF IInv, SafetyInv, LifecycleSound
  <2>2. runs[s].attempts \in Nat /\ MaxAttempts \in Nat
    BY MaxAttemptsAssumption DEF IInv, TypeInv, TypeOK, RunRow
  <2>3. RowSound(s)'
    <3>1. CASE s = r
      BY <1>1, <1>3, <2>1, <2>2, <3>1, NoneAssumption DEF RowSound
    <3>2. CASE s # r
      BY <1>3, <2>1, <3>2 DEF RowSound
    <3> QED BY <3>1, <3>2
  <2>4. /\ \A t \in Runs : runs[t].status # "absent" => runs'[t].status # "absent"
        /\ runs'[s].status # "absent" => runs[s].status # "absent"
        /\ runs'[s].status \in Inflight => runs[s].status \in Inflight
    BY <1>1, <1>3, InProgressStatuses
  <2>5. LatestSound(s)'
    BY <1>1, <2>1, <2>4 DEF LatestSound
  <2> QED BY <2>3, <2>5
<1>6. ASSUME NEW e \in Documents PROVE Published(e)'
  <2>1. Published(e) /\ (Active(e) # None => Active(e) \in Runs) /\ Active(e)' = Active(e)
    BY <1>1, ActiveType DEF IInv, TypeInv, SafetyInv, LifecycleSound, ActiveRunIsPublished, Published, Active
  <2> QED BY <1>1, <1>3, <2>1 DEF Published
<1> QED BY <1>4, <1>5, <1>6, PublishedAll DEF LifecycleSound

LEMMA SafeSweep ==
    ASSUME IInv, NEW w \in Workers, NobodyElseSweeps(w), SweepRead(w) \/ SweepCommit(w)
    PROVE  LifecycleSound'
<1>1. CASE SweepRead(w)
  <2>1. /\ UNCHANGED <<runs, documents, corpus, job, loadedDoc>>
        /\ pc[w] = "polling"
        /\ pc'[w] = "sweeping"
        /\ loaded'[w] = [r \in Runs |-> IF Stale(r) THEN runs[r] ELSE None]
        /\ \A v \in Workers \ {w} : pc'[v] = pc[v] /\ loaded'[v] = loaded[v]
    BY <1>1 DEF SweepRead, Goto, database, IInv, TypeInv, TypeOK
  <2>2. ASSUME NEW v \in Workers
        PROVE  LeaseHeld(v)' /\ ViewCurrent(v)' /\ SweepSound(v)'
    <3>1. CASE v = w
      BY <2>1, <3>1 DEF LeaseHeld, ViewCurrent, SweepSound, NobodyElseSweeps, Stale, Working
    <3>2. CASE v # w
      <4>1. LeaseHeld(v) /\ ViewCurrent(v) /\ pc'[v] # "sweeping"
        BY <2>1, <3>2 DEF IInv, SafetyInv, LifecycleSound, NobodyElseSweeps
      <4> QED BY <2>1, <3>2, <4>1 DEF LeaseHeld, ViewCurrent, SweepSound
    <3> QED BY <3>1, <3>2
  <2>3. /\ \A r \in Runs : RowSound(r)' /\ LatestSound(r)'
        /\ ActiveRunIsPublished'
    BY <2>1 DEF IInv, SafetyInv, LifecycleSound, RowSound, LatestSound, ActiveRunIsPublished, Active
  <2> QED BY <2>2, <2>3 DEF LifecycleSound
<1>2. CASE SweepCommit(w)
  <2>1. /\ UNCHANGED <<documents, corpus>>
        /\ pc[w] = "sweeping" /\ pc'[w] = "polling"
        /\ \A v \in Workers \ {w} : /\ pc'[v] = pc[v] /\ job'[v] = job[v]
                                    /\ loaded'[v] = loaded[v]
                                    /\ loadedDoc'[v] = loadedDoc[v]
    BY <1>2 DEF SweepCommit, Leave, Goto, Expire, IInv, TypeInv, TypeOK
  <2>2. ASSUME NEW r \in Runs, ~Stale(r) PROVE runs'[r] = runs[r]
    BY <1>2, <2>1, <2>2 DEF SweepCommit, IInv, SafetyInv, LifecycleSound, SweepSound
  <2>3. ASSUME NEW r \in Runs, runs'[r] # runs[r]
        PROVE  /\ Stale(r)
               /\ runs'[r].attempts = runs[r].attempts
               /\ \/ runs'[r].status = "failed"
                  \/ runs'[r].status = "retry_wait" /\ runs[r].attempts < MaxAttempts
    <3>1. loaded[w][r] # None /\ runs'[r] = Requeued(runs[r], loaded[w][r])
      BY <1>2, <2>3 DEF SweepCommit
    <3>2. Stale(r) /\ loaded[w][r] = runs[r] /\ runs[r] \in RunRow
      BY <2>1, <3>1 DEF IInv, TypeInv, TypeOK, SafetyInv, LifecycleSound, SweepSound
    <3> QED BY <3>1, <3>2, RequeuedOwn
  <2>4. ASSUME NEW v \in Workers
        PROVE  LeaseHeld(v)' /\ ViewCurrent(v)' /\ SweepSound(v)'
    <3>1. CASE v = w \/ pc[v] \notin Working
      <4>1. pc'[v] \notin Working /\ pc'[v] # "sweeping"
        BY <2>1, <3>1, LocationsDistinct DEF NobodyElseSweeps
      <4> QED BY <4>1 DEF LeaseHeld, ViewCurrent, SweepSound, Working
    <3>2. CASE v # w /\ pc[v] \in Working
      <4>1. job[v] \in Runs /\ ~Stale(job[v])
        BY <3>2, HeldRun DEF Stale
      <4>2. runs'[job[v]] = runs[job[v]] /\ pc'[v] # "sweeping"
        BY <2>1, <2>2, <3>2, <4>1 DEF Working
      <4> QED BY <2>1, <3>2, <4>2 DEF IInv, SafetyInv, LifecycleSound, LeaseHeld, ViewCurrent, SweepSound
    <3> QED BY <3>1, <3>2
  <2>5. ASSUME NEW s \in Runs PROVE RowSound(s)' /\ LatestSound(s)'
    <3>1. RowSound(s) /\ LatestSound(s)
      BY DEF IInv, SafetyInv, LifecycleSound
    <3>2. RowSound(s)'
      <4>1. CASE runs'[s] = runs[s]
        BY <3>1, <4>1 DEF RowSound
      <4>2. CASE runs'[s] # runs[s]
        BY <2>3, <3>1, <4>2, InProgressStatuses DEF RowSound
      <4> QED BY <4>1, <4>2
    <3>3. /\ \A t \in Runs : runs[t].status # "absent" => runs'[t].status # "absent"
          /\ runs'[s].status # "absent" => runs[s].status # "absent"
          /\ runs'[s].status \in Inflight => runs[s].status \in Inflight
      BY <2>3, InProgressStatuses DEF Stale
    <3>4. LatestSound(s)'
      BY <2>1, <3>1, <3>3 DEF LatestSound
    <3> QED BY <3>2, <3>4
  <2>6. ASSUME NEW e \in Documents PROVE Published(e)'
    <3>1. Published(e) /\ (Active(e) # None => Active(e) \in Runs) /\ Active(e)' = Active(e)
      BY <2>1, ActiveType DEF IInv, TypeInv, SafetyInv, LifecycleSound, ActiveRunIsPublished, Published, Active
    <3>2. Active(e) # None => runs'[Active(e)] = runs[Active(e)]
      BY <2>2, <3>1, InProgressStatuses DEF Published, Stale
    <3> QED BY <2>1, <3>1, <3>2 DEF Published
  <2> QED BY <2>4, <2>5, <2>6, PublishedAll DEF LifecycleSound
<1> QED BY <1>1, <1>2

-------------------------------------------------------------------------------
(* The invariant                                                           *)

LEMMA SafeInit == Init => IInv
<1> SUFFICES ASSUME Init PROVE SafetyInv
  BY TypeInit DEF IInv
<1>1. \A w \in Workers : LeaseHeld(w) /\ SweepSound(w) /\ ViewCurrent(w)
  BY DEF Init, LeaseHeld, SweepSound, ViewCurrent, Working
<1>2. \A r \in Runs : RowSound(r) /\ LatestSound(r)
  BY MaxAttemptsAssumption, InProgressStatuses DEF Init, absentRun, RowSound, LatestSound
<1>3. ActiveRunIsPublished
  BY DEF Init, ActiveRunIsPublished, Active
<1>4. \A u \in Uploads : UploadSound(u)
  BY DEF Init, UploadSound
<1> QED BY <1>1, <1>2, <1>3, <1>4 DEF SafetyInv, LifecycleSound

(* ReadsPrompt, at every step.                                             *)
LEMMA StepsPrompt ==
    ASSUME ReadsPrompt, [Next]_vars, NEW u \in Uploads,
           recovering[u] # None, recovering'[u] # None
    PROVE  documents'[recovering[u].id] = documents[recovering[u].id]
<1>1. ASSUME \/ \E r \in Runs : LeaseExpires(r) \/ BackoffElapses(r)
             \/ \E w \in Workers : Crash(w) \/ Restart(w)
             \/ UNCHANGED vars
      PROVE  documents' = documents
  BY <1>1 DEF LeaseExpires, BackoffElapses, Crash, Restart, vars, database
<1>2. CASE Prompt
  BY <1>2 DEF Prompt
<1> QED BY <1>1, <1>2 DEF Next

LEMMA UploadsSafe ==
    ASSUME ReadsPrompt, IInv, [Next]_vars, NEW u \in Uploads
    PROVE  UploadSound(u)'
<1>1. CASE recovering'[u] = recovering[u]
  <2>1. UploadSound(u)
    BY DEF IInv, SafetyInv
  <2> QED BY <1>1, <2>1, StepsPrompt DEF UploadSound
<1>2. ASSUME NEW v \in Uploads, NEW d \in Documents, FindDocument(v, d),
             recovering'[u] # recovering[u]
      PROVE  UploadSound(u)'
  <2>1. /\ recovering'[u] = [id |-> d, row |-> documents[d]]
        /\ documents' = documents
    BY <1>2 DEF FindDocument, database, IInv, TypeInv, TypeOK
  <2> QED BY <2>1 DEF UploadSound
<1>3. ASSUME NEW v \in Uploads,
             EndUpload(v) \/ \E r \in Runs : QueueRecovery(v, r),
             recovering'[u] # recovering[u]
      PROVE  UploadSound(u)'
  <2>1. recovering'[u] = None
    BY <1>3 DEF EndUpload, QueueRecovery, IInv, TypeInv, TypeOK
  <2> QED BY <2>1 DEF UploadSound
<1>4. ASSUME \A v \in Uploads : ~UploadStep(v)
      PROVE  recovering' = recovering
  BY <1>4 DEF Next, Submit, LeaseExpires, BackoffElapses, WorkerStep, SweepRead,
     SweepCommit, Claim, Heartbeat, RefreshLease, BeginPersist, PersistRun,
     MarkValidating, ValidationPasses, Promote, Evaluate, StageFails,
     FinalizeFailure, Crash, Restart, vars
<1> QED BY <1>1, <1>2, <1>3, <1>4 DEF UploadStep

LEMMA SafeStep ==
    ASSUME SafeDeployment PROVE IInv /\ [Next]_vars => IInv'
<1> SUFFICES ASSUME IInv, [Next]_vars PROVE LifecycleSound'
  BY TypeStep, UploadsSafe DEF IInv, SafetyInv, SafeDeployment
<1>1. TypeInv'
  BY TypeStep DEF IInv
<1>2. ASSUME NEW r \in Runs, Queues(r) \/ LeaseExpires(r) \/ BackoffElapses(r)
      PROVE  LifecycleSound'
  BY <1>2, SafeQueue, SafeTime DEF SafeDeployment
<1>3. ASSUME NEW w \in Workers, NobodyElseSweeps(w), WorkerStep(w)
      PROVE  LifecycleSound'
  <2>1. CASE SweepRead(w) \/ SweepCommit(w)
    BY <1>3, <2>1, SafeSweep
  <2>2. ASSUME NEW r \in Runs, Claim(w, r) PROVE LifecycleSound'
    BY <1>3, <2>2, SafeClaim
  <2>3. CASE Heartbeat(w) \/ MarkValidating(w)
    BY <1>1, <1>3, <2>3, SafeMark
  <2>4. CASE RefreshLease(w)
    BY <2>4, HeldRun DEF RefreshLease
  <2>5. CASE BeginPersist(w) \/ ValidationPasses(w) \/ StageFails(w)
    BY <1>1, <1>3, <2>5, SafeLoad
  <2>6. CASE PersistRun(w)
    BY <1>1, <1>3, <2>6, SafePersist
  <2>7. CASE Promote(w)
    BY <1>1, <1>3, <2>7, SafePromote
  <2>8. CASE Evaluate(w)
    BY <1>3, <2>8, SafeQuiet
  <2>9. CASE FinalizeFailure(w)
    BY <1>1, <1>3, <2>9, SafeFailure
  <2> QED BY <1>3, <2>1, <2>2, <2>3, <2>4, <2>5, <2>6, <2>7, <2>8, <2>9 DEF WorkerStep
<1>3u. ASSUME NEW u \in Uploads, (\E d \in Documents : FindDocument(u, d)) \/ EndUpload(u)
       PROVE  UNCHANGED <<database, pc, session>>
  BY <1>3u DEF FindDocument, EndUpload
<1>4. ASSUME NEW w \in Workers, Crash(w) \/ Restart(w)
      PROVE  LifecycleSound'
  BY <1>4, SafeQuiet
<1>5. CASE UNCHANGED <<database, pc, session>>
  <2> USE <1>5 DEF database, session
  <2>1. \A w \in Workers : LeaseHeld(w)' /\ SweepSound(w)' /\ ViewCurrent(w)'
    BY DEF IInv, SafetyInv, LifecycleSound, LeaseHeld, SweepSound, ViewCurrent, NobodyElseSweeps, Stale
  <2>2. (\A r \in Runs : RowSound(r)' /\ LatestSound(r)') /\ ActiveRunIsPublished'
    BY DEF IInv, SafetyInv, LifecycleSound, RowSound, LatestSound, ActiveRunIsPublished, Active
  <2> QED BY <2>1, <2>2 DEF LifecycleSound
<1> QED BY <1>2, <1>3, <1>3u, <1>4, <1>5
        DEF Next, UploadStep, Queues, SafeDeployment, vars

(* In a safe deployment the inductive invariant holds of every reachable   *)
(* state.                                                                  *)
LEMMA Inductive ==
    ASSUME SafeDeployment PROVE Spec => []IInv
<1>1. IInv /\ [Next]_vars => IInv'
  BY SafeStep
<1> QED BY <1>1, SafeInit, PTL DEF Spec

(* Whatever the workers do, crash or lose, a worker inside process_run owns *)
(* the row it writes, and the rows, sessions and documents stay coherent.  *)
THEOREM SafetyCorrect ==
    ASSUME SafeDeployment PROVE Spec => []SafetyInv
<1>1. IInv => SafetyInv
  BY DEF IInv
<1> QED BY <1>1, Inductive, PTL

-------------------------------------------------------------------------------
(* Safety                                                                  *)

(* What is served is a run of the document that completed and passed its   *)
(* validation, for any number of workers, crashes, retries and sweeps.     *)
THEOREM ActiveRunCorrect ==
    ASSUME SafeDeployment PROVE Spec => []ActiveRunIsPublished
<1>1. IInv => ActiveRunIsPublished
  BY DEF IInv, SafetyInv, LifecycleSound
<1> QED BY <1>1, Inductive, PTL

(* Two workers never process the same run.                                 *)
THEOREM LeaseExclusive ==
    ASSUME SafeDeployment PROVE Spec => []OneWorkerPerRun
<1>1. IInv => OneWorkerPerRun
  BY HeldRun DEF OneWorkerPerRun, Holds
<1> QED BY <1>1, Inductive, PTL

(* The limit on attempts is kept by both ways an attempt can end.          *)
THEOREM AttemptsCorrect ==
    ASSUME SafeDeployment PROVE Spec => []AttemptsBounded
<1>1. IInv => AttemptsBounded
  BY DEF IInv, SafetyInv, LifecycleSound, RowSound, AttemptsBounded
<1> QED BY <1>1, Inductive, PTL

(* Every run in progress can be found by the sweep once its worker is gone. *)
THEOREM RecoveryPossible ==
    ASSUME SafeDeployment PROVE Spec => []Recoverable
<1>1. IInv => Recoverable
  BY DEF IInv, SafetyInv, LifecycleSound, RowSound, Recoverable
<1> QED BY <1>1, Inductive, PTL

(* A document never has two runs in flight.                                *)
THEOREM OneInflight ==
    ASSUME SafeDeployment PROVE Spec => []OneInflightRunPerDocument
<1>1. IInv => OneInflightRunPerDocument
  BY DEF IInv, SafetyInv, LifecycleSound, LatestSound, OneInflightRunPerDocument
<1> QED BY <1>1, Inductive, PTL

-------------------------------------------------------------------------------
(* What a step does to the served corpus                                   *)

(* Only a promotion changes what a document serves.                        *)
LEMMA OnlyPromoteServes ==
    ASSUME SafeDeployment, IInv, [Next]_vars, \A w \in Workers : ~Promote(w)
    PROVE  \A d \in Documents : Active(d)' = Active(d)
<1>1. ASSUME NEW r \in Runs, Queues(r) \/ LeaseExpires(r) \/ BackoffElapses(r)
      PROVE  \A d \in Documents : Active(d)' = Active(d)
  <2>1. CASE LeaseExpires(r) \/ BackoffElapses(r)
    BY <2>1 DEF LeaseExpires, BackoffElapses, Active
  <2>2. CASE Queues(r)
    <3>1. documents' = [documents EXCEPT ![DocumentOf[r]].latest_run_id = r]
      BY <2>2, QueuesQueue DEF Queue
    <3>2. documents \in [Documents -> DocumentRow]
      BY DEF IInv, TypeInv, TypeOK
    <3> QED BY <3>1, <3>2 DEF Active, DocumentRow
  <2> QED BY <1>1, <2>1, <2>2
<1>2. ASSUME NEW w \in Workers, WorkerStep(w)
      PROVE  documents' = documents
  <2>1. CASE PersistRun(w)
    BY <2>1, PersistEffect
  <2> QED BY <1>2, <2>1 DEF WorkerStep, SweepRead, SweepCommit, Claim, Heartbeat,
          RefreshLease, BeginPersist, MarkValidating, ValidationPasses, Evaluate,
          StageFails, FinalizeFailure, database
<1>3. ASSUME NEW w \in Workers, Crash(w) \/ Restart(w)
      PROVE  documents' = documents
  BY <1>3 DEF Crash, Restart, database
<1>4. ASSUME NEW u \in Uploads, (\E d \in Documents : FindDocument(u, d)) \/ EndUpload(u)
      PROVE  documents' = documents
  BY <1>4 DEF FindDocument, EndUpload, database
<1>5. ASSUME UNCHANGED vars
      PROVE  documents' = documents
  BY <1>5 DEF vars, database
<1>6. \/ \E r \in Runs : Queues(r) \/ LeaseExpires(r) \/ BackoffElapses(r)
      \/ \E w \in Workers : WorkerStep(w)
      \/ \E w \in Workers : Crash(w) \/ Restart(w)
      \/ \E u \in Uploads : (\E d \in Documents : FindDocument(u, d)) \/ EndUpload(u)
      \/ UNCHANGED vars
  BY DEF Next, UploadStep, Queues
<1>7. documents' = documents => \A d \in Documents : Active(d)' = Active(d)
  BY DEF Active
<1> QED BY <1>1, <1>2, <1>3, <1>4, <1>5, <1>6, <1>7

(* The rows of a served run are never written.                             *)
LEMMA ServedRowsKept ==
    ASSUME SafeDeployment, IInv, [Next]_vars, NEW d \in Documents, Active(d) # None
    PROVE  corpus'[Active(d)] = corpus[Active(d)]
<1>1. ASSUME NEW w \in Workers, pc[w] \in Working
      PROVE  Active(d) # job[w] /\ job[w] \in Runs
  BY <1>1, HeldRun
<1>2. Active(d) \in Runs
  BY ActiveType DEF IInv, TypeInv
<1>3. ASSUME NEW w \in Workers, WorkerStep(w)
      PROVE  corpus'[Active(d)] = corpus[Active(d)]
  <2>1. CASE PersistRun(w) \/ Promote(w) \/ FinalizeFailure(w)
    <3>1. pc[w] \in Working
      BY <2>1 DEF PersistRun, Promote, FinalizeFailure, Working
    <3> QED BY <1>1, <1>2, <2>1, <3>1
            DEF PersistRun, Promote, FinalizeFailure, IInv, TypeInv, TypeOK
  <2> QED BY <1>3, <2>1 DEF WorkerStep, SweepRead, SweepCommit, Claim, Heartbeat,
          RefreshLease, BeginPersist, MarkValidating, ValidationPasses, Evaluate,
          StageFails, database
<1>4. ASSUME NEW r \in Runs, Queues(r) \/ LeaseExpires(r) \/ BackoffElapses(r)
      PROVE  corpus' = corpus
  BY <1>4, QueuesQueue DEF Queue, LeaseExpires, BackoffElapses
<1>4u. ASSUME NEW u \in Uploads, (\E e \in Documents : FindDocument(u, e)) \/ EndUpload(u)
       PROVE  corpus' = corpus
  BY <1>4u DEF FindDocument, EndUpload, database
<1>5. ASSUME NEW w \in Workers, Crash(w) \/ Restart(w)
      PROVE  corpus' = corpus
  BY <1>5 DEF Crash, Restart, database
<1>6. CASE UNCHANGED vars
  BY <1>6 DEF vars, database
<1> QED BY <1>3, <1>4, <1>4u, <1>5, <1>6 DEF Next, UploadStep, Queues

(* A promotion serves a run that is newer than the served one.             *)
LEMMA PromoteServesNewer ==
    ASSUME IInv, NEW w \in Workers, Promote(w)
    PROVE  /\ job[w] \in Runs /\ DocumentOf[job[w]] \in Documents
           /\ Active(DocumentOf[job[w]])' = job[w]
           /\ \A d \in Documents \ {DocumentOf[job[w]]} : Active(d)' = Active(d)
           /\ Active(DocumentOf[job[w]]) # None => Active(DocumentOf[job[w]]) < job[w]
<1> DEFINE r == job[w]
           d == DocumentOf[r]
<1>1. /\ r \in Runs /\ d \in Documents /\ documents[d].latest_run_id = r
      /\ \A e \in Documents : Active(e) # r
  <2>1. pc[w] \in Working
    BY DEF Promote, Working
  <2> QED BY <2>1, HeldRun
<1>2. documents' = [documents EXCEPT ![d] = [active_run_id |-> r, latest_run_id |-> r]]
  BY PromoteEffect
<1>3. /\ Active(d)' = r
      /\ \A e \in Documents \ {d} : Active(e)' = Active(e)
  BY <1>1, <1>2 DEF Promote, Active, IInv, TypeInv, TypeOK
<1>4. ASSUME Active(d) # None PROVE Active(d) < r
  <2>1. Active(d) \in Runs /\ Active(d) \in Nat /\ r \in Nat
    BY <1>1, <1>4, ActiveType, RunsAssumption DEF IInv, TypeInv
  <2>2. DocumentOf[Active(d)] = d /\ runs[Active(d)].status = "completed"
    BY <1>1, <1>4 DEF IInv, SafetyInv, LifecycleSound, ActiveRunIsPublished
  <2>3. LatestSound(Active(d))
    BY <2>1 DEF IInv, SafetyInv, LifecycleSound
  <2> QED BY <1>1, <2>1, <2>2, <2>3 DEF LatestSound
<1>5. Active(DocumentOf[job[w]])' = job[w]
  BY <1>3 DEF Promote
<1> QED BY <1>1, <1>3, <1>4, <1>5

(* No failed, lost or unpromoted attempt touches the corpus a document     *)
(* serves.                                                                 *)
THEOREM ServedCorpusCorrect ==
    ASSUME SafeDeployment PROVE Spec => ServedCorpusOnlyReplaced
<1>1. IInv /\ [Next]_vars =>
        [\A d \in Documents :
           /\ Active(d) # None
           /\ Active(d)' = Active(d)
           => corpus'[Active(d)] = corpus[Active(d)]]_vars
  BY ServedRowsKept
<1> QED BY <1>1, Inductive, PTL DEF Spec, ServedCorpusOnlyReplaced

(* A document never goes back to an older run, nor to none.                *)
THEOREM NewerCorrect ==
    ASSUME SafeDeployment PROVE Spec => NeverServesOlderRun
<1>1. ASSUME IInv, [Next]_vars, NEW d \in Documents, Active(d) # None
      PROVE  Active(d)' \in Runs /\ Active(d)' >= Active(d)
  <2>1. Active(d) \in Runs
    BY <1>1, ActiveType DEF IInv, TypeInv
  <2>2. Active(d)' = Active(d) \/ (Active(d)' \in Runs /\ Active(d) < Active(d)')
    <3>1. CASE \A w \in Workers : ~Promote(w)
      BY <1>1, <3>1, OnlyPromoteServes DEF Active
    <3>2. ASSUME NEW w \in Workers, Promote(w)
          PROVE  Active(d)' = Active(d) \/ (Active(d)' \in Runs /\ Active(d) < Active(d)')
      <4>1. /\ job[w] \in Runs
            /\ Active(DocumentOf[job[w]])' = job[w]
            /\ \A e \in Documents \ {DocumentOf[job[w]]} : Active(e)' = Active(e)
            /\ Active(DocumentOf[job[w]]) # None => Active(DocumentOf[job[w]]) < job[w]
        BY <1>1, <3>2, PromoteServesNewer DEF Active
      <4>2. CASE d = DocumentOf[job[w]]
        <5>1. Active(d)' = job[w]
          BY <3>2, <4>1, <4>2 DEF Active, Promote
        <5>2. Active(d) < job[w]
          BY <1>1, <4>1, <4>2
        <5> QED BY <4>1, <5>1, <5>2
      <4>3. CASE d # DocumentOf[job[w]]
        BY <1>1, <4>1, <4>3 DEF Active
      <4> QED BY <4>2, <4>3
    <3> QED BY <3>1, <3>2
  <2>3. ASSUME NEW old \in Runs, NEW new, new = old \/ (new \in Runs /\ old < new)
        PROVE  new \in Runs /\ new >= old
    <3>1. old \in Nat /\ (new \in Runs => new \in Nat)
      BY RunsAssumption
    <3> QED BY <2>3, <3>1
  <2> QED BY <2>1, <2>2, <2>3
<1>2. IInv /\ [Next]_vars =>
        [\A d \in Documents :
           Active(d) # None => Active(d)' \in Runs /\ Active(d)' >= Active(d)]_vars
  BY <1>1
<1> QED BY <1>2, Inductive, PTL DEF Spec, NeverServesOlderRun

-------------------------------------------------------------------------------
(* Refinement                                                              *)

Outcomes == [r \in Runs |-> Outcome(r)]
Served == [d \in Documents |-> Active(d)]
Publication == [d \in Documents |-> IF Active(d) = None THEN None ELSE corpus[Active(d)]]

LEMMA OutcomeValue ==
    ASSUME NEW r \in Runs, runs[r].status \in Statuses
    PROVE  /\ Outcome(r) = "absent" <=> runs[r].status = "absent"
           /\ Outcome(r) = "pending" <=> runs[r].status \in Inflight
           /\ Outcome(r) = "succeeded" <=> runs[r].status = "completed"
           /\ Outcome(r) = "failed" <=> runs[r].status = "failed"
           /\ Outcome(r) \in {"absent", "pending", "succeeded", "failed"}
BY DEF Outcome, Statuses, Inflight, InProgress

LEMMA OutcomeType ==
    ASSUME TypeOK
    PROVE  \A r \in Runs : runs[r].status \in Statuses
BY DEF TypeOK, RunRow

(* Steps that change neither what runs come to nor what is served.         *)
LEMMA OutcomeKept ==
    ASSUME IInv, IInv', NEW r \in Runs,
           \/ runs'[r].status = runs[r].status
           \/ runs[r].status \in Inflight /\ runs'[r].status \in Inflight
    PROVE  Outcome(r)' = Outcome(r)
<1>1. runs[r].status \in Statuses /\ runs'[r].status \in Statuses
  BY DEF IInv, TypeInv, TypeOK, RunRow
<1> QED BY <1>1, InProgressStatuses DEF Outcome, Statuses

LEMMA PublicationKept ==
    ASSUME SafeDeployment, IInv, [Next]_vars, NEW d \in Documents, Active(d)' = Active(d)
    PROVE  Publication'[d] = Publication[d]
BY ServedRowsKept DEF Publication

LEMMA Stutters ==
    ASSUME SafeDeployment, IInv, IInv', [Next]_vars,
           \A w \in Workers : ~Promote(w),
           \A r \in Runs : Outcome(r)' = Outcome(r)
    PROVE  UNCHANGED Contract!vars
<1>1. \A d \in Documents : Active(d)' = Active(d)
  BY OnlyPromoteServes
<1>2. \A d \in Documents : Publication'[d] = Publication[d]
  BY <1>1, PublicationKept
<1>3. Outcomes' = Outcomes /\ Served' = Served /\ Publication' = Publication
  BY <1>1, <1>2 DEF Outcomes, Served, Publication
<1> QED BY <1>3 DEF Contract!vars, Outcomes, Served, Publication

(* Steps that fail some runs are one step of the contract: none of them    *)
(* was served.                                                             *)
LEMMA Fails ==
    ASSUME SafeDeployment, IInv, IInv', [Next]_vars,
           \A w \in Workers : ~Promote(w),
           \A r \in Runs : \/ Outcome(r)' = Outcome(r)
                           \/ Outcome(r) = "pending" /\ Outcome(r)' = "failed"
    PROVE  Contract!Next
<1> DEFINE rs == {r \in Runs : Outcome(r) = "pending" /\ Outcome(r)' = "failed"}
<1>1. \A d \in Documents : Active(d)' = Active(d)
  BY OnlyPromoteServes
<1>2. \A d \in Documents : Publication'[d] = Publication[d]
  BY <1>1, PublicationKept
<1>3. Served' = Served /\ Publication' = Publication
  BY <1>1, <1>2 DEF Served, Publication
<1>4. Outcomes' = [r \in Runs |-> IF r \in rs THEN "failed" ELSE Outcomes[r]]
  BY DEF Outcomes
<1>5. \A r \in rs : Outcomes[r] = "pending"
  BY DEF Outcomes
<1>6. Contract!Fail(rs)
  BY <1>3, <1>4, <1>5 DEF Contract!Fail, Outcomes, Served, Publication
<1>7. rs \in SUBSET Runs
  OBVIOUS
<1> QED BY <1>6, <1>7 DEF Contract!Next

LEMMA QueueImplements ==
    ASSUME SafeDeployment, IInv, IInv', [Next]_vars, NEW r \in Runs, Queues(r)
    PROVE  Contract!Submit(r)
<1>0. Queue(r)
  BY QueuesQueue
<1>1. /\ runs[r].status = "absent" /\ runs'[r].status = "queued"
      /\ \A s \in Runs \ {r} : runs'[s] = runs[s]
  BY <1>0 DEF Queue, SetRun, absentRun, IInv, TypeInv, TypeOK
<1>2. Outcome(r) = "absent" /\ Outcome(r)' = "pending"
  BY <1>1, InProgressStatuses DEF Outcome
<1>3. \A s \in Runs \ {r} : Outcome(s)' = Outcome(s)
  BY <1>1 DEF Outcome
<1>4. ASSUME NEW s \in Runs, DocumentOf[s] = DocumentOf[r] PROVE Outcome(s) # "pending"
  <2>1. runs[s].status \in Inflight => documents[DocumentOf[r]].latest_run_id = s
    BY <1>4 DEF IInv, SafetyInv, LifecycleSound, LatestSound
  <2>2. runs[s].status \notin Inflight
    BY <2>1, NoneAssumption, QueuesSound DEF MayQueue
  <2> QED BY <2>2, OutcomeValue, OutcomeType DEF IInv, TypeInv
<1>5. \A w \in Workers : ~Promote(w)
  <2>1. ASSUME NEW w \in Workers, Promote(w) PROVE FALSE
    BY <1>0, <2>1 DEF Promote, Queue, Goto, IInv, TypeInv, TypeOK
  <2> QED BY <2>1
<1>6. \A d \in Documents : Active(d)' = Active(d)
  BY <1>5, OnlyPromoteServes
<1>7. \A d \in Documents : Publication'[d] = Publication[d]
  BY <1>6, PublicationKept
<1>8. Served' = Served /\ Publication' = Publication
  BY <1>6, <1>7 DEF Served, Publication
<1>9. /\ Outcomes' = [Outcomes EXCEPT ![r] = "pending"]
      /\ Outcomes[r] = "absent"
      /\ \A s \in Runs : DocumentOf[s] = DocumentOf[r] => Outcomes[s] # "pending"
  BY <1>2, <1>3, <1>4 DEF Outcomes
<1> QED BY <1>8, <1>9 DEF Contract!Submit, Outcomes, Served, Publication

LEMMA PromoteImplements ==
    ASSUME SafeDeployment, IInv, IInv', [Next]_vars, NEW w \in Workers, Promote(w)
    PROVE  \E r \in Runs : Contract!Succeed(r)
<1>1. PICK r \in Runs : r = job[w]
  BY PromoteServesNewer
<1> DEFINE d == DocumentOf[r]
<1>2. /\ d \in Documents
      /\ Active(d)' = r
      /\ \A e \in Documents \ {d} : Active(e)' = Active(e)
      /\ Active(d) # None => Active(d) < r
  BY <1>1, PromoteServesNewer DEF Promote, Active
<1>3. PICK row \in RunRow : row.status = "completed" /\ runs' = [runs EXCEPT ![r] = row]
  BY <1>1, PromoteEffect
<1>4. /\ runs'[r].status = "completed" /\ runs[r].status \in Inflight
      /\ \A s \in Runs \ {r} : runs'[s] = runs[s]
  <2>1. pc[w] \in Working
    BY DEF Promote, Working
  <2> QED BY <1>1, <1>3, <2>1, HeldRun, InProgressStatuses DEF IInv, TypeInv, TypeOK
<1>5. /\ Outcomes[r] = "pending"
      /\ Outcomes' = [Outcomes EXCEPT ![r] = "succeeded"]
  <2>1. Outcome(r) = "pending"
    BY <1>4, OutcomeValue, OutcomeType DEF IInv, TypeInv
  <2>2. Outcome(r)' = "succeeded"
    BY <1>4, InProgressStatuses DEF Outcome
  <2>3. \A s \in Runs \ {r} : Outcome(s)' = Outcome(s)
    BY <1>4 DEF Outcome
  <2> QED BY <2>1, <2>2, <2>3 DEF Outcomes
<1>6. /\ Served' = [Served EXCEPT ![d] = r]
      /\ Served[d] # None => Served[d] < r
  BY <1>2 DEF Served
<1>7. Publication' = [Publication EXCEPT ![d] = Publication'[d]]
  <2>1. \A e \in Documents \ {d} : Publication'[e] = Publication[e]
    BY <1>2, PublicationKept
  <2>2. /\ Publication = [e \in Documents |-> Publication[e]]
        /\ Publication' = [e \in Documents |-> Publication'[e]]
    BY DEF Publication
  <2> QED BY <1>2, <2>1, <2>2
<1>8. Contract!Succeed(r)
  BY <1>5, <1>6, <1>7 DEF Contract!Succeed, Outcomes, Served, Publication
<1> QED BY <1>8

(* What a worker or the passing of time does to the outcome of runs.       *)
LEMMA OnlyEndsFail ==
    ASSUME SafeDeployment, IInv, IInv', [Next]_vars,
           \A w \in Workers : ~Promote(w), \A r \in Runs : ~Queues(r)
    PROVE  \A r \in Runs : \/ Outcome(r)' = Outcome(r)
                           \/ Outcome(r) = "pending" /\ Outcome(r)' = "failed"
<1> SUFFICES ASSUME NEW r \in Runs
             PROVE  \/ Outcome(r)' = Outcome(r)
                    \/ Outcome(r) = "pending" /\ Outcome(r)' = "failed"
  OBVIOUS
<1>1. ASSUME NEW s \in Runs, LeaseExpires(s) \/ BackoffElapses(s)
      PROVE  runs'[r].status = runs[r].status
  <2>1. runs \in [Runs -> RunRow] /\ runs[s] \in RunRow
    BY DEF IInv, TypeInv, TypeOK
  <2>2. PICK row : runs' = [runs EXCEPT ![s] = row] /\ row.status = runs[s].status
    BY <1>1, <2>1 DEF LeaseExpires, BackoffElapses, SetRun, RunRow
  <2> QED BY <2>1, <2>2
<1>2. ASSUME NEW w \in Workers, SweepCommit(w), NobodyElseSweeps(w)
      PROVE  \/ runs'[r].status = runs[r].status
             \/ /\ runs[r].status \in Inflight
                /\ runs'[r].status \in Inflight \cup {"failed"}
  <2>1. CASE loaded[w][r] = None
    BY <1>2, <2>1 DEF SweepCommit
  <2>2. CASE loaded[w][r] # None
    <3>1. Stale(r) /\ loaded[w][r] = runs[r] /\ runs[r] \in RunRow
      BY <1>2, <2>2 DEF SweepCommit, IInv, TypeInv, TypeOK, SafetyInv, LifecycleSound, SweepSound
    <3>2. runs'[r] = Requeued(runs[r], runs[r])
      BY <1>2, <2>2, <3>1 DEF SweepCommit
    <3> QED BY <3>1, <3>2, RequeuedOwn, InProgressStatuses DEF Stale
  <2> QED BY <2>1, <2>2
<1>3. ASSUME NEW w \in Workers, FinalizeFailure(w)
      PROVE  \/ runs'[r].status = runs[r].status
             \/ /\ runs[r].status \in Inflight
                /\ runs'[r].status \in Inflight \cup {"failed"}
  <2>1. /\ job[w] \in Runs /\ runs[job[w]] \in RunRow
        /\ runs[job[w]].status \in InProgress
        /\ loaded[w][job[w]] = runs[job[w]] /\ error[w] \in Failures
    <3>1. pc[w] \in Working /\ pc[w] = "failing"
      BY <1>3 DEF FinalizeFailure, Working
    <3> QED BY <3>1, HeldRun DEF IInv, SafetyInv, LifecycleSound, ViewCurrent, TypeInv, SessionOK
  <2>2. CASE r = job[w]
    <3>1. runs'[r] = Failed(runs[r], runs[r], error[w])
      BY <1>3, <2>1, <2>2 DEF FinalizeFailure, SetRun, IInv, TypeInv, TypeOK
    <3> QED BY <2>1, <2>2, <3>1, FailedOwn, InProgressStatuses
  <2>3. CASE r # job[w]
    BY <1>3, <2>1, <2>3 DEF FinalizeFailure, SetRun, IInv, TypeInv, TypeOK
  <2> QED BY <2>2, <2>3
<1>4. ASSUME NEW w \in Workers, NEW s \in Runs, Claim(w, s)
      PROVE  \/ runs'[r].status = runs[r].status
             \/ runs[r].status \in Inflight /\ runs'[r].status \in Inflight
  BY <1>4, InProgressStatuses
  DEF Claim, Claimable, Claimed, SetRun, IInv, TypeInv, TypeOK, RunRow
<1>5. ASSUME NEW w \in Workers, Heartbeat(w) \/ RefreshLease(w) \/ MarkValidating(w)
      PROVE  \/ runs'[r].status = runs[r].status
             \/ runs[r].status \in Inflight /\ runs'[r].status \in Inflight
  <2>1. pc[w] \in Working
    BY <1>5 DEF Heartbeat, RefreshLease, MarkValidating, Working
  <2>2. job[w] \in Runs /\ runs[job[w]] \in RunRow /\ runs[job[w]].status \in Inflight
    BY <2>1, HeldRun, InProgressStatuses
  <2>3. PICK row : /\ runs' = [runs EXCEPT ![job[w]] = row]
                   /\ row.status \in {runs[job[w]].status, "validating"}
    BY <1>5, <2>2 DEF Heartbeat, RefreshLease, MarkValidating, Validating, SetRun, RunRow
  <2> QED BY <2>2, <2>3, InProgressStatuses DEF IInv, TypeInv, TypeOK
<1>6. ASSUME NEW w \in Workers, PersistRun(w)
      PROVE  runs'[r].status = runs[r].status
  <2>1. job[w] \in Runs
    BY <1>6, HeldRun DEF PersistRun, Working
  <2>2. PICK row \in RunRow : /\ row.status = runs[job[w]].status
                              /\ runs' = [runs EXCEPT ![job[w]] = row]
    BY <1>6, PersistEffect
  <2> QED BY <2>1, <2>2 DEF IInv, TypeInv, TypeOK
<1>7. ASSUME NEW w \in Workers,
             \/ SweepRead(w) \/ BeginPersist(w) \/ ValidationPasses(w)
             \/ Evaluate(w) \/ StageFails(w) \/ Crash(w) \/ Restart(w)
      PROVE  runs' = runs
  BY <1>7 DEF SweepRead, BeginPersist, ValidationPasses, Evaluate, StageFails,
              Crash, Restart, database
<1>8. ASSUME \/ UNCHANGED vars
             \/ \E u \in Uploads : (\E d \in Documents : FindDocument(u, d)) \/ EndUpload(u)
      PROVE  runs' = runs
  BY <1>8 DEF vars, database, FindDocument, EndUpload
<1>9. \/ runs'[r].status = runs[r].status
      \/ runs[r].status \in Inflight /\ runs'[r].status \in Inflight \cup {"failed"}
  BY <1>1, <1>2, <1>3, <1>4, <1>5, <1>6, <1>7, <1>8
  DEF Next, UploadStep, Queues, WorkerStep, SafeDeployment
<1>10. CASE \/ runs'[r].status = runs[r].status
            \/ runs[r].status \in Inflight /\ runs'[r].status \in Inflight
  BY <1>10, OutcomeKept
<1>11. CASE runs[r].status \in Inflight /\ runs'[r].status = "failed"
  <2>1. Outcome(r) = "pending"
    BY <1>11, OutcomeValue, OutcomeType DEF IInv, TypeInv
  <2>2. Outcome(r)' = "failed"
    BY <1>11, InProgressStatuses DEF Outcome
  <2> QED BY <2>1, <2>2
<1> QED BY <1>9, <1>10, <1>11

(* Workers, leases, sweeps, retries and crashes together behave as the     *)
(* contract says.                                                          *)
THEOREM ContractCorrect ==
    ASSUME SafeDeployment PROVE Spec => ImplementsContract
<1>1. Init => Contract!Init
  <2> SUFFICES ASSUME Init PROVE Contract!Init
    OBVIOUS
  <2>1. \A r \in Runs : Outcome(r) = "absent"
    <3>1. \A r \in Runs : runs[r].status = "absent"
      BY DEF Init, absentRun
    <3> QED BY <3>1, InProgressStatuses DEF Outcome
  <2>2. \A d \in Documents : Active(d) = None
    BY DEF Init, Active
  <2> QED BY <2>1, <2>2 DEF Contract!Init
<1>2. IInv /\ IInv' /\ [Next]_vars => [Contract!Next]_(Contract!vars)
  <2> SUFFICES ASSUME IInv, IInv', [Next]_vars
               PROVE  [Contract!Next]_(Contract!vars)
    OBVIOUS
  <2>1. CASE \E r \in Runs : Queues(r)
    BY <2>1, QueueImplements DEF Contract!Next
  <2>2. CASE \E w \in Workers : Promote(w)
    BY <2>2, PromoteImplements DEF Contract!Next
  <2>3. CASE (\A r \in Runs : ~Queues(r)) /\ (\A w \in Workers : ~Promote(w))
    <3>1. \A r \in Runs : \/ Outcome(r)' = Outcome(r)
                          \/ Outcome(r) = "pending" /\ Outcome(r)' = "failed"
      BY <2>3, OnlyEndsFail
    <3> QED BY <2>3, <3>1, Fails
  <2> QED BY <2>1, <2>2, <2>3
<1> QED BY <1>1, <1>2, Inductive, PTL DEF Spec, ImplementsContract, Contract!Spec

LEMMA ContractConstants == Contract!ConstantsSound
BY RunsAssumption, DocumentOfAssumption, NoneAssumption DEF Contract!ConstantsSound

(* A document serves the newest of its completed runs, from the first one  *)
(* on: a promotion is neither lost nor outrun, and a failure hides nothing.*)
THEOREM NewestSuccessServed ==
    ASSUME SafeDeployment PROVE Spec => []Contract!ServesLastSuccess
BY ContractCorrect, ContractConstants, Contract!LastSuccessServed, PTL DEF ImplementsContract

(* A run that has completed or failed stays so: no sweep, retry or late    *)
(* worker takes it up again.                                               *)
THEOREM EndsStand ==
    ASSUME SafeDeployment PROVE Spec => Contract!OutcomesStand
BY ContractCorrect, ContractConstants, Contract!OutcomesFinal, PTL DEF ImplementsContract

===============================================================================
