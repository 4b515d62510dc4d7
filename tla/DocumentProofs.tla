---------------------------- MODULE DocumentProofs ----------------------------
(***************************************************************************)
(* Requests, the worker and the cleanup command of DocumentCleanup, for    *)
(* any documents, runs, requests and keys.  With what RequestProofs shows  *)
(* of requests and the worker, the invariants of DocumentInvariant are     *)
(* kept, conjunct by conjunct: BaseInv in any deployment, StoreInv where a *)
(* document is locked as it was read and a pass deletes files and rows     *)
(* undisturbed, IngestInv where a request is not repeated while it is      *)
(* under way.  That the first of these conditions is needed is what the    *)
(* run ingest_recovery_race shows.                                         *)
(***************************************************************************)
EXTENDS DocumentInvariant, RequestProofs

-------------------------------------------------------------------------------
(* The steps of the cleanup, and the end of a run                          *)

EndStep == \E r \in Runs : RunSucceeds(r) \/ RunFails(r) \/ Expire(r)

LEMMA EndEffect ==
    ASSUME DatabaseType, NEW r \in Runs, RunSucceeds(r) \/ RunFails(r) \/ Expire(r)
    PROVE  /\ UNCHANGED <<sources, responses, origin, pc, session>>
           /\ runs[r] \in {"inflight", "failed"}
           /\ runs'[r] \in {"completed", "failed", "expired"}
           /\ \A s \in Runs \ {r} : runs'[s] = runs[s]
           /\ runs' \in [Runs -> RunStatuses]
<1>1. \/ runs' = [runs EXCEPT ![r] = "completed"] \/ runs' = [runs EXCEPT ![r] = "failed"]
      \/ runs' = [runs EXCEPT ![r] = "expired"]
  BY DEF RunSucceeds, RunFails, Expire
<1>2. /\ runs[r] \in {"inflight", "failed"}
      /\ UNCHANGED <<sources, responses, origin, pc, session>>
  BY DEF RunSucceeds, RunFails, Expire, InFlight
<1> QED BY <1>1, <1>2 DEF DatabaseType, RunStatuses

LEMMA ExpireInv ==
    ASSUME TypeOK, RequestInv, NEW r \in Runs, Expire(r)
    PROVE  TypeOK' /\ RequestInv'
<1>1. SessionType /\ DatabaseType
  BY TypeParts
<1>2. /\ UNCHANGED <<documents, sources, responses, origin, pc, session>>
      /\ runs[r] = "failed" /\ runs'[r] = "expired"
      /\ \A s \in Runs \ {r} : runs'[s] = runs[s]
      /\ runs' \in [Runs -> RunStatuses]
  BY <1>1 DEF Expire, DatabaseType, RunStatuses
<1>3. DatabaseType' /\ RunsKept /\ \A s \in Runs : ~Exists(s) => runs'[s] = "absent"
  BY <1>1, <1>2 DEF DatabaseType, RunsKept, Exists
<1>4. NoOrphans'
  BY <1>2 DEF RequestInv, NoOrphans
<1>5. SessionType' /\ RequestInv'
  BY <1>1, <1>2, <1>3, <1>4, SessionsKept
<1> QED BY <1>3, <1>5 DEF TypeOK, SessionType, DatabaseType

LEMMA EndStepInv ==
    ASSUME TypeOK, RequestInv, EndStep
    PROVE  TypeOK' /\ RequestInv'
BY ExpireInv, WorkerStepInv DEF EndStep, WorkerStep

CleanupType ==
    /\ phase \in {"idle", "expired", "superseded"}
    /\ pending \subseteq Ids
    /\ view \in [Ids -> DocumentRow \cup {None}] \cup {None}
    /\ doomed \subseteq Ids \cup Runs

LEMMA CleanupTypeParts == CleanupTypeOK <=> TypeOK /\ CleanupType
BY DEF CleanupTypeOK, CleanupType

(* What a pass that deletes documents does to them.                        *)
LEMMA ExpiredEffect ==
    ASSUME DatabaseType, CommitExpired
    PROVE  /\ UNCHANGED <<sources, responses, origin, pc, session>>
           /\ DatabaseType' /\ phase' = "idle" /\ pending' = {} /\ view' = None /\ doomed' = {}
           /\ \A d \in Ids : documents'[d] = IF d \in doomed THEN None ELSE documents[d]
           /\ \A r \in Runs : runs'[r] = IF DocumentOf[r] \in doomed /\ runs[r] # "absent"
                                         THEN "purged" ELSE runs[r]
<1>1. UNCHANGED <<sources, responses, origin, pc, session>>
      /\ phase' = "idle" /\ pending' = {} /\ view' = None /\ doomed' = {}
  BY DEF CommitExpired, Finish
<1>2. documents' \in [Ids -> DocumentRow \cup {None}]
      /\ \A d \in Ids : documents'[d] = IF d \in doomed THEN None ELSE documents[d]
  BY DEF CommitExpired, DatabaseType
<1>3. runs' \in [Runs -> RunStatuses]
      /\ \A r \in Runs : runs'[r] = IF DocumentOf[r] \in doomed /\ runs[r] # "absent"
                                    THEN "purged" ELSE runs[r]
  BY DEF CommitExpired, DatabaseType, RunStatuses
<1> QED BY <1>1, <1>2, <1>3 DEF DatabaseType

LEMMA UnlinkedRow ==
    ASSUME NEW row \in DocumentRow
    PROVE  LET new == [row EXCEPT !.active_run_id = Unlink(@), !.latest_run_id = Unlink(@)]
           IN  /\ new \in DocumentRow
               /\ row.active_run_id \notin doomed /\ row.latest_run_id \notin doomed => new = row
<1>1. \A r \in Runs \cup {None} : Unlink(r) \in Runs \cup {None} /\ (r \notin doomed => Unlink(r) = r)
  BY DEF Unlink
<1> QED BY <1>1 DEF DocumentRow

LEMMA SupersededEffect ==
    ASSUME DatabaseType, CommitSuperseded
    PROVE  /\ UNCHANGED <<sources, responses, origin, pc, session>>
           /\ DatabaseType' /\ phase' = "idle" /\ pending' = {} /\ view' = None /\ doomed' = {}
           /\ \A d \in Ids :
                /\ documents'[d] = None <=> documents[d] = None
                /\ documents[d] # None
                   /\ documents[d].active_run_id \notin doomed
                   /\ documents[d].latest_run_id \notin doomed
                     => documents'[d] = documents[d]
           /\ \A r \in Runs : runs'[r] = IF r \in doomed THEN "superseded" ELSE runs[r]
<1>1. UNCHANGED <<sources, responses, origin, pc, session>>
      /\ phase' = "idle" /\ pending' = {} /\ view' = None /\ doomed' = {}
  BY DEF CommitSuperseded, Finish
<1> DEFINE new(d) == [documents[d] EXCEPT !.active_run_id = Unlink(@), !.latest_run_id = Unlink(@)]
<1>2. documents' = [d \in Ids |-> IF documents[d] = None THEN None ELSE new(d)]
  BY DEF CommitSuperseded
<1>3. ASSUME NEW d \in Ids, documents[d] # None
      PROVE  /\ new(d) \in DocumentRow
             /\ documents[d].active_run_id \notin doomed
                /\ documents[d].latest_run_id \notin doomed => new(d) = documents[d]
  BY <1>3, UnlinkedRow DEF DatabaseType
<1> HIDE DEF new
<1>4. /\ documents' \in [Ids -> DocumentRow \cup {None}]
      /\ \A d \in Ids : documents'[d] = IF documents[d] = None THEN None ELSE new(d)
  BY <1>2, <1>3
<1>5. runs' \in [Runs -> RunStatuses]
      /\ \A r \in Runs : runs'[r] = IF r \in doomed THEN "superseded" ELSE runs[r]
  BY DEF CommitSuperseded, DatabaseType, RunStatuses
<1>6. DatabaseType'
  BY <1>1, <1>4, <1>5 DEF DatabaseType
<1>7. \A d \in Ids :
        /\ documents'[d] = None <=> documents[d] = None
        /\ documents[d] # None
           /\ documents[d].active_run_id \notin doomed
           /\ documents[d].latest_run_id \notin doomed
             => documents'[d] = documents[d]
  BY <1>3, <1>4, DocumentColumns
<1> QED BY <1>1, <1>5, <1>6, <1>7

(* The steps that only look, or delete files.                              *)
Looking ==
    \/ BeginExpired \/ BeginSuperseded \/ CleanupDies
    \/ \E d \in Ids : DoomDocument(d) \/ DoomRuns(d)

LEMMA LookingEffect ==
    ASSUME CleanupTypeOK, Looking
    PROVE  /\ CleanupTypeOK'
           /\ UNCHANGED <<documents, runs, responses, origin, pc, session>>
           /\ sources' \subseteq sources
<1>1. TypeOK /\ CleanupType
  BY CleanupTypeParts
<1>2. CASE BeginExpired
  <2>1. \A r \in Runs : DocumentOf[r] \in Ids
    BY DocumentOfIdAssumption
  <2>2. pending' \subseteq Ids
    BY <1>2, <2>1 DEF BeginExpired
  <2>3. UNCHANGED vars /\ phase' = "expired" /\ UNCHANGED <<view, doomed>>
    BY <1>2 DEF BeginExpired
  <2>4. TypeOK'
    BY <1>1, <2>3 DEF TypeOK, vars, database, session
  <2> QED BY <1>1, <2>2, <2>3, <2>4 DEF CleanupType, CleanupTypeOK, vars, database
<1>3. CASE BeginSuperseded
  <2>1. view' \in [Ids -> DocumentRow \cup {None}] /\ pending' \subseteq Ids
    BY <1>1, <1>3 DEF BeginSuperseded, TypeOK
  <2>2. UNCHANGED vars /\ phase' = "superseded" /\ UNCHANGED doomed
    BY <1>3 DEF BeginSuperseded
  <2>3. TypeOK'
    BY <1>1, <2>2 DEF TypeOK, vars, database, session
  <2> QED BY <1>1, <2>1, <2>2, <2>3 DEF CleanupType, CleanupTypeOK, vars, database
<1>4. CASE CleanupDies
  <2>1. UNCHANGED vars /\ CleanupType'
    BY <1>4 DEF CleanupDies, Finish, CleanupType
  <2>2. TypeOK'
    BY <1>1, <2>1 DEF TypeOK, vars, database, session
  <2> QED BY <2>1, <2>2 DEF CleanupType, CleanupTypeOK, vars, database
<1>5. ASSUME NEW d \in Ids, DoomDocument(d)
      PROVE  /\ CleanupTypeOK'
             /\ UNCHANGED <<documents, runs, responses, origin, pc, session>>
             /\ sources' \subseteq sources
  <2>1. /\ UNCHANGED <<documents, runs, responses, origin, pc, session, phase, view>>
        /\ sources' \subseteq sources /\ doomed' \subseteq doomed \cup {d} /\ pending' \subseteq pending
    BY <1>5 DEF DoomDocument
  <2>2. TypeOK'
    BY <1>1, <2>1 DEF TypeOK, session
  <2> QED BY <1>1, <2>1, <2>2 DEF CleanupType, CleanupTypeOK
<1>6. ASSUME NEW d \in Ids, DoomRuns(d)
      PROVE  /\ CleanupTypeOK'
             /\ UNCHANGED <<documents, runs, responses, origin, pc, session>>
             /\ sources' \subseteq sources
  <2>1. /\ UNCHANGED <<vars, phase, view>>
        /\ doomed' \subseteq doomed \cup Runs /\ pending' \subseteq pending
    BY <1>6 DEF DoomRuns, RunsOf
  <2>2. TypeOK'
    BY <1>1, <2>1 DEF TypeOK, vars, database, session
  <2> QED BY <1>1, <2>1, <2>2 DEF CleanupType, CleanupTypeOK, vars, database
<1> QED BY <1>2, <1>3, <1>4, <1>5, <1>6 DEF Looking

LEMMA CleanupStepInv ==
    ASSUME CleanupTypeOK, RequestInv, PassSound, CleanupStep
    PROVE  CleanupTypeOK' /\ RequestInv' /\ PassSound'
<1>1. SessionType /\ DatabaseType /\ CleanupType
  BY TypeParts, CleanupTypeParts
<1>2. CASE Looking
  <2>1. CleanupTypeOK' /\ UNCHANGED <<documents, runs, responses, origin, pc, session>>
    BY <1>2, LookingEffect
  <2>2. DatabaseType' /\ NoOrphans' /\ RunsKept
    BY <2>1 DEF CleanupTypeOK, TypeOK, DatabaseType, RequestInv, NoOrphans, RunsKept, Exists
  <2>3. RequestInv'
    BY <1>1, <2>1, <2>2, SessionsKept DEF Exists
  <2>4. PassSound'
    <3>1. CASE BeginExpired \/ BeginSuperseded \/ CleanupDies
      BY <2>1, <3>1 DEF BeginExpired, BeginSuperseded, CleanupDies, Finish, PassSound
    <3>2. ASSUME NEW d \in Ids, DoomDocument(d) PROVE PassSound'
      BY <2>1, <3>2 DEF DoomDocument, PassSound
    <3>3. ASSUME NEW d \in Ids, DoomRuns(d) PROVE PassSound'
      BY <2>1, <3>3 DEF DoomRuns, PassSound, RunsOf
    <3> QED BY <1>2, <3>1, <3>2, <3>3 DEF Looking
  <2> QED BY <2>1, <2>3, <2>4
<1>3. CASE CommitExpired
  <2>1. DatabaseType' /\ UNCHANGED <<pc, session>> /\ CleanupType'
    BY <1>1, <1>3, ExpiredEffect DEF CleanupType
  <2>2. NoOrphans' /\ RunsKept /\ \A r \in Runs : ~Exists(r) => runs'[r] = "absent"
    BY <1>1, <1>3, ExpiredEffect, DocumentOfIdAssumption DEF RequestInv, NoOrphans, RunsKept, Exists
  <2>3. SessionType' /\ RequestInv'
    BY <1>1, <2>1, <2>2, SessionsKept
  <2>4. PassSound'
    BY <1>1, <1>3, ExpiredEffect DEF PassSound
  <2> QED BY <2>1, <2>3, <2>4 DEF CleanupTypeOK, CleanupType, TypeOK, SessionType, DatabaseType
<1>4. CASE CommitSuperseded
  <2>1. DatabaseType' /\ UNCHANGED <<pc, session>> /\ CleanupType'
    BY <1>1, <1>4, SupersededEffect DEF CleanupType
  <2>2. \A r \in doomed : r \in Runs /\ runs[r] = "completed"
    BY <1>4 DEF CommitSuperseded, PassSound
  <2>3. NoOrphans' /\ RunsKept /\ \A r \in Runs : ~Exists(r) => runs'[r] = "absent"
    BY <1>1, <1>4, <2>2, SupersededEffect, DocumentOfIdAssumption
    DEF RequestInv, NoOrphans, RunsKept, Exists
  <2>4. SessionType' /\ RequestInv'
    BY <1>1, <2>1, <2>3, SessionsKept
  <2>5. PassSound'
    BY <1>1, <1>4, SupersededEffect DEF PassSound
  <2> QED BY <2>1, <2>4, <2>5 DEF CleanupTypeOK, CleanupType, TypeOK, SessionType, DatabaseType
<1> QED BY <1>2, <1>3, <1>4 DEF CleanupStep, Looking

LEMMA PassKept ==
    ASSUME PassSound, UNCHANGED cleanup,
           \A r \in Runs : runs[r] = "completed" => runs'[r] = "completed"
    PROVE  PassSound'
BY DEF PassSound, cleanup

LEMMA CleanupKinds ==
    ASSUME CleanupNext
    PROVE  \/ \E q \in Requests : RequestStep(q) /\ UNCHANGED cleanup
           \/ EndStep /\ UNCHANGED cleanup
           \/ CleanupStep
BY DEF CleanupNext, Next, RequestStep, WorkerStep, EndStep, Expire

LEMMA CleanupBaseNext ==
    ASSUME BaseInv, [CleanupNext]_allVars
    PROVE  BaseInv'
<1> USE DEF BaseInv
<1>0. TypeOK /\ CleanupType
  BY CleanupTypeParts
<1>1. ASSUME NEW q \in Requests, RequestStep(q), UNCHANGED cleanup
      PROVE  BaseInv'
  <2>1. TypeOK' /\ RequestInv'
    BY <1>0, <1>1, RequestStepType, RequestStepInv
  <2>2. PassSound'
    BY <1>0, <1>1, RequestKeepsRuns, PassKept DEF Exists
  <2> QED BY <1>0, <1>1, <2>1, <2>2 DEF CleanupTypeOK, CleanupType, cleanup
<1>2. ASSUME EndStep, UNCHANGED cleanup
      PROVE  BaseInv'
  <2>1. TypeOK' /\ RequestInv'
    BY <1>0, <1>2, EndStepInv
  <2>2. \A r \in Runs : runs[r] = "completed" => runs'[r] = "completed"
    BY <1>0, <1>2, EndEffect, TypeParts DEF EndStep
  <2> QED BY <1>0, <1>2, <2>1, <2>2, PassKept DEF CleanupTypeOK, CleanupType, cleanup
<1>3. CASE CleanupStep
  BY <1>3, CleanupStepInv
<1>4. CASE UNCHANGED allVars
  <2>1. UNCHANGED vars /\ UNCHANGED cleanup
    BY <1>4 DEF allVars, vars, database, session
  <2>2. TypeOK' /\ RequestInv'
    BY <1>0, <2>1, BaseStutter
  <2>3. PassSound'
    BY <2>1, PassKept DEF vars, database
  <2> QED BY <1>0, <2>1, <2>2, <2>3 DEF CleanupTypeOK, CleanupType, cleanup
<1> QED BY <1>1, <1>2, <1>3, <1>4, CleanupKinds

LEMMA CleanupBaseInit == CleanupInit => BaseInv
BY BaseInit DEF CleanupInit, BaseInv, CleanupTypeOK, PassSound

(* Every variable has its type, and there is a run id for whoever needs    *)
(* one, in any deployment.                                                 *)
THEOREM TypeCorrect == CleanupSpec => []CleanupTypeOK
<1>1. BaseInv => CleanupTypeOK
  BY DEF BaseInv
<1> QED BY <1>1, CleanupBaseInit, CleanupBaseNext, PTL DEF CleanupSpec

(* A cleanup pass makes no room for runs that it does not free.            *)
LEMMA CleanupCapacity ==
    ASSUME BaseInv, WithinCapacity, [CleanupNext]_allVars
    PROVE  WithinCapacity'
<1>0. TypeOK /\ SessionType /\ DatabaseType /\ RequestInv
  BY TypeParts, CleanupTypeParts DEF BaseInv
<1>1. ASSUME NEW q \in Requests, RequestStep(q)
      PROVE  WithinCapacity'
  BY <1>0, <1>1, CapacityRequest
<1> DEFINE Ends == /\ UNCHANGED <<origin, pc, session>> /\ RunsKept
                   /\ \A r \in Runs : runs'[r] = "inflight" => runs[r] = "inflight"
<1>2. ASSUME EndStep PROVE Ends
  BY <1>0, <1>2, EndEffect DEF EndStep, RunsKept, Exists
<1>3. ASSUME Looking \/ UNCHANGED allVars PROVE Ends
  BY <1>3, LookingEffect DEF BaseInv, RunsKept, Exists, allVars, vars, database
<1>4. CASE CommitExpired
  BY <1>0, <1>4, ExpiredEffect, CapacityKept DEF RunsKept, Exists
<1>5. CASE CommitSuperseded
  BY <1>0, <1>5, SupersededEffect, CapacityKept DEF RunsKept, Exists
<1> QED BY <1>0, <1>1, <1>2, <1>3, <1>4, <1>5, CapacityKept, CleanupKinds DEF CleanupStep, Looking

(* The limit on runs in flight holds beside the cleanup command too.       *)
THEOREM CleanupCapacityCorrect == CleanupSpec => []WithinCapacity
<1>1. CleanupInit => BaseInv /\ WithinCapacity
  BY CleanupBaseInit, CapacityInit DEF CleanupInit
<1>2. BaseInv /\ WithinCapacity /\ [CleanupNext]_allVars => (BaseInv /\ WithinCapacity)'
  BY CleanupBaseNext, CleanupCapacity
<1> QED BY <1>1, <1>2, PTL DEF CleanupSpec

-------------------------------------------------------------------------------
(* Documents: steps that queue nothing                                     *)

LEMMA OthersHold ==
    ASSUME SessionType, DocumentInv, NEW q \in Requests, OnlyFor(q), Modest(q),
           UNCHANGED <<documents, runs>>, SourcesKept(q), NEW p \in Requests \ {q}
    PROVE  ResolvingSound(p)' /\ InsertingSound(p)' /\ LockSound(p)'
<1>0. /\ pc'[p] = pc[p] /\ request'[p] = request[p] /\ loaded'[p] = loaded[p]
      /\ answer'[p] = answer[p]
      /\ \A x \in Requests \ {q} : pc'[x] = pc[x] /\ loaded'[x] = loaded[x]
  BY DEF OnlyFor
<1>1. ResolvingSound(p) /\ InsertingSound(p) /\ LockSound(p)
  BY DEF DocumentInv
<1>2. ResolvingSound(p)'
  BY <1>0, <1>1 DEF ResolvingSound
<1>3. ASSUME Inserting(p)
      PROVE  InsertingSound(p)'
  <2> DEFINE d == loaded[p].id
  <2>1. loaded[p] # None /\ documents[d] = None /\ pc[p] \in Writing
    BY <1>3 DEF Inserting
  <2>2. loaded'[q] # None => loaded'[q].id # d
    <3>1. Unused(loaded'[q].id) => loaded'[q].id # d
      BY <2>1 DEF Unused
    <3>2. loaded'[q] # None /\ loaded'[q] = loaded[q] => loaded'[q].id # d
      BY <1>1, <1>3 DEF InsertingSound
    <3> QED BY <2>1, <3>1, <3>2 DEF Modest
  <2>3. Inserting(q)' => loaded'[q].row.sha256 # request[p].target
    <3>1. ASSUME Inserting(q)'
          PROVE  pc'[q] \in Writing /\ loaded'[q] # None /\ documents[loaded'[q].id] = None
      BY <3>1 DEF Inserting
    <3>2. IndexFree(q) => request[q].target # loaded[p].row.sha256
      BY <1>3 DEF IndexFree
    <3>3. loaded[p].row.sha256 = request[p].target
      BY <1>1, <1>3 DEF InsertingSound
    <3>4. Inserting(q) => loaded[q].row.sha256 # request[p].target
      BY <1>1, <1>3 DEF InsertingSound
    <3> QED BY <3>1, <3>2, <3>3, <3>4 DEF Modest
  <2>4. \A x \in Requests \ {p, q} : Inserting(x)' = Inserting(x)
    BY <1>0 DEF Inserting
  <2>5. pc[p] # "moving" => d \in sources'
    BY <1>1, <1>3, <2>1 DEF InsertingSound, SourcesKept, Inserting
  <2>6. \A e \in Ids : HasChecksum(e, request[p].target)' = HasChecksum(e, request[p].target)
    BY <1>0 DEF HasChecksum
  <2>7. Follows(answer[p].run, d)' = Follows(answer[p].run, d)
    BY <1>0 DEF Follows, Exists, RunsOf
  <2> QED BY <1>0, <1>1, <1>3, <2>1, <2>2, <2>3, <2>4, <2>5, <2>6, <2>7
          DEF InsertingSound, Exists, RunsOf
<1>4. ASSUME ~Inserting(p)
      PROVE  InsertingSound(p)'
  BY <1>0, <1>4 DEF InsertingSound, Inserting
<1>5. ASSUME pc[p] \in Writing, loaded[p] # None, documents[loaded[p].id] # None
      PROVE  LockSound(p)'
  <2> DEFINE d == loaded[p].id
  <2>1. Locked(d)
    BY <1>5 DEF Locked
  <2>2. pc'[q] \in Writing /\ loaded'[q] # None => loaded'[q].id # d
    <3>1. pc[q] \in Writing /\ loaded[q] # None => loaded[q].id # d
      BY <1>1, <1>5 DEF LockSound
    <3> QED BY <2>1, <3>1 DEF Modest
  <2>3. Follows(answer[p].run, d)' = Follows(answer[p].run, d)
    BY <1>0 DEF Follows, Exists, RunsOf
  <2>4. Creates(p)' = Creates(p)
    BY <1>0 DEF Creates
  <2> QED BY <1>0, <1>1, <1>5, <2>2, <2>3, <2>4 DEF LockSound, InFlight, RunsOf
<1>6. ASSUME ~(pc[p] \in Writing /\ loaded[p] # None /\ documents[loaded[p].id] # None)
      PROVE  LockSound(p)'
  BY <1>0, <1>6 DEF LockSound
<1> QED BY <1>2, <1>3, <1>4, <1>5, <1>6

LEMMA QuietDocuments ==
    ASSUME DocumentInv, NEW q \in Requests, UNCHANGED <<documents, runs>>, SourcesKept(q),
           UNCHANGED cleanup
    PROVE  /\ RunsInOrder' /\ OneDocumentPerChecksum'
           /\ \A d \in Ids : DocumentSound(d)'
<1>1. RunsInOrder' /\ OneDocumentPerChecksum'
  BY DEF DocumentInv, RunsInOrder, OneDocumentPerChecksum, Exists, HasChecksum
<1>2. ASSUME NEW d \in Ids PROVE DocumentSound(d)'
  <2>1. DocumentSound(d)
    BY DEF DocumentInv
  <2>2. documents[d] # None /\ d \in sources => d \in sources'
    BY DEF SourcesKept, Inserting
  <2> QED BY <2>1, <2>2 DEF DocumentSound, Exists, InFlight, RunsOf, cleanup
<1> QED BY <1>1, <1>2

(* A session that holds nothing, or nothing to write.                      *)
LEMMA HoldsNothing ==
    ASSUME NEW q \in Requests, pc'[q] \notin Resolving \cup Writing \/ loaded'[q] = None,
           pc'[q] \notin Resolving
    PROVE  ResolvingSound(q)' /\ InsertingSound(q)' /\ LockSound(q)'
BY DEF ResolvingSound, InsertingSound, Inserting, LockSound

LEMMA NotInFlight ==
    ASSUME NEW d \in Ids, DocumentSound(d), documents[d] # None,
           LET latest == documents[d].latest_run_id IN ~(RunExists(latest) /\ InFlight(latest))
    PROVE  \A r \in RunsOf(d) : ~InFlight(r)
<1>1. documents[d].latest_run_id # None
  BY NoIdAssumption DEF DocumentSound, RunsOf
<1> QED BY <1>1 DEF DocumentSound, InFlight, RunExists

QuietSound(q) ==
    /\ Modest(q) /\ SourcesKept(q)
    /\ ResolvingSound(q)' /\ InsertingSound(q)' /\ LockSound(q)'

LEMMA ReleasedQuiet ==
    ASSUME NEW q \in Requests, SourcesKept(q), loaded'[q] = None, pc'[q] \notin Resolving
    PROVE  QuietSound(q)
BY HoldsNothing DEF QuietSound, Modest

LEMMA FindQuiet ==
    ASSUME TypeOK, DocumentInv, NEW q \in Requests, FindDocument(q) \/ InsertConflicts(q)
    PROVE  QuietSound(q)
<1>1. PICK d \in Ids, location \in Resolving :
           /\ HasChecksum(d, request[q].target)
           /\ Becomes(q, location, request[q], [id |-> d, row |-> documents[d]],
                      lookup[q], answer[q])
  BY TypeParts, FindEffect
<1>2. documents[d] # None /\ documents[d] \in DocumentRow
  BY <1>1 DEF HasChecksum, TypeOK
<1>3. pc'[q] \in Resolving /\ loaded'[q].id = d /\ loaded'[q].row = documents[d]
  BY <1>1, <1>2, LoadedRecord DEF Becomes
<1>4. UNCHANGED database
  BY DEF FindDocument, InsertConflicts
<1>5. SourcesKept(q) /\ Modest(q)
  BY <1>2, <1>3, <1>4, LocationSets DEF SourcesKept, Modest, database
<1> QED BY <1>3, <1>4, <1>5, LocationSets
        DEF QuietSound, ResolvingSound, InsertingSound, Inserting, LockSound, database

LEMMA InsertQuiet ==
    ASSUME TypeOK, RequestInv, DocumentInv, NEW q \in Requests, InsertDocument(q)
    PROVE  QuietSound(q)
<1>1. SessionType
  BY TypeParts
<1>2. PICK d \in Ids :
        /\ Unused(d)
        /\ Becomes(q, "moving", request[q], [id |-> d, row |-> NewRow(request[q].target)],
                   lookup[q], answer[q])
  BY <1>1, InsertEffect
<1>3. /\ pc[q] = "inserting" /\ IndexFree(q) /\ request[q].target \in Checksums
      /\ \A e \in Ids : ~HasChecksum(e, request[q].target)
  BY <1>1, InsertEffect
<1>4. /\ pc'[q] = "moving" /\ loaded'[q].id = d
      /\ loaded'[q].row = NewRow(request[q].target) /\ request'[q] = request[q]
  BY <1>2, <1>3, NewRowColumns, LoadedRecord DEF Becomes
<1>5. UNCHANGED database
  BY DEF InsertDocument
<1>6. \A p \in Requests \ {q} : pc'[p] = pc[p] /\ loaded'[p] = loaded[p]
  BY <1>2 DEF Becomes, OnlyFor
<1>7. ~Locked(d) /\ documents[d] = None
  BY <1>2 DEF Unused, Locked
<1>8. SourcesKept(q) /\ Modest(q)
  BY <1>2, <1>3, <1>4, <1>5, <1>7, NewRowColumns DEF SourcesKept, Modest, database
<1>9. InsertingSound(q)'
  <2>1. request[q].scope = "create"
    BY <1>3, LocationSets DEF RequestInv, RequestSound
  <2>2. \A r \in RunsOf(d) : runs'[r] = "absent"
    BY <1>2, <1>5 DEF Unused, database
  <2>3. \A p \in Requests \ {q} : loaded'[p] # None => loaded'[p].id # d
    BY <1>2, <1>6 DEF Unused
  <2>4. \A e \in Ids : ~HasChecksum(e, request[q].target)'
    BY <1>3, <1>4, <1>5 DEF HasChecksum, database
  <2>5. \A p \in Requests \ {q} : Inserting(p)' => loaded'[p].row.sha256 # request[q].target
    BY <1>3, <1>5, <1>6 DEF IndexFree, Inserting, database
  <2> QED BY <1>4, <2>1, <2>2, <2>3, <2>4, <2>5 DEF InsertingSound, NewRow, Exists, RunsOf
<1>10. ResolvingSound(q)' /\ LockSound(q)'
  BY <1>4, <1>5, <1>7, LocationSets DEF ResolvingSound, LockSound, database
<1> QED BY <1>8, <1>9, <1>10 DEF QuietSound

LEMMA MoveQuiet ==
    ASSUME TypeOK, RequestInv, DocumentInv, NEW q \in Requests, MoveSource(q)
    PROVE  QuietSound(q)
<1>1. PICK d \in Ids, r \in Runs :
        /\ pc[q] = "moving" /\ loaded[q] \in Loaded /\ loaded[q].id = d
        /\ sources' = sources \cup {d} /\ Follows(r, d)
        /\ Becomes(q, IF Keyed(q) THEN "storing" ELSE "committing", request[q],
                   loaded[q], lookup[q], Queued(r))
  BY TypeParts, MoveEffect, RunsAreNaturals DEF Follows
<1>3. /\ pc'[q] \in Answering /\ loaded'[q] = loaded[q] /\ request'[q] = request[q]
      /\ answer'[q].run = r
      /\ \A p \in Requests \ {q} : pc'[p] = pc[p] /\ loaded'[p] = loaded[p]
  BY <1>1, AnswerRecords, LocationSets DEF Becomes, OnlyFor
<1>4. UNCHANGED <<documents, runs>>
  BY DEF MoveSource
<1>5. Inserting(q) /\ documents[d] = None /\ pc[q] \in Writing /\ loaded[q] # None
  BY <1>1, LoadedColumns, LocationSets DEF DocumentInv, LockSound, Inserting
<1>6. SourcesKept(q) /\ Modest(q)
  BY <1>1, <1>3, <1>5 DEF SourcesKept, Modest
<1>7. InsertingSound(q)'
  <2>1. InsertingSound(q)
    BY DEF DocumentInv
  <2>2. \A e \in Ids : HasChecksum(e, request[q].target)' = HasChecksum(e, request[q].target)
    BY <1>3, <1>4 DEF HasChecksum
  <2>3. \A p \in Requests \ {q} : Inserting(p)' = Inserting(p)
    BY <1>3, <1>4 DEF Inserting
  <2>4. Follows(r, d)'
    BY <1>1, <1>3, <1>4 DEF Follows, Exists, RunsOf
  <2> QED BY <1>1, <1>3, <1>4, <1>5, <2>1, <2>2, <2>3, <2>4 DEF InsertingSound, Exists, RunsOf
<1>8. ResolvingSound(q)' /\ LockSound(q)'
  BY <1>1, <1>3, <1>4, <1>5, LocationSets DEF ResolvingSound, LockSound
<1> QED BY <1>6, <1>7, <1>8 DEF QuietSound

LEMMA ResolveQuiet ==
    ASSUME TypeOK, RequestInv, DocumentInv, NEW q \in Requests, ResolveExisting(q)
    PROVE  QuietSound(q)
<1> DEFINE d == loaded[q].id
<1>1. PICK a \in Answers \ {Refused} :
           /\ a.run # None => Exists(a.run)
           /\ \/ Becomes(q, "storing", request[q], loaded[q], lookup[q], a)
              \/ Becomes(q, "replying", request[q], None, None, a)
  BY TypeParts, ResolveEffect
<1>2. /\ pc[q] \in Resolving /\ loaded[q] \in Loaded /\ documents[d] # None /\ ~Locked(d)
  BY TypeParts, ResolveEffect
<1>3. UNCHANGED database /\ SourcesKept(q)
  BY DEF ResolveExisting, database, SourcesKept
<1>4. CASE Becomes(q, "replying", request[q], None, None, a)
  BY <1>3, <1>4, ReleasedQuiet, LocationSets DEF Becomes
<1>5. CASE Becomes(q, "storing", request[q], loaded[q], lookup[q], a)
  <2>1. /\ pc'[q] = "storing" /\ loaded'[q] = loaded[q] /\ answer'[q] = a
        /\ \A p \in Requests \ {q} : pc'[p] = pc[p] /\ loaded'[p] = loaded[p]
    BY <1>5 DEF Becomes, OnlyFor
  <2>2. Modest(q)
    BY <1>2, <2>1 DEF Modest
  <2>3. documents[d] = loaded[q].row
    BY <1>2 DEF DocumentInv, ResolvingSound
  <2>4. ~Creates(q)'
    BY <1>1, <1>3, <2>1 DEF Creates, Exists, database
  <2>5. LockSound(q)'
    BY <1>2, <1>3, <2>1, <2>3, <2>4 DEF LockSound, Locked, database
  <2>6. ResolvingSound(q)' /\ InsertingSound(q)'
    BY <1>2, <1>3, <2>1, LocationSets DEF ResolvingSound, InsertingSound, Inserting, database
  <2> QED BY <1>3, <2>2, <2>5, <2>6 DEF QuietSound
<1> QED BY <1>1, <1>4, <1>5

LEMMA LockQuiet ==
    ASSUME TypeOK, RequestInv, DocumentInv, NEW q \in Requests, LockDocument(q)
    PROVE  QuietSound(q)
<1>1. UNCHANGED database /\ SourcesKept(q)
  BY DEF LockDocument, database, SourcesKept
<1>2. CASE Becomes(q, "replying", request[q], None, None, Refused)
  BY <1>1, <1>2, ReleasedQuiet, LocationSets DEF Becomes
<1>3. ASSUME NEW d \in Ids, NEW r \in Runs,
             d = request[q].target, documents[d] # None,
             ~Locked(d), MayReprocess(d), Follows(r, d),
             Becomes(q, IF Keyed(q) THEN "storing" ELSE "committing", request[q],
                     [id |-> d, row |-> documents[d]], lookup[q], Queued(r))
      PROVE  QuietSound(q)
  <2>1. documents[d] \in DocumentRow
    BY <1>3 DEF TypeOK
  <2>2. /\ pc'[q] \in Answering /\ loaded'[q].id = d /\ loaded'[q].row = documents[d]
        /\ answer'[q].run = r /\ request'[q] = request[q]
        /\ \A p \in Requests \ {q} : pc'[p] = pc[p] /\ loaded'[p] = loaded[p]
    BY <1>3, <2>1, LoadedRecord, AnswerRecords, LocationSets DEF Becomes, OnlyFor
  <2>3. Modest(q)
    BY <1>3, <2>2 DEF Modest
  <2>4. request[q].scope = "reprocess"
    BY TypeParts, LockEffect DEF RequestInv, RequestSound
  <2>5. \A s \in RunsOf(d) : ~InFlight(s)
    BY <1>3, NotInFlight DEF MayReprocess, DocumentInv
  <2>6. Follows(r, d)' /\ \A s \in RunsOf(d) : ~InFlight(s)'
    BY <1>1, <1>3, <2>5 DEF Follows, Exists, RunsOf, InFlight, database
  <2>7. LockSound(q)'
    BY <1>1, <1>3, <2>2, <2>4, <2>6, LocationSets DEF LockSound, Locked, database, RunsOf
  <2>8. ResolvingSound(q)' /\ InsertingSound(q)'
    BY <1>1, <1>3, <2>2, LocationSets DEF ResolvingSound, InsertingSound, Inserting, database
  <2> QED BY <1>1, <2>3, <2>7, <2>8 DEF QuietSound
<1> QED BY <1>2, <1>3, TypeParts, LockEffect

LEMMA LookUpQuiet ==
    ASSUME TypeOK, RequestInv, DocumentInv, NEW q \in Requests, LookUpResponse(q)
    PROVE  QuietSound(q)
<1>1. UNCHANGED database /\ SourcesKept(q)
  BY DEF LookUpResponse, database, SourcesKept
<1>2. /\ pc[q] = "storing" /\ pc'[q] = "committing" /\ request'[q] = request[q]
      /\ loaded'[q] = loaded[q] /\ answer'[q] = answer[q]
      /\ \A p \in Requests \ {q} : pc'[p] = pc[p] /\ loaded'[p] = loaded[p]
  BY TypeParts, LookUpEffect DEF Becomes, OnlyFor
<1>3. Modest(q)
  BY <1>2, LocationSets DEF Modest, Inserting
<1>4. ResolvingSound(q) /\ InsertingSound(q) /\ LockSound(q)
  BY DEF DocumentInv
<1>5. /\ \A p \in Requests : Inserting(p)' = Inserting(p)
      /\ \A e \in Ids : HasChecksum(e, request[q].target)' = HasChecksum(e, request[q].target)
      /\ Creates(q)' = Creates(q)
      /\ Follows(answer[q].run, loaded[q].id)' = Follows(answer[q].run, loaded[q].id)
  BY <1>1, <1>2, LocationSets DEF Inserting, HasChecksum, Creates, Follows, Exists, RunsOf, database
<1>6. InsertingSound(q)'
  BY <1>1, <1>2, <1>4, <1>5 DEF InsertingSound, Exists, RunsOf, database
<1>7. LockSound(q)' /\ ResolvingSound(q)'
  BY <1>1, <1>2, <1>4, <1>5, LocationSets DEF LockSound, ResolvingSound, InFlight, RunsOf, database
<1> QED BY <1>1, <1>3, <1>6, <1>7 DEF QuietSound

LEMMA QuietAll ==
    ASSUME TypeOK, RequestInv, DocumentInv, NEW q \in Requests, RequestStep(q),
           UNCHANGED <<documents, runs>>
    PROVE  QuietSound(q)
<1>0. SessionType /\ DatabaseType
  BY TypeParts
<1>2. SourcesKept(q)
  BY StepKeepsSources
<1>3. pc[q] \notin Resolving \cup Writing => loaded[q] = None
  BY DEF RequestInv, RequestSound
<1>4. ASSUME NEW asked \in RequestType, Receive(q, asked)
      PROVE  loaded'[q] = None /\ pc'[q] \notin Resolving
  BY <1>0, <1>3, <1>4, ReceiveEffect, LocationSets DEF Becomes, Start
<1>5. ASSUME Replay(q) \/ ResolveNothing(q) \/ Commit(q) \/ KeyReused(q) \/ Abort(q)
      PROVE  loaded'[q] = None /\ pc'[q] \notin Resolving
  BY <1>0, <1>5, ReplayEffect, ResolveNothingEffect, CommitEffect, KeyReusedEffect,
     AbortEffect, LocationSets DEF Becomes
<1>6. ASSUME StartOver(q) \/ FindNothing(q) \/ Admit(q) \/ Reply(q)
      PROVE  loaded'[q] = None /\ pc'[q] \notin Resolving
  <2>1. CASE StartOver(q)
    BY <1>0, <1>3, <2>1, StartOverEffect, LocationSets DEF Becomes, Start
  <2>2. CASE FindNothing(q)
    BY <1>0, <1>3, <2>2, FindNothingEffect, LocationSets DEF Becomes
  <2>3. CASE Admit(q)
    BY <1>0, <1>3, <2>3, AdmitEffect, LocationSets DEF Becomes
  <2>4. CASE Reply(q)
    BY <1>0, <1>3, <2>4, ReplyEffect, LocationSets DEF Becomes
  <2> QED BY <1>6, <2>1, <2>2, <2>3, <2>4
<1>7. ASSUME QueueRecovery(q) PROVE FALSE
  <2>1. PICK d \in Ids, r \in Runs : Queues(q, d, r, documents[d])
    BY <1>0, <1>7, RecoveryEffect
  <2> QED BY <2>1 DEF Queues, Exists
<1>8. \/ \E asked \in RequestType : Receive(q, asked)
      \/ Replay(q) \/ ResolveNothing(q) \/ Commit(q) \/ KeyReused(q) \/ Abort(q)
      \/ StartOver(q) \/ FindNothing(q) \/ Admit(q) \/ Reply(q)
      \/ FindDocument(q) \/ InsertConflicts(q) \/ InsertDocument(q) \/ MoveSource(q)
      \/ ResolveExisting(q) \/ LockDocument(q) \/ LookUpResponse(q)
  BY <1>7 DEF RequestStep, Progress
<1> QED BY <1>2, <1>4, <1>5, <1>6, <1>8, ReleasedQuiet, FindQuiet, InsertQuiet, MoveQuiet,
           ResolveQuiet, LockQuiet, LookUpQuiet

LEMMA QuietInv ==
    ASSUME TypeOK, RequestInv, DocumentInv, NEW q \in Requests, RequestStep(q),
           UNCHANGED <<documents, runs>>, UNCHANGED cleanup
    PROVE  DocumentInv'
<1>1. QuietSound(q)
  BY QuietAll
<1>2. SessionType /\ OnlyFor(q)
  BY TypeParts, RequestStepType
<1>3. \A p \in Requests \ {q} : ResolvingSound(p)' /\ InsertingSound(p)' /\ LockSound(p)'
  BY <1>1, <1>2, OthersHold DEF QuietSound
<1>4. /\ RunsInOrder' /\ OneDocumentPerChecksum'
      /\ \A d \in Ids : DocumentSound(d)'
  BY <1>1, QuietDocuments DEF QuietSound
<1> QED BY <1>1, <1>3, <1>4 DEF DocumentInv, QuietSound

-------------------------------------------------------------------------------
(* Documents: a request queues a run                                       *)

(* The run is the next one, none is under way, and the row is that of the  *)
(* document, or of a new one whose checksum nobody has.                    *)
Admissible(q, d, r, row) ==
    /\ Queues(q, d, r, row)
    /\ Follows(r, d)
    /\ \A s \in RunsOf(d) : ~InFlight(s)
    /\ \/ documents[d] # None /\ row = documents[d]
       \/ /\ documents[d] = None /\ d \in sources
          /\ row.active_run_id = None
          /\ \A s \in RunsOf(d) : ~Exists(s)
          /\ \A e \in Ids : ~HasChecksum(e, row.sha256)
          /\ \A p \in Requests \ {q} : Inserting(p) => loaded[p].row.sha256 # row.sha256

LEMMA QueueingDocument ==
    ASSUME TypeOK, DocumentInv, NEW q, NEW d, NEW r, NEW row, Admissible(q, d, r, row),
           UNCHANGED <<sources, cleanup>>
    PROVE  DocumentSound(d)'
<1> USE DEF Admissible
<1>1. /\ d \in Ids /\ r \in Runs /\ ~Exists(r) /\ row \in DocumentRow
      /\ runs'[r] = "inflight" /\ \A s \in Runs \ {r} : runs'[s] = runs[s]
      /\ documents'[d] \in DocumentRow
      /\ documents'[d].latest_run_id = r
      /\ documents'[d].active_run_id = row.active_run_id
  BY DEF Queues
<1>2. /\ r \in RunsOf(d) /\ r \in Nat
      /\ \A s \in RunsOf(d) : s \in Runs /\ s \in Nat /\ DocumentOf[s] = d
  BY <1>1, RunsAreNaturals DEF Follows
<1>3. ASSUME NEW s \in RunsOf(d), Exists(s)'
      PROVE  s <= r
  <2>1. CASE s = r
    BY <1>2, <2>1
  <2>2. CASE s # r
    <3>1. Exists(s)
      BY <1>1, <1>2, <1>3, <2>2 DEF Exists
    <3>2. ~(r < s)
      BY <1>1, <1>2, <3>1 DEF DocumentInv, RunsInOrder
    <3> QED BY <1>2, <3>2
  <2> QED BY <2>1, <2>2
<1>4. ASSUME NEW s \in RunsOf(d), InFlight(s)'
      PROVE  s = r
  BY <1>1, <1>2, <1>4 DEF InFlight
<1>5. CASE documents[d] # None /\ row = documents[d]
  <2>1. DocumentSound(d) /\ documents[d].active_run_id # r
    BY <1>1, <1>5, NoIdAssumption DEF DocumentInv, DocumentSound, Exists
  <2> QED BY <1>1, <1>2, <1>3, <1>4, <1>5, <2>1
          DEF DocumentSound, Exists, InFlight, RunsOf, cleanup
<1>6. CASE /\ documents[d] = None /\ d \in sources
           /\ row.active_run_id = None
           /\ \A s \in RunsOf(d) : ~Exists(s)
  BY <1>1, <1>2, <1>3, <1>4, <1>6
  DEF DocumentSound, Exists, InFlight, RunsOf, cleanup
<1> QED BY <1>5, <1>6

LEMMA QueueingDocuments ==
    ASSUME TypeOK, DocumentInv, NEW q, NEW d, NEW r, NEW row, Admissible(q, d, r, row),
           UNCHANGED <<sources, cleanup>>
    PROVE  /\ RunsInOrder' /\ OneDocumentPerChecksum'
           /\ \A e \in Ids : DocumentSound(e)'
<1>1. /\ d \in Ids /\ r \in Runs /\ ~Exists(r) /\ row \in DocumentRow
      /\ runs'[r] = "inflight" /\ \A s \in Runs \ {r} : runs'[s] = runs[s]
      /\ documents'[d] # None
      /\ documents'[d].sha256 = row.sha256
      /\ \A e \in Ids \ {d} : documents'[e] = documents[e]
  BY DocumentColumns DEF Admissible, Queues
<1>2. Follows(r, d) /\ DocumentOf[r] = d
  BY <1>1, RunsAreNaturals DEF Admissible, Follows
<1>3. RunsInOrder'
  <2>1. ASSUME NEW x \in Runs, NEW y \in Runs, DocumentOf[x] = DocumentOf[y], y < x, Exists(x)'
        PROVE  Exists(y)'
    <3>1. CASE x = r
      <4>1. y \in RunsOf(d) /\ Exists(y)
        BY <1>2, <2>1, <3>1 DEF RunsOf, Follows
      <4> QED BY <1>1, <4>1 DEF Exists
    <3>2. CASE x # r
      <4>1. Exists(y)
        BY <1>1, <2>1, <3>2 DEF DocumentInv, RunsInOrder, Exists
      <4> QED BY <1>1, <4>1 DEF Exists
    <3> QED BY <3>1, <3>2
  <2> QED BY <2>1 DEF RunsInOrder
<1>4. OneDocumentPerChecksum'
  <2>1. \A e \in Ids \ {d} : \A c : HasChecksum(e, c)' <=> HasChecksum(e, c)
    BY <1>1 DEF HasChecksum
  <2>2. \A c : HasChecksum(d, c)' <=> c = row.sha256
    BY <1>1 DEF HasChecksum
  <2>3. \A e \in Ids \ {d} : ~HasChecksum(e, row.sha256)
    BY <1>1 DEF Admissible, DocumentInv, OneDocumentPerChecksum, HasChecksum
  <2> QED BY <1>1, <2>1, <2>2, <2>3 DEF OneDocumentPerChecksum, DocumentInv, HasChecksum
<1>5. ASSUME NEW e \in Ids \ {d}
      PROVE  DocumentSound(e)'
  <2>1. \A s \in RunsOf(e) : runs'[s] = runs[s] /\ s # r
    BY <1>1, <1>2 DEF RunsOf
  <2>2. DocumentSound(e) /\ documents'[e] = documents[e]
    BY <1>1 DEF DocumentInv
  <2> QED BY <2>1, <2>2 DEF DocumentSound, Exists, InFlight, RunsOf, cleanup
<1> QED BY <1>3, <1>4, <1>5, QueueingDocument

LEMMA QueueingOthers ==
    ASSUME SessionType, RequestInv, DocumentInv, NEW q \in Requests, OnlyFor(q),
           loaded'[q] = None, NEW d, NEW r, NEW row, Admissible(q, d, r, row), UNCHANGED sources,
           NEW p \in Requests \ {q},
           pc[p] \in Writing /\ loaded[p] # None => loaded[p].id # d,
           pc[p] \in Resolving => documents'[loaded[p].id] = documents[loaded[p].id]
    PROVE  ResolvingSound(p)' /\ InsertingSound(p)' /\ LockSound(p)'
<1>0. /\ pc'[p] = pc[p] /\ request'[p] = request[p] /\ loaded'[p] = loaded[p]
      /\ answer'[p] = answer[p]
      /\ \A x \in Requests \ {q} : pc'[x] = pc[x] /\ loaded'[x] = loaded[x]
      /\ loaded[p] # None => loaded[p].id \in Ids
  BY RequestHolds DEF OnlyFor
<1>1. ResolvingSound(p) /\ InsertingSound(p) /\ LockSound(p)
  BY DEF DocumentInv
<1>2. /\ d \in Ids /\ r \in Runs /\ ~Exists(r) /\ row \in DocumentRow
      /\ runs'[r] = "inflight" /\ \A s \in Runs \ {r} : runs'[s] = runs[s]
      /\ documents'[d] # None
      /\ documents'[d].sha256 = row.sha256
      /\ \A e \in Ids \ {d} : documents'[e] = documents[e]
      /\ DocumentOf[r] = d
  BY DocumentColumns, RunsAreNaturals DEF Admissible, Queues, Follows
<1>3. ResolvingSound(p)'
  BY <1>0, <1>1 DEF ResolvingSound
<1>4. ASSUME NEW e \in Ids \ {d}
      PROVE  /\ documents'[e] = documents[e]
             /\ \A s \in RunsOf(e) : runs'[s] = runs[s]
             /\ \A x : Follows(x, e)' = Follows(x, e)
  <2>1. \A s \in RunsOf(e) : s \in Runs /\ s # r
    BY <1>2, <1>4 DEF RunsOf
  <2>2. \A s \in RunsOf(e) : runs'[s] = runs[s]
    BY <1>2, <2>1
  <2> QED BY <1>2, <2>2 DEF Follows, Exists, RunsOf
<1>5. \A x \in Requests : Inserting(x)' => x # q /\ Inserting(x)
  <2>1. ASSUME NEW x \in Requests, Inserting(x)' PROVE x # q /\ Inserting(x)
    <3>1. x # q /\ loaded[x] # None
      BY <1>0, <2>1 DEF Inserting
    <3>2. loaded[x].id \in Ids /\ loaded[x].id # d
      BY <1>0, <1>2, <2>1, <3>1, RequestHolds DEF Inserting
    <3> QED BY <1>0, <1>2, <2>1, <3>1, <3>2 DEF Inserting
  <2> QED BY <2>1
<1>6. ASSUME Inserting(p)'
      PROVE  InsertingSound(p)'
  <2>1. Inserting(p) /\ pc[p] \in Writing /\ loaded[p] # None
    BY <1>5, <1>6 DEF Inserting
  <2>0. PICK e \in Ids, x \in {answer[p].run} : e = loaded[p].id /\ e # d /\ x = answer[p].run
    BY <1>0, <2>1
  <2>2. loaded[p].row.sha256 = request[p].target
    BY <1>1, <2>1 DEF InsertingSound
  <2>3. \A f \in Ids : ~HasChecksum(f, request[p].target)'
    <3>1. \A f \in Ids : ~HasChecksum(f, request[p].target)
      BY <1>1, <2>1 DEF InsertingSound
    <3>2. row.sha256 # request[p].target
      <4>1. CASE documents[d] # None /\ row = documents[d]
        BY <1>2, <3>1, <4>1 DEF HasChecksum
      <4>2. CASE \A f \in Requests \ {q} : Inserting(f) => loaded[f].row.sha256 # row.sha256
        BY <2>1, <2>2, <4>2
      <4> QED BY <4>1, <4>2 DEF Admissible
    <3> QED BY <1>0, <1>2, <3>1, <3>2 DEF HasChecksum
  <2>4. \A f \in Requests \ {p} :
          /\ loaded'[f] # None => loaded'[f].id # e
          /\ Inserting(f)' => loaded'[f].row.sha256 # request[p].target
    BY <1>0, <1>1, <1>5, <2>0, <2>1 DEF InsertingSound
  <2>5. \A s \in RunsOf(e) : runs'[s] = "absent"
    BY <1>1, <1>4, <2>0, <2>1 DEF InsertingSound, Exists
  <2>6. pc[p] # "moving" => e \in sources' /\ Follows(x, e)'
    <3>1. pc[p] # "moving" => e \in sources /\ Follows(x, e)
      BY <1>1, <2>0, <2>1 DEF InsertingSound
    <3> QED BY <1>0, <1>4, <2>0, <3>1
  <2>7. loaded[p].row = [sha256 |-> request[p].target, active_run_id |-> None,
                         latest_run_id |-> None] /\ request[p].scope = "create"
    BY <1>1, <2>1 DEF InsertingSound
  <2> QED BY <1>0, <2>0, <2>3, <2>4, <2>5, <2>6, <2>7 DEF InsertingSound, Exists, RunsOf, Follows
<1>7. ~Inserting(p)' => InsertingSound(p)'
  BY DEF InsertingSound
<1>8. ASSUME pc[p] \in Writing, loaded[p] # None, documents'[loaded[p].id] # None
      PROVE  LockSound(p)'
  <2>1. PICK e \in Ids, x \in {answer[p].run} : e = loaded[p].id /\ e # d /\ x = answer[p].run
    BY <1>0, <1>8
  <2>2. documents'[e] = documents[e] /\ documents[e] # None
    BY <1>4, <1>8, <2>1
  <2>6. pc[p] # "moving" /\ documents'[e] = loaded[p].row
    BY <1>1, <1>8, <2>1, <2>2 DEF LockSound
  <2>3. Creates(p)' => Creates(p)
    <3>1. answer[p].run \in Runs \cup {None}
      BY <1>8, <2>6, LocationSets, Committing, AnswerColumns
    <3> QED BY <1>0, <1>2, <3>1 DEF Creates
  <2>4. \A f \in Requests \ {p} : pc'[f] \in Writing /\ loaded'[f] # None => loaded'[f].id # e
    BY <1>0, <1>1, <1>8, <2>1, <2>2 DEF LockSound
  <2>5. Creates(p) => /\ request[p].scope = "reprocess" /\ request[p].target = e
                      /\ Follows(x, e)'
                      /\ \A s \in RunsOf(e) : runs'[s] # "inflight"
    <3>1. Creates(p) => /\ request[p].scope = "reprocess" /\ request[p].target = e
                        /\ Follows(x, e)
                        /\ \A s \in RunsOf(e) : ~InFlight(s)
      BY <1>1, <1>8, <2>1, <2>2 DEF LockSound
    <3> QED BY <1>0, <1>4, <2>1, <3>1 DEF InFlight
  <2> QED BY <1>0, <2>1, <2>3, <2>4, <2>5, <2>6 DEF LockSound, InFlight, RunsOf, Follows, Exists
<1>9. ~(pc[p] \in Writing /\ loaded[p] # None /\ documents'[loaded[p].id] # None) => LockSound(p)'
  BY <1>0 DEF LockSound
<1> QED BY <1>3, <1>6, <1>7, <1>8, <1>9

(* Under ReadsPrompt, what is being resolved is left alone.                *)
LEMMA PromptKeeps ==
    ASSUME ReadsPrompt, Prompt, NEW p \in Requests, pc[p] \in Resolving, pc'[p] \in Resolving
    PROVE  documents'[loaded[p].id] = documents[loaded[p].id]
BY DEF Prompt

LEMMA RecoveryAdmissible ==
    ASSUME TypeOK, RequestInv, DocumentInv, NEW q \in Requests, QueueRecovery(q)
    PROVE  \E d, r, row : /\ Admissible(q, d, r, row) /\ ~Locked(d)
                          /\ d \in Ids /\ documents[d] # None
                          /\ row = documents[d] /\ row = loaded[q].row
                          /\ d = loaded[q].id /\ ~SeesActive(q)
                          /\ pc[q] \in Resolving
                          /\ \/ Becomes(q, "storing", request[q], None, lookup[q], Recovery(r))
                             \/ Becomes(q, "replying", request[q], None, None, Recovery(r))
<1>1. PICK d \in Ids, r \in Runs :
           /\ pc[q] \in Resolving
           /\ loaded[q] \in Loaded /\ d = loaded[q].id
           /\ documents[d] # None /\ ~Locked(d)
           /\ ~SeesActive(q) /\ ~SeesInflight(q)
           /\ Follows(r, d)
           /\ Queues(q, d, r, documents[d])
           /\ \/ Becomes(q, "storing", request[q], None, lookup[q], Recovery(r))
              \/ Becomes(q, "replying", request[q], None, None, Recovery(r))
  BY TypeParts, RecoveryEffect
<1>2. documents[d] = loaded[q].row
  BY <1>1 DEF DocumentInv, ResolvingSound
<1>3. \A s \in RunsOf(d) : ~InFlight(s)
  BY <1>1, <1>2, NotInFlight DEF DocumentInv, SeesInflight
<1>4. Admissible(q, d, r, documents[d])
  BY <1>1, <1>3 DEF Admissible
<1> QED BY <1>1, <1>2, <1>4

LEMMA RecoveryInv ==
    ASSUME ReadsPrompt, TypeOK, RequestInv, DocumentInv, NEW q \in Requests,
           QueueRecovery(q), Prompt, UNCHANGED cleanup
    PROVE  DocumentInv'
<1>0. SessionType /\ DatabaseType
  BY TypeParts
<1>1. PICK d, r, row :
        /\ Admissible(q, d, r, row) /\ ~Locked(d)
        /\ \/ Becomes(q, "storing", request[q], None, lookup[q], Recovery(r))
           \/ Becomes(q, "replying", request[q], None, None, Recovery(r))
  BY RecoveryAdmissible
<1>5. OnlyFor(q) /\ loaded'[q] = None /\ pc'[q] \notin Resolving /\ UNCHANGED sources
  BY <1>1, LocationSets DEF Becomes, QueueRecovery
<1>6. \A p \in Requests \ {q} : pc'[p] = pc[p]
  BY <1>5 DEF OnlyFor
<1>7. \A p \in Requests \ {q} :
        /\ pc[p] \in Writing /\ loaded[p] # None => loaded[p].id # d
        /\ pc[p] \in Resolving => documents'[loaded[p].id] = documents[loaded[p].id]
  BY <1>1, <1>6, PromptKeeps DEF Locked
<1>8. \A p \in Requests \ {q} : ResolvingSound(p)' /\ InsertingSound(p)' /\ LockSound(p)'
  BY <1>0, <1>1, <1>5, <1>7, QueueingOthers
<1>9. ResolvingSound(q)' /\ InsertingSound(q)' /\ LockSound(q)'
  BY <1>5, HoldsNothing
<1>10. /\ RunsInOrder' /\ OneDocumentPerChecksum'
       /\ \A e \in Ids : DocumentSound(e)'
  BY <1>1, <1>5, QueueingDocuments
<1> QED BY <1>8, <1>9, <1>10 DEF DocumentInv

(* What a request that is about to commit a run knows.                     *)
LEMMA CommitAdmissible ==
    ASSUME TypeOK, RequestInv, DocumentInv, NEW q \in Requests, Commit(q), Creates(q)
    PROVE  /\ Admissible(q, loaded[q].id, answer[q].run, loaded[q].row)
           /\ \A p \in Requests \ {q} :
                pc[p] \in Writing /\ loaded[p] # None => loaded[p].id # loaded[q].id
<1> DEFINE d == loaded[q].id
<1>1. /\ pc[q] = "committing" /\ loaded[q] \in Loaded
      /\ Queues(q, d, answer[q].run, loaded[q].row)
  BY TypeParts, CommitEffect
<1>2. pc[q] \in Writing /\ loaded[q] # None /\ InsertingSound(q) /\ LockSound(q)
      /\ pc[q] # "moving"
  BY <1>1, LoadedColumns, LocationSets DEF DocumentInv
<1>3. CASE documents[d] = None
  <2>1. Inserting(q)
    BY <1>2, <1>3 DEF Inserting
  <2>2. /\ loaded[q].row = NewRow(request[q].target)
        /\ \A s \in RunsOf(d) : ~Exists(s)
        /\ \A p \in Requests \ {q} : loaded[p] # None => loaded[p].id # d
        /\ \A e \in Ids : ~HasChecksum(e, request[q].target)
        /\ \A p \in Requests \ {q} : Inserting(p) => loaded[p].row.sha256 # request[q].target
        /\ d \in sources /\ Follows(answer[q].run, d)
    BY <1>2, <2>1 DEF InsertingSound, NewRow
  <2>3. loaded[q].row.sha256 = request[q].target /\ loaded[q].row.active_run_id = None
    BY <2>2 DEF NewRow
  <2> QED BY <1>1, <1>3, <2>2, <2>3 DEF Admissible, InFlight, Exists
<1>4. CASE documents[d] # None
  <2>1. /\ documents[d] = loaded[q].row
        /\ \A p \in Requests \ {q} : pc[p] \in Writing /\ loaded[p] # None => loaded[p].id # d
        /\ Follows(answer[q].run, d) /\ \A s \in RunsOf(d) : ~InFlight(s)
    BY <1>2, <1>4 DEF LockSound
  <2> QED BY <1>1, <1>4, <2>1 DEF Admissible
<1> QED BY <1>3, <1>4

LEMMA CommitInv ==
    ASSUME ReadsPrompt, TypeOK, RequestInv, DocumentInv, NEW q \in Requests,
           Commit(q), Creates(q), Prompt, UNCHANGED cleanup
    PROVE  DocumentInv'
<1>0. SessionType /\ DatabaseType
  BY TypeParts
<1>1. PICK d, r, row : /\ d = loaded[q].id /\ Admissible(q, d, r, row)
                       /\ \A p \in Requests \ {q} :
                            pc[p] \in Writing /\ loaded[p] # None => loaded[p].id # d
  BY CommitAdmissible
<1>5. OnlyFor(q) /\ loaded'[q] = None /\ pc'[q] \notin Resolving /\ UNCHANGED sources
  BY <1>0, CommitEffect, LocationSets DEF Becomes, Commit
<1>6. \A p \in Requests \ {q} : pc'[p] = pc[p]
  BY <1>5 DEF OnlyFor
<1>7. \A p \in Requests \ {q} :
        pc[p] \in Resolving => documents'[loaded[p].id] = documents[loaded[p].id]
  BY <1>6, PromptKeeps
<1>8. \A p \in Requests \ {q} : ResolvingSound(p)' /\ InsertingSound(p)' /\ LockSound(p)'
  BY <1>0, <1>1, <1>5, <1>7, QueueingOthers
<1>9. ResolvingSound(q)' /\ InsertingSound(q)' /\ LockSound(q)'
  BY <1>5, HoldsNothing
<1>10. /\ RunsInOrder' /\ OneDocumentPerChecksum'
       /\ \A e \in Ids : DocumentSound(e)'
  BY <1>1, <1>5, QueueingDocuments
<1> QED BY <1>8, <1>9, <1>10 DEF DocumentInv

(* A step of a request, and of the worker or of time, where ReadsPrompt    *)
(* has a say.                                                              *)
PromptStep(q) ==
    \/ \E asked \in RequestType : Receive(q, asked)
    \/ Progress(q) /\ Prompt
    \/ Abort(q) \/ Reply(q)

PromptEnd == \E r \in Runs : (RunSucceeds(r) /\ Prompt) \/ RunFails(r) \/ Expire(r)

LEMMA RequestDocumentInv ==
    ASSUME ReadsPrompt, TypeOK, RequestInv, DocumentInv, NEW q \in Requests,
           PromptStep(q), UNCHANGED cleanup
    PROVE  DocumentInv'
<1>0. RequestStep(q)
  BY DEF PromptStep, RequestStep
<1>1. CASE Progress(q) /\ Prompt /\ QueueRecovery(q)
  BY <1>1, RecoveryInv
<1>2. CASE Progress(q) /\ Prompt /\ Commit(q) /\ Creates(q)
  BY <1>2, CommitInv
<1>3. CASE Progress(q) /\ ~QueueRecovery(q) /\ ~(Commit(q) /\ Creates(q))
  <2>1. UNCHANGED <<documents, runs>>
    BY <1>0, <1>3, TypeParts, QuietSteps, CommitEffect DEF Rest
  <2> QED BY <1>0, <2>1, QuietInv
<1>4. CASE (\E asked \in RequestType : Receive(q, asked)) \/ Abort(q) \/ Reply(q)
  <2>1. UNCHANGED <<documents, runs>>
    BY <1>4 DEF Receive, Abort, Reply, database
  <2> QED BY <1>0, <2>1, QuietInv
<1> QED BY <1>1, <1>2, <1>3, <1>4 DEF PromptStep

-------------------------------------------------------------------------------
(* Documents: runs end, and a pass deletes                                 *)

(* A step of another actor leaves what requests hold as it is.             *)
Spared ==
    /\ UNCHANGED <<pc, session>>
    /\ \A r \in Runs : /\ runs'[r] # "absent" <=> Exists(r)
                       /\ runs'[r] = "inflight" => InFlight(r)
    /\ \A d \in Ids :
         /\ documents[d] = None => documents'[d] = None /\ (d \in sources => d \in sources')
         /\ documents'[d] # None => documents'[d].sha256 = documents[d].sha256
         /\ Locked(d) => documents'[d] = documents[d]
    /\ \A q \in Requests :
         pc[q] \in Resolving =>
             documents'[loaded[q].id] \in {None, documents[loaded[q].id]}

LEMMA SparedRequests ==
    ASSUME SessionType, RequestInv, DocumentInv, Spared, NEW q \in Requests
    PROVE  ResolvingSound(q)' /\ InsertingSound(q)' /\ LockSound(q)'
<1> USE DEF Spared
<1>0. /\ pc' = pc /\ request' = request /\ loaded' = loaded /\ answer' = answer
      /\ \A p \in Requests : loaded[p] # None => loaded[p].id \in Ids
  BY RequestHolds DEF session
<1>1. ResolvingSound(q) /\ InsertingSound(q) /\ LockSound(q)
  BY DEF DocumentInv
<1>2. ResolvingSound(q)'
  BY <1>0, <1>1 DEF ResolvingSound
<1>3. ASSUME NEW d \in Ids
      PROVE  /\ \A r \in RunsOf(d) : runs'[r] # "absent" <=> Exists(r)
             /\ \A r \in RunsOf(d) : runs'[r] = "inflight" => InFlight(r)
             /\ \A x : Follows(x, d)' = Follows(x, d)
  BY RunsAreNaturals DEF Follows, Exists, RunsOf
<1>4. \A d \in Ids : \A c : HasChecksum(d, c)' => HasChecksum(d, c)
  BY DEF HasChecksum
<1>5. \A p \in Requests : pc[p] \in Writing /\ loaded[p] # None =>
                             documents'[loaded[p].id] = documents[loaded[p].id]
  BY <1>0 DEF Locked
<1>6. \A p \in Requests : Inserting(p)' = Inserting(p)
  BY <1>0, <1>5 DEF Inserting
<1>7. CASE Inserting(q)
  <2>1. PICK d \in Ids, x \in {answer[q].run} :
          d = loaded[q].id /\ x = answer[q].run /\ documents[d] = None
    BY <1>0, <1>7 DEF Inserting
  <2>2. \A r \in RunsOf(d) : runs'[r] = "absent"
    BY <1>1, <1>3, <1>7, <2>1 DEF InsertingSound
  <2>3. pc[q] # "moving" => d \in sources' /\ Follows(x, d)'
    BY <1>1, <1>3, <1>7, <2>1 DEF InsertingSound
  <2>4. /\ \A p \in Requests \ {q} : loaded[p] # None => loaded[p].id # d
        /\ \A e \in Ids : ~HasChecksum(e, request[q].target)
        /\ \A p \in Requests \ {q} : Inserting(p) => loaded[p].row.sha256 # request[q].target
        /\ request[q].scope = "create"
        /\ loaded[q].row = [sha256 |-> request[q].target, active_run_id |-> None,
                            latest_run_id |-> None]
    BY <1>1, <1>7, <2>1 DEF InsertingSound
  <2>5. \A e \in Ids : ~HasChecksum(e, request[q].target)'
    BY <1>0, <1>4, <2>4 DEF HasChecksum
  <2>6. InsertingSound(q)'
    BY <1>0, <1>6, <2>1, <2>2, <2>3, <2>4, <2>5 DEF InsertingSound, Exists, RunsOf
  <2>7. LockSound(q)'
    BY <1>0, <1>5, <2>1 DEF LockSound
  <2> QED BY <1>2, <2>6, <2>7
<1>8. CASE ~Inserting(q) /\ pc[q] \in Writing /\ loaded[q] # None
  <2>1. PICK d \in Ids, x \in {answer[q].run} :
          /\ d = loaded[q].id /\ x = answer[q].run
          /\ documents[d] # None /\ documents'[d] = documents[d]
    BY <1>0, <1>5, <1>8 DEF Inserting
  <2>2. /\ pc[q] # "moving" /\ documents[d] = loaded[q].row
        /\ \A p \in Requests \ {q} :
             pc[p] \in Writing /\ loaded[p] # None => loaded[p].id # d
        /\ Creates(q) =>
             /\ request[q].scope = "reprocess" /\ request[q].target = d
             /\ Follows(x, d) /\ \A r \in RunsOf(d) : ~InFlight(r)
    BY <1>1, <1>8, <2>1 DEF LockSound
  <2>3. Creates(q)' => Creates(q)
    <3>1. x \in Runs \cup {None}
      BY <1>8, <2>1, <2>2, LocationSets, Committing, AnswerColumns
    <3> QED BY <1>0, <2>1, <3>1 DEF Creates, Exists
  <2>4. Creates(q) => Follows(x, d)' /\ \A r \in RunsOf(d) : runs'[r] # "inflight"
    BY <1>3, <2>2
  <2>5. LockSound(q)'
    BY <1>0, <2>1, <2>2, <2>3, <2>4 DEF LockSound, InFlight, RunsOf
  <2> QED BY <1>2, <1>6, <1>8, <2>5 DEF InsertingSound
<1>9. CASE ~(pc[q] \in Writing /\ loaded[q] # None)
  BY <1>0, <1>2, <1>9 DEF InsertingSound, Inserting, LockSound
<1> QED BY <1>7, <1>8, <1>9 DEF Inserting

LEMMA SparedDocuments ==
    ASSUME SessionType, RequestInv, DocumentInv, Spared,
           \A d \in Ids : DocumentSound(d)'
    PROVE  DocumentInv'
<1>1. RunsInOrder'
  BY DEF DocumentInv, RunsInOrder, Exists, Spared
<1>2. OneDocumentPerChecksum'
  <2>1. ASSUME NEW d \in Ids, NEW e \in Ids, documents'[d] # None,
               HasChecksum(e, documents[d].sha256)'
        PROVE  d = e
    <3>1. documents[d] # None /\ documents[e] # None
      BY <2>1 DEF HasChecksum, Spared
    <3>2. HasChecksum(e, documents[d].sha256)
      BY <2>1, <3>1 DEF HasChecksum, Spared
    <3> QED BY <3>1, <3>2 DEF DocumentInv, OneDocumentPerChecksum
  <2>2. ASSUME NEW d \in Ids, NEW e \in Ids, documents'[d] # None,
               HasChecksum(e, documents[d].sha256)'
        PROVE  d = e
    BY <2>1, <2>2
  <2> QED BY <2>2 DEF OneDocumentPerChecksum, HasChecksum, Spared
<1> QED BY <1>1, <1>2, SparedRequests DEF DocumentInv

LEMMA EndDocumentInv ==
    ASSUME ReadsPrompt, TypeOK, RequestInv, DocumentInv, PromptEnd, UNCHANGED cleanup
    PROVE  DocumentInv'
<1>1. PICK r \in Runs : (RunSucceeds(r) /\ Prompt) \/ RunFails(r) \/ Expire(r)
  BY DEF PromptEnd
<1>2. SessionType /\ DatabaseType /\ DocumentOf[r] \in Ids
  BY TypeParts, DocumentOfIdAssumption
<1>3. /\ UNCHANGED <<sources, responses, origin, pc, session>>
      /\ runs[r] \in {"inflight", "failed"}
      /\ runs'[r] \in {"completed", "failed", "expired"}
      /\ \A s \in Runs \ {r} : runs'[s] = runs[s]
  BY <1>1, <1>2, EndEffect
<1>4. PICK d \in Ids : d = DocumentOf[r] /\ documents[d] # None
  BY <1>2, <1>3 DEF RequestInv, NoOrphans
<1>5. \A s \in Runs : /\ runs'[s] # "absent" <=> Exists(s)
                      /\ runs'[s] = "inflight" => InFlight(s)
  BY <1>3 DEF Exists, InFlight
<1>6. CASE RunSucceeds(r) /\ Prompt
  <2>1. /\ runs[r] = "inflight" /\ runs'[r] = "completed" /\ ~Locked(d)
        /\ documents'[d] \in DocumentRow
        /\ documents'[d].sha256 = documents[d].sha256
        /\ documents'[d].active_run_id = r /\ documents'[d].latest_run_id = r
        /\ \A e \in Ids \ {d} : documents'[e] = documents[e]
    BY <1>2, <1>4, <1>6, SucceedEffect
  <2>2. \A q \in Requests : pc[q] \in Resolving => documents'[loaded[q].id] = documents[loaded[q].id]
    BY <1>3, <1>6, PromptKeeps
  <2>3. Spared
    BY <1>3, <1>4, <1>5, <2>1, <2>2 DEF Spared
  <2>4. ASSUME NEW e \in Ids \ {d} PROVE DocumentSound(e)'
    <3>1. \A s \in RunsOf(e) : s # r /\ runs'[s] = runs[s]
      BY <1>3, <1>4 DEF RunsOf
    <3> QED BY <1>3, <2>1, <2>4, <3>1
            DEF DocumentInv, DocumentSound, Exists, InFlight, RunsOf, cleanup
  <2>5. DocumentSound(d)'
    <3>1. DocumentSound(d) /\ r \in RunsOf(d) /\ d \in Ids
      BY <1>4 DEF DocumentInv, RunsOf
    <3>2. documents[d].latest_run_id = r
      BY <1>4, <2>1, <3>1 DEF DocumentSound, InFlight
    <3>3. \A s \in RunsOf(d) : s \in Runs /\ s \in Nat
      BY RunsAreNaturals
    <3>4. ASSUME NEW s \in RunsOf(d)
          PROVE  /\ runs'[s] # "absent" => s <= r
                 /\ runs'[s] = "inflight" => s = r
                 /\ runs'[s] # "purged"
      BY <1>3, <1>4, <1>5, <2>1, <3>1, <3>2, <3>3 DEF DocumentSound, Exists, InFlight
    <3>5. d \in sources \/ (phase = "expired" /\ d \in doomed)
      BY <1>4, <3>1 DEF DocumentSound
    <3>6. r # None
      BY NoIdAssumption
    <3> QED BY <1>3, <2>1, <3>1, <3>4, <3>5, <3>6
            DEF DocumentSound, Exists, InFlight, RunsOf, cleanup
  <2> QED BY <1>2, <2>3, <2>4, <2>5, SparedDocuments
<1>7. CASE RunFails(r) \/ Expire(r)
  <2>1. documents' = documents /\ runs'[r] \in {"failed", "expired"}
    BY <1>2, <1>7 DEF RunFails, Expire, DatabaseType
  <2>2. Spared
    BY <1>3, <1>5, <2>1 DEF Spared
  <2>3. ASSUME NEW e \in Ids PROVE DocumentSound(e)'
    <3>1. DocumentSound(e)
      BY DEF DocumentInv
    <3>2. \A s \in RunsOf(e) : s \in Runs
      BY RunsAreNaturals
    <3> QED BY <1>3, <2>1, <3>1, <3>2 DEF DocumentSound, Exists, InFlight, RunsOf, cleanup
  <2> QED BY <1>2, <2>2, <2>3, SparedDocuments
<1> QED BY <1>1, <1>6, <1>7

LEMMA LookingDocumentInv ==
    ASSUME CleanupUndisturbed, CleanupTypeOK, RequestInv, PassSound, DocumentInv,
           Looking, Undisturbed
    PROVE  DocumentInv'
<1>1. UNCHANGED <<documents, runs, responses, origin, pc, session>>
  BY LookingEffect
<1>2. ASSUME NEW d \in Ids, documents[d] # None, d \in sources \/ (phase = "expired" /\ d \in doomed)
      PROVE  d \in sources' \/ (phase' = "expired" /\ d \in doomed')
  <2>1. CASE BeginExpired \/ BeginSuperseded
    BY <1>2, <2>1 DEF BeginExpired, BeginSuperseded, vars, database
  <2>2. CASE CleanupDies
    <3>1. sources' = sources /\ phase' = "idle" /\ documents' = documents
      BY <2>2 DEF CleanupDies, Finish, vars, database
    <3>2. phase = "expired" => doomed = {}
      BY <3>1 DEF Undisturbed
    <3> QED BY <1>2, <3>1, <3>2
  <2>3. ASSUME NEW e \in Ids, DoomDocument(e)
        PROVE  d \in sources' \/ (phase' = "expired" /\ d \in doomed')
    BY <1>2, <2>3 DEF DoomDocument
  <2>4. ASSUME NEW e \in Ids, DoomRuns(e)
        PROVE  d \in sources' \/ (phase' = "expired" /\ d \in doomed')
    BY <1>2, <2>4 DEF DoomRuns, vars, database
  <2> QED BY <2>1, <2>2, <2>3, <2>4 DEF Looking
<1>3. sources \subseteq sources' \cup {d \in Ids : documents[d] # None}
  <2>1. CASE BeginExpired \/ BeginSuperseded \/ CleanupDies
    BY <2>1 DEF BeginExpired, BeginSuperseded, CleanupDies, vars, database
  <2>2. ASSUME NEW e \in Ids, DoomDocument(e) \/ DoomRuns(e)
        PROVE  sources \subseteq sources' \cup {d \in Ids : documents[d] # None}
    BY <2>2 DEF DoomDocument, DoomRuns, vars, database
  <2> QED BY <2>1, <2>2 DEF Looking
<1>4. Spared
  BY <1>1, <1>3 DEF Spared, Exists, InFlight
<1>5. ASSUME NEW d \in Ids PROVE DocumentSound(d)'
  <2>1. DocumentSound(d)
    BY DEF DocumentInv
  <2> QED BY <1>1, <1>2, <2>1 DEF DocumentSound, Exists, InFlight, RunsOf
<1> QED BY <1>4, <1>5, SparedDocuments, TypeParts, CleanupTypeParts

LEMMA ExpiredDocumentInv ==
    ASSUME CleanupTypeOK, RequestInv, PassSound, DocumentInv, CleanupInv, CommitExpired
    PROVE  DocumentInv'
<1>0. SessionType /\ DatabaseType
  BY TypeParts, CleanupTypeParts
<1>1. /\ UNCHANGED <<sources, responses, origin, pc, session>>
      /\ phase' = "idle" /\ doomed' = {}
      /\ \A d \in Ids : documents'[d] = IF d \in doomed THEN None ELSE documents[d]
      /\ \A r \in Runs : runs'[r] = IF DocumentOf[r] \in doomed /\ runs[r] # "absent"
                                    THEN "purged" ELSE runs[r]
  BY <1>0, ExpiredEffect
<1>2. phase = "expired" /\ \A d \in doomed : ~Locked(d)
  BY DEF CommitExpired
<1>3. ASSUME NEW q \in Requests, pc[q] \in Resolving
      PROVE  loaded[q].id \in Ids
  BY <1>0, <1>3, RequestHolds DEF RequestInv, RequestSound
<1>4. Spared
  <2>1. \A r \in Runs : /\ runs'[r] # "absent" <=> Exists(r)
                        /\ runs'[r] = "inflight" => InFlight(r)
    BY <1>1 DEF Exists, InFlight
  <2>2. \A d \in Ids :
         /\ documents[d] = None => documents'[d] = None
         /\ documents'[d] # None => documents'[d] = documents[d]
         /\ Locked(d) => documents'[d] = documents[d]
    BY <1>1, <1>2
  <2>3. \A q \in Requests :
          pc[q] \in Resolving => documents'[loaded[q].id] \in {None, documents[loaded[q].id]}
    BY <1>1, <1>3
  <2> QED BY <1>1, <2>1, <2>2, <2>3 DEF Spared
<1>5. ASSUME NEW d \in Ids PROVE DocumentSound(d)'
  <2>1. CASE d \in doomed
    BY <1>1, <2>1 DEF DocumentSound
  <2>2. CASE d \notin doomed
    <3>1. \A r \in RunsOf(d) : runs'[r] = runs[r]
      BY <1>1, <2>2 DEF RunsOf
    <3>2. DocumentSound(d) /\ documents'[d] = documents[d]
      BY <1>1, <2>2 DEF DocumentInv
    <3> QED BY <1>1, <2>2, <3>1, <3>2 DEF DocumentSound, Exists, InFlight, RunsOf
  <2> QED BY <2>1, <2>2
<1> QED BY <1>0, <1>4, <1>5, SparedDocuments

(* No document points to a run that the pass deletes.                      *)
LEMMA SupersededDocuments ==
    ASSUME DatabaseType, PassSound, DocumentInv, CleanupInv, CommitSuperseded
    PROVE  \A d \in Ids : documents'[d] = documents[d]
<1>1. SUFFICES ASSUME NEW d \in Ids, documents[d] # None
               PROVE  /\ documents[d].active_run_id \notin doomed
                      /\ documents[d].latest_run_id \notin doomed
  BY SupersededEffect
<1>2. \A r \in doomed : r \in Runs /\ (DocumentOf[r] = d => Active(d) # None /\ r < Active(d))
  BY DEF CommitSuperseded, PassSound, CleanupInv, SupersededSound
<1>3. Active(d) = documents[d].active_run_id /\ DocumentSound(d)
  BY <1>1 DEF Active, DocumentInv
<1>4. ASSUME documents[d].active_run_id \in doomed PROVE FALSE
  <2>1. Active(d) \in Runs /\ Active(d) \in RunsOf(d)
    BY <1>1, <1>2, <1>3, <1>4, NoIdAssumption DEF DocumentSound
  <2> QED BY <1>2, <1>3, <1>4, <2>1, RunsAreNaturals
<1>5. ASSUME documents[d].latest_run_id \in doomed PROVE FALSE
  <2>1. documents[d].latest_run_id \in RunsOf(d)
    BY <1>1, <1>3 DEF DocumentSound
  <2>2. Active(d) # None /\ documents[d].latest_run_id < Active(d)
    BY <1>2, <1>5, <2>1, RunsAreNaturals
  <2>3. Active(d) \in RunsOf(d) /\ Active(d) <= documents[d].latest_run_id
    BY <1>1, <1>3, <2>2 DEF DocumentSound, Exists
  <2> QED BY <2>1, <2>2, <2>3, RunsAreNaturals
<1> QED BY <1>4, <1>5

LEMMA SupersededDocumentInv ==
    ASSUME CleanupTypeOK, RequestInv, PassSound, DocumentInv, CleanupInv, CommitSuperseded
    PROVE  DocumentInv'
<1>0. SessionType /\ DatabaseType
  BY TypeParts, CleanupTypeParts
<1>1. /\ UNCHANGED <<sources, responses, origin, pc, session>>
      /\ phase' = "idle" /\ doomed' = {}
      /\ \A r \in Runs : runs'[r] = IF r \in doomed THEN "superseded" ELSE runs[r]
  BY <1>0, SupersededEffect
<1>2. \A d \in Ids : documents'[d] = documents[d]
  BY <1>0, SupersededDocuments
<1>3. phase = "superseded" /\ \A r \in doomed : r \in Runs /\ runs[r] = "completed"
  BY DEF CommitSuperseded, PassSound
<1>4. \A q \in Requests : pc[q] \in Resolving => loaded[q].id \in Ids
  BY <1>0, RequestHolds DEF RequestInv, RequestSound
<1>5. Spared
  <2>1. \A r \in Runs : /\ runs'[r] # "absent" <=> Exists(r)
                        /\ runs'[r] = "inflight" => InFlight(r)
    BY <1>1, <1>3 DEF Exists, InFlight
  <2> QED BY <1>1, <1>2, <1>4, <2>1 DEF Spared
<1>6. ASSUME NEW d \in Ids, documents[d] # None PROVE DocumentSound(d)'
  <2>1. DocumentSound(d)
    BY DEF DocumentInv
  <2>2. \A r \in RunsOf(d) : r \in Runs /\ r \in Nat
    BY RunsAreNaturals
  <2>3. ASSUME documents[d].active_run_id # None
        PROVE  runs'[documents[d].active_run_id] = "completed"
    <3>1. documents[d].active_run_id \in RunsOf(d) /\ runs[documents[d].active_run_id] = "completed"
      BY <1>6, <2>1, <2>3 DEF DocumentSound
    <3>2. documents[d].active_run_id \notin doomed
      <4>1. ASSUME documents[d].active_run_id \in doomed PROVE FALSE
        <5>1. DocumentOf[documents[d].active_run_id] = d
          BY <3>1, RunsAreNaturals
        <5>2. documents[d].active_run_id < Active(d)
          BY <1>3, <4>1, <5>1 DEF CleanupInv, SupersededSound
        <5> QED BY <1>6, <2>2, <3>1, <5>2 DEF Active
      <4> QED BY <4>1
    <3> QED BY <1>1, <2>2, <3>1, <3>2
  <2>4. d \in sources
    BY <1>3, <1>6, <2>1 DEF DocumentSound
  <2> QED BY <1>1, <1>2, <1>3, <1>6, <2>1, <2>2, <2>3, <2>4
          DEF DocumentSound, Exists, InFlight, RunsOf
<1>7. \A d \in Ids : documents[d] = None => DocumentSound(d)'
  BY <1>2 DEF DocumentSound
<1> QED BY <1>0, <1>5, <1>6, <1>7, SparedDocuments

-------------------------------------------------------------------------------
(* The cleanup command: what it read still tells what it may delete        *)

(* Unless a document is new, a later run may take the place of the active  *)
(* one, and nothing else changes what it serves.                           *)
Overtaken(d) ==
    \/ /\ Active(d)' = Active(d)
       /\ \A r \in RunsOf(d) : runs'[r] = "completed" <=> runs[r] = "completed"
    \/ /\ Active(d)' \in RunsOf(d)
       /\ Active(d) # None => Active(d) < Active(d)'
       /\ \A r \in RunsOf(d) : runs[r] = "completed" => runs'[r] = "completed"

OthersKeepDocuments ==
    \A d \in Ids : documents[d] # None => documents'[d] # None /\ Overtaken(d)

LEMMA ActiveRun ==
    ASSUME DocumentInv, NEW d \in Ids
    PROVE  /\ documents[d] = None => Active(d) = None
           /\ documents[d] # None => Active(d) = documents[d].active_run_id
           /\ Active(d) # None => /\ documents[d] # None
                                  /\ Active(d) \in RunsOf(d) /\ Active(d) \in Nat
                                  /\ Active(d) \in Runs
                                  /\ runs[Active(d)] = "completed"
<1>1. DocumentSound(d)
  BY DEF DocumentInv
<1> QED BY <1>1, RunsAreNaturals DEF Active, DocumentSound

(* Every successful run is the active one, or an earlier one.              *)
LEMMA SuccessfulRuns ==
    ASSUME RequestInv, DocumentInv, NEW d \in Ids, NEW r \in RunsOf(d), runs[r] = "completed"
    PROVE  documents[d] # None /\ Active(d) # None /\ r <= Active(d)
<1>1. r \in Runs /\ DocumentOf[r] = d
  BY RunsAreNaturals
<1>2. documents[d] # None /\ DocumentSound(d)
  BY <1>1 DEF RequestInv, NoOrphans, DocumentInv
<1> QED BY <1>2 DEF DocumentSound, Active

LEMMA SupersededKept ==
    ASSUME PassSound, DocumentInv, SupersededSound, OthersKeepDocuments, UNCHANGED cleanup
    PROVE  SupersededSound'
<1> SUFFICES ASSUME phase = "superseded" PROVE SupersededSound'
  BY DEF SupersededSound, cleanup
<1>0. phase' = phase /\ pending' = pending /\ view' = view /\ doomed' = doomed
  BY DEF cleanup
<1>1. /\ \A d \in pending : view[d] # None
      /\ \A d \in Ids : ViewSound(d)
      /\ \A d \in Ids : view[d] # None => documents[d] # None
      /\ \A r \in doomed : /\ DocumentOf[r] \notin pending
                           /\ documents[DocumentOf[r]] # None
                           /\ Active(DocumentOf[r]) # None /\ r < Active(DocumentOf[r])
  BY DEF SupersededSound
<1>2. ASSUME NEW d \in Ids, documents[d] # None, Active(d) # None
      PROVE  /\ Active(d)' # None /\ Active(d)' \in Nat /\ Active(d) \in Nat
             /\ Active(d) <= Active(d)'
             /\ Active(d)' = Active(d) =>
                  \A r \in RunsOf(d) : runs'[r] = "completed" <=> runs[r] = "completed"
             /\ \A r \in RunsOf(d) : runs[r] = "completed" => runs'[r] = "completed"
  <2>1. Active(d) \in Nat /\ Overtaken(d)
    BY <1>2, ActiveRun DEF OthersKeepDocuments
  <2>2. Active(d)' \in RunsOf(d) => Active(d)' \in Nat /\ Active(d)' # None
    BY NoIdAssumption, RunsAreNaturals
  <2> QED BY <1>2, <2>1, <2>2 DEF Overtaken
<1>3. ASSUME NEW d \in Ids PROVE ViewSound(d)'
  <2>1. SUFFICES ASSUME view[d] # None, view[d].active_run_id # None PROVE ViewSound(d)'
    BY <1>0 DEF ViewSound
  <2>2. PICK a \in {view[d].active_run_id} : a = view[d].active_run_id
    OBVIOUS
  <2>3. /\ documents[d] # None /\ Active(d) # None
        /\ a \in RunsOf(d) /\ runs[a] = "completed" /\ a <= Active(d) /\ a \notin doomed
        /\ LET before == {r \in RunsOf(d) : runs[r] = "completed" /\ r < a}
           IN  Active(d) = a /\ before # {} => ~(before \subseteq doomed)
    BY <1>1, <2>1, <2>2 DEF ViewSound
  <2>4. a \in Nat
    BY <2>3, RunsAreNaturals
  <2>5. Active(d)' # None /\ a <= Active(d)' /\ runs'[a] = "completed" /\ documents'[d] # None
    BY <1>2, <2>3, <2>4 DEF OthersKeepDocuments
  <2>6. LET before == {r \in RunsOf(d) : runs'[r] = "completed" /\ r < a}
        IN  Active(d)' = a /\ before # {} => ~(before \subseteq doomed)
    <3>1. ASSUME Active(d)' = a
          PROVE  /\ Active(d) = a
                 /\ \A r \in RunsOf(d) : runs'[r] = "completed" <=> runs[r] = "completed"
      BY <1>2, <2>3, <2>4, <3>1
    <3> QED BY <2>3, <3>1
  <2> QED BY <1>0, <2>2, <2>3, <2>5, <2>6 DEF ViewSound, RunsOf
<1>4. ASSUME NEW r \in doomed
      PROVE  /\ documents'[DocumentOf[r]] # None
             /\ Active(DocumentOf[r])' # None /\ r < Active(DocumentOf[r])'
  <2>1. r \in Runs /\ r \in Nat /\ DocumentOf[r] \in Ids
    BY IdsAssumption, DocumentOfIdAssumption DEF PassSound
  <2>2. PICK d \in Ids : /\ d = DocumentOf[r] /\ documents[d] # None
                         /\ Active(d) # None /\ r < Active(d)
    BY <1>1, <2>1
  <2>3. documents'[d] # None /\ Active(d)' # None /\ r < Active(d)'
    BY <1>2, <2>1, <2>2 DEF OthersKeepDocuments
  <2> QED BY <2>2, <2>3
<1>5. \A d \in Ids : view[d] # None => documents'[d] # None
  BY <1>1 DEF OthersKeepDocuments
<1> QED BY <1>0, <1>1, <1>3, <1>4, <1>5 DEF SupersededSound

LEMMA QueuesOvertakes ==
    ASSUME TypeOK, DocumentInv, NEW q, NEW d, NEW r, NEW row, Admissible(q, d, r, row)
    PROVE  OthersKeepDocuments
<1>1. /\ d \in Ids /\ r \in Runs /\ ~Exists(r)
      /\ runs'[r] = "inflight" /\ \A s \in Runs \ {r} : runs'[s] = runs[s]
      /\ documents'[d] # None /\ documents'[d].active_run_id = row.active_run_id
      /\ \A e \in Ids \ {d} : documents'[e] = documents[e]
      /\ documents[d] # None => row = documents[d]
  BY DocumentColumns DEF Admissible, Queues
<1>2. ASSUME NEW e \in Ids, documents[e] # None
      PROVE  documents'[e] # None /\ Overtaken(e)
  <2>1. documents'[e] # None /\ Active(e)' = Active(e)
    BY <1>1, <1>2 DEF Active
  <2>2. \A s \in RunsOf(e) : runs'[s] = "completed" <=> runs[s] = "completed"
    BY <1>1, RunsAreNaturals DEF Exists
  <2> QED BY <2>1, <2>2 DEF Overtaken
<1> QED BY <1>2 DEF OthersKeepDocuments

(* A request either queues a run or leaves documents and runs alone.       *)
LEMMA RequestQueues ==
    ASSUME TypeOK, RequestInv, DocumentInv, NEW q \in Requests, RequestStep(q)
    PROVE  \/ UNCHANGED <<documents, runs>>
           \/ \E d, r, row : Admissible(q, d, r, row)
<1>1. CASE QueueRecovery(q)
  BY <1>1, RecoveryAdmissible
<1>2. CASE Commit(q) /\ Creates(q)
  BY <1>2, CommitAdmissible
<1>3. CASE ~QueueRecovery(q) /\ ~(Commit(q) /\ Creates(q))
  BY <1>3, TypeParts, QuietSteps, CommitEffect DEF Rest
<1> QED BY <1>1, <1>2, <1>3

LEMMA RequestOvertakes ==
    ASSUME TypeOK, RequestInv, DocumentInv, NEW q \in Requests, RequestStep(q)
    PROVE  OthersKeepDocuments
<1>1. CASE UNCHANGED <<documents, runs>>
  BY <1>1 DEF OthersKeepDocuments, Overtaken, Active
<1> QED BY <1>1, RequestQueues, QueuesOvertakes

LEMMA EndOvertakes ==
    ASSUME TypeOK, RequestInv, DocumentInv, EndStep
    PROVE  OthersKeepDocuments
<1>1. PICK r \in Runs : RunSucceeds(r) \/ RunFails(r) \/ Expire(r)
  BY DEF EndStep
<1>2. SessionType /\ DatabaseType /\ DocumentOf[r] \in Ids
  BY TypeParts, DocumentOfIdAssumption
<1>3. /\ runs[r] \in {"inflight", "failed"}
      /\ runs'[r] \in {"completed", "failed", "expired"}
      /\ \A s \in Runs \ {r} : runs'[s] = runs[s]
  BY <1>1, <1>2, EndEffect
<1>4. PICK d \in Ids : d = DocumentOf[r] /\ documents[d] # None
  BY <1>2, <1>3 DEF RequestInv, NoOrphans
<1>5. CASE RunFails(r) \/ Expire(r)
  <2>1. documents' = documents /\ runs'[r] # "completed"
    BY <1>2, <1>5 DEF RunFails, Expire, DatabaseType
  <2>2. \A s \in Runs : runs'[s] = "completed" <=> runs[s] = "completed"
    BY <1>3, <2>1
  <2> QED BY <2>1, <2>2 DEF OthersKeepDocuments, Overtaken, Active, RunsOf
<1>6. CASE RunSucceeds(r)
  <2>1. /\ runs[r] = "inflight" /\ documents'[d] \in DocumentRow
        /\ documents'[d].active_run_id = r
        /\ \A e \in Ids \ {d} : documents'[e] = documents[e]
    BY <1>2, <1>4, <1>6, SucceedEffect
  <2>2. ASSUME NEW e \in Ids \ {d}, documents[e] # None
        PROVE  documents'[e] # None /\ Overtaken(e)
    <3>1. \A s \in RunsOf(e) : runs'[s] = runs[s]
      BY <1>3, <1>4 DEF RunsOf
    <3> QED BY <2>1, <2>2, <3>1 DEF Overtaken, Active
  <2>3. documents'[d] # None /\ Overtaken(d)
    <3>1. documents'[d] # None /\ Active(d)' = r
      BY <2>1, DocumentColumns DEF Active
    <3>2. r \in RunsOf(d) /\ DocumentSound(d)
      BY <1>4 DEF RunsOf, DocumentInv
    <3>3. Active(d) # None => Active(d) < r
      <4>1. ASSUME Active(d) # None PROVE Active(d) < r
        <5>1. /\ Active(d) \in RunsOf(d) /\ Active(d) \in Nat /\ r \in Nat
              /\ runs[Active(d)] = "completed"
          BY <3>2, <4>1, ActiveRun, RunsAreNaturals
        <5>2. r = documents[d].latest_run_id /\ Active(d) <= documents[d].latest_run_id
          BY <1>4, <2>1, <3>2, <5>1 DEF DocumentSound, InFlight, Exists
        <5>3. Active(d) # r
          BY <2>1, <5>1
        <5> QED BY <5>1, <5>2, <5>3
      <4> QED BY <4>1
    <3>4. \A s \in RunsOf(d) : runs[s] = "completed" => runs'[s] = "completed"
      BY <1>3, <2>1, RunsAreNaturals
    <3> QED BY <3>1, <3>2, <3>3, <3>4 DEF Overtaken
  <2> QED BY <2>2, <2>3 DEF OthersKeepDocuments
<1> QED BY <1>1, <1>5, <1>6

(* What is doomed is left alone until it is deleted.                       *)
LEMMA ExpiredKept ==
    ASSUME CleanupUndisturbed, TypeOK, RequestInv, DocumentInv, ExpiredSound,
           UNCHANGED cleanup, Undisturbed,
           \/ \E q \in Requests : RequestStep(q)
           \/ EndStep
    PROVE  ExpiredSound'
<1> SUFFICES ASSUME phase = "expired", NEW d \in doomed
             PROVE  /\ d \in Ids /\ documents'[d] # None
                    /\ Active(d)' = None /\ ExpiredFailures(d)' /\ ~Locked(d)'
  BY DEF ExpiredSound, cleanup
<1>1. d \in Ids /\ documents[d] # None /\ Active(d) = None /\ ExpiredFailures(d)
  BY DEF ExpiredSound
<1>2. documents'[d] = documents[d]
  BY DEF Undisturbed, cleanup
<1>3. ~Locked(d)'
  BY DEF Undisturbed, Locked, cleanup
<1>4. ExpiredFailures(d)'
  <2>1. ASSUME NEW q \in Requests, RequestStep(q) PROVE ExpiredFailures(d)'
    <3>1. CASE UNCHANGED <<documents, runs>>
      BY <1>1, <3>1 DEF ExpiredFailures, RunsOf
    <3>2. ASSUME NEW e, NEW r, NEW row, Admissible(q, e, r, row)
          PROVE  ExpiredFailures(d)'
      <4>1. /\ r \in RunsOf(e) /\ ~Exists(r) /\ documents'[e].latest_run_id = r
            /\ e \in Ids /\ \A s \in Runs \ {r} : runs'[s] = runs[s]
        BY <3>2 DEF Admissible, Queues, Follows
      <4>2. e # d
        BY <1>1, <1>2, <4>1 DEF DocumentInv, DocumentSound
      <4>3. \A s \in RunsOf(d) : runs'[s] = runs[s]
        BY <4>1, <4>2 DEF RunsOf
      <4> QED BY <1>1, <4>3 DEF ExpiredFailures, RunsOf
    <3> QED BY <2>1, <3>1, <3>2, RequestQueues
  <2>2. ASSUME EndStep PROVE ExpiredFailures(d)'
    <3>1. PICK r \in Runs : RunSucceeds(r) \/ RunFails(r) \/ Expire(r)
      BY <2>2 DEF EndStep
    <3>2. runs[r] \in {"inflight", "failed"} /\ \A s \in Runs \ {r} : runs'[s] = runs[s]
      BY <3>1, TypeParts, EndEffect
    <3>3. \A s \in RunsOf(d) : s # r /\ runs'[s] = runs[s]
      BY <1>1, <3>2, RunsAreNaturals DEF ExpiredFailures
    <3> QED BY <1>1, <3>3 DEF ExpiredFailures, RunsOf
  <2> QED BY <2>1, <2>2
<1> QED BY <1>1, <1>2, <1>3, <1>4 DEF Active

LEMMA DoomDocumentInv ==
    ASSUME CleanupTypeOK, PassSound, CleanupInv, Undisturbed, CleanupUndisturbed,
           NEW d \in Ids, DoomDocument(d)
    PROVE  CleanupInv'
<1>1. /\ UNCHANGED <<documents, runs, pc, session, phase>> /\ phase = "expired"
      /\ doomed' = doomed \/ (/\ doomed' = doomed \cup {d} /\ documents[d] # None
                              /\ Active(d) = None /\ ExpiredFailures(d))
  BY DEF DoomDocument
<1>2. ASSUME NEW e \in doomed'
      PROVE  /\ e \in Ids /\ documents'[e] # None /\ Active(e)' = None
             /\ ExpiredFailures(e)' /\ ~Locked(e)'
  <2>1. e \in Ids /\ documents[e] # None /\ Active(e) = None /\ ExpiredFailures(e)
    BY <1>1, <1>2 DEF CleanupInv, ExpiredSound
  <2>2. ~Locked(e)'
    BY <1>1, <1>2 DEF Undisturbed, Locked
  <2> QED BY <1>1, <2>1, <2>2 DEF Active, ExpiredFailures
<1> QED BY <1>1, <1>2 DEF CleanupInv, ExpiredSound, SupersededSound

(* A pass keeps the active run, and the last successful one before it.     *)
LEMMA DoomRunsInv ==
    ASSUME CleanupTypeOK, RequestInv, PassSound, DocumentInv, CleanupInv,
           NEW d \in Ids, DoomRuns(d)
    PROVE  CleanupInv'
<1> DEFINE successful == {r \in RunsOf(d) : runs[r] = "completed"}
           kept == Keeps(successful, view[d].active_run_id)
<1>1. /\ UNCHANGED <<documents, runs, pc, session, phase, view>> /\ phase = "superseded"
      /\ d \in pending /\ pending' = pending \ {d}
      /\ doomed' = doomed \cup (successful \ kept)
  BY DEF DoomRuns, vars, database
<1>2. /\ view[d] # None
      /\ \A e \in Ids : ViewSound(e)
      /\ \A e \in Ids : view[e] # None => documents[e] # None
      /\ \A e \in pending : view[e] # None
      /\ \A r \in doomed : /\ DocumentOf[r] \notin pending
                           /\ documents[DocumentOf[r]] # None
                           /\ Active(DocumentOf[r]) # None /\ r < Active(DocumentOf[r])
  BY <1>1 DEF CleanupInv, SupersededSound
<1>3. \A r \in successful : /\ r \in Runs /\ r \in Nat /\ DocumentOf[r] = d
                            /\ documents[d] # None /\ Active(d) # None /\ r <= Active(d)
  BY RunsAreNaturals, SuccessfulRuns
<1>4. Active(d) # None => Active(d) \in successful /\ Active(d) \in Nat
  BY ActiveRun
<1>5. ASSUME NEW r \in successful \ kept
      PROVE  r < Active(d)
  <2>1. r # Active(d)
    BY <1>3, <1>4, <1>5 DEF Keeps
  <2> QED BY <1>3, <1>4, <1>5, <2>1
<1>6. ASSUME NEW e \in Ids PROVE ViewSound(e)'
  <2>1. SUFFICES ASSUME view[e] # None, view[e].active_run_id # None PROVE ViewSound(e)'
    BY <1>1 DEF ViewSound
  <2>2. PICK a \in {view[e].active_run_id} : a = view[e].active_run_id
    OBVIOUS
  <2> DEFINE before == {r \in RunsOf(e) : runs[r] = "completed" /\ r < a}
  <2>3. /\ documents[e] # None /\ Active(e) # None
        /\ a \in RunsOf(e) /\ runs[a] = "completed" /\ a <= Active(e) /\ a \notin doomed
        /\ Active(e) = a /\ before # {} => ~(before \subseteq doomed)
    BY <1>2, <2>1, <2>2 DEF ViewSound
  <2>4. /\ a \notin doomed'
        /\ Active(e) = a /\ before # {} => ~(before \subseteq doomed')
    <3>1. CASE e # d
      <4>1. \A r \in successful \ kept : r \notin RunsOf(e)
        BY <1>3, <3>1, RunsAreNaturals
      <4> HIDE DEF successful, kept
      <4> QED BY <1>1, <2>3, <4>1
    <3>2. CASE e = d
      <4>1. a \in successful /\ a \in kept
        BY <2>2, <2>3, <3>2 DEF Keeps
      <4>2. ASSUME Active(d) = a, before # {}
            PROVE  ~(before \subseteq doomed')
        <5>1. before \in SUBSET Nat /\ a \in Nat /\ \A r \in before : r <= a
          BY <1>3, <2>3, <3>2
        <5>2. PICK k \in before : \A r \in before : r <= k
          <6> HIDE DEF before
          <6> QED BY <4>2, <5>1, Greatest
        <5>3. k \in successful \ {a}
          BY <1>3, <3>2, <5>2, <4>1
        <5>4. ASSUME NEW s \in successful \ {a} PROVE s <= k
          <6>1. s < a
            BY <1>3, <4>2, <5>4, <5>1
          <6> QED BY <3>2, <5>2, <6>1
        <5>5. k \in kept
          BY <2>2, <3>2, <5>3, <5>4 DEF Keeps
        <5>6. k \notin doomed
          BY <1>1, <1>2, <1>3, <5>3
        <5> HIDE DEF successful, kept, before
        <5> QED BY <1>1, <5>2, <5>5, <5>6
      <4> HIDE DEF successful, kept
      <4> QED BY <1>1, <2>3, <3>2, <4>1, <4>2
    <3> QED BY <3>1, <3>2
  <2>5. Active(e)' = Active(e)
    BY <1>1 DEF Active
  <2> QED BY <1>1, <2>2, <2>3, <2>4, <2>5 DEF ViewSound, RunsOf
<1>7. ASSUME NEW r \in doomed'
      PROVE  /\ DocumentOf[r] \notin pending' /\ documents'[DocumentOf[r]] # None
             /\ Active(DocumentOf[r])' # None /\ r < Active(DocumentOf[r])'
  <2>1. PICK e \in {DocumentOf[r]} : e = DocumentOf[r]
    OBVIOUS
  <2>2. e \notin pending' /\ documents[e] # None /\ Active(e) # None /\ r < Active(e)
    <3>1. CASE r \in doomed
      BY <1>1, <1>2, <2>1, <3>1
    <3>2. CASE r \in successful \ kept
      <4>1. e = d
        BY <1>3, <2>1, <3>2
      <4> QED BY <1>1, <1>3, <1>5, <3>2, <4>1
    <3> HIDE DEF successful, kept
    <3> QED BY <1>1, <3>1, <3>2
  <2> QED BY <1>1, <2>1, <2>2 DEF Active
<1> QED BY <1>1, <1>2, <1>6, <1>7 DEF CleanupInv, ExpiredSound, SupersededSound

LEMMA BeginInv ==
    ASSUME PassSound, DocumentInv, BeginExpired \/ BeginSuperseded
    PROVE  CleanupInv'
<1>1. CASE BeginExpired
  BY <1>1 DEF BeginExpired, PassSound, CleanupInv, ExpiredSound, SupersededSound
<1>2. CASE BeginSuperseded
  <2>1. /\ UNCHANGED <<documents, runs>> /\ phase' = "superseded"
        /\ pending' = {d \in Ids : documents[d] # None} /\ view' = documents
        /\ doomed' = {}
    BY <1>2 DEF BeginSuperseded, PassSound, vars, database
  <2>2. ASSUME NEW d \in Ids PROVE ViewSound(d)'
    <3>1. SUFFICES ASSUME documents[d] # None, documents[d].active_run_id # None
                   PROVE  ViewSound(d)'
      BY <2>1 DEF ViewSound
    <3>2. PICK a \in {Active(d)} : a = documents[d].active_run_id /\ a # None
      BY <3>1, ActiveRun
    <3>3. a \in RunsOf(d) /\ a \in Nat /\ runs[a] = "completed" /\ Active(d)' = a
      BY <2>1, <3>1, <3>2, ActiveRun DEF Active
    <3> QED BY <2>1, <3>1, <3>2, <3>3 DEF ViewSound, RunsOf
  <2> QED BY <2>1, <2>2 DEF CleanupInv, ExpiredSound, SupersededSound
<1> QED BY <1>1, <1>2

LEMMA CleanupStepCleanupInv ==
    ASSUME CleanupUndisturbed, CleanupTypeOK, RequestInv, PassSound, DocumentInv, CleanupInv,
           CleanupStep, Undisturbed
    PROVE  CleanupInv'
<1>1. CASE CommitExpired \/ CommitSuperseded \/ CleanupDies
  BY <1>1 DEF CommitExpired, CommitSuperseded, CleanupDies, Finish,
              CleanupInv, ExpiredSound, SupersededSound
<1> QED BY <1>1, BeginInv, DoomDocumentInv, DoomRunsInv DEF CleanupStep

-------------------------------------------------------------------------------
(* Documents and the cleanup together                                      *)

LEMMA CarefulSteps ==
    ASSUME CleanupNext
    PROVE  \/ \E q \in Requests : PromptStep(q) /\ UNCHANGED cleanup /\ Undisturbed
           \/ PromptEnd /\ UNCHANGED cleanup
              /\ (Undisturbed \/ \E r \in Runs : Expire(r))
           \/ CleanupStep /\ Undisturbed
BY DEF CleanupNext, Next, PromptStep, PromptEnd, WorkerStep, Expire

(* The passage of time changes nothing that is doomed.                     *)
LEMMA ExpireKept ==
    ASSUME ExpiredSound, NEW r \in Runs, Expire(r)
    PROVE  ExpiredSound'
<1> SUFFICES ASSUME phase = "expired", NEW d \in doomed
             PROVE  /\ d \in Ids /\ documents'[d] # None
                    /\ Active(d)' = None /\ ExpiredFailures(d)' /\ ~Locked(d)'
  BY DEF ExpiredSound, Expire, cleanup
<1>1. d \in Ids /\ documents[d] # None /\ Active(d) = None /\ ExpiredFailures(d) /\ ~Locked(d)
  BY DEF ExpiredSound
<1>2. UNCHANGED <<documents, pc, session>> /\ runs' = [runs EXCEPT ![r] = "expired"]
  BY DEF Expire
<1>3. ExpiredFailures(d)'
  BY <1>1, <1>2 DEF ExpiredFailures, RunsOf
<1> QED BY <1>1, <1>2, <1>3 DEF Active, Locked, session

LEMMA StoreNext ==
    ASSUME ReadsPrompt, CleanupUndisturbed, StoreInv, [CleanupNext]_allVars
    PROVE  StoreInv'
<1>0. /\ BaseInv /\ DocumentInv /\ CleanupInv /\ BaseInv'
      /\ TypeOK /\ RequestInv /\ PassSound /\ CleanupTypeOK
  BY CleanupBaseNext, CleanupTypeParts DEF StoreInv, BaseInv
<1>1. ASSUME NEW q \in Requests, PromptStep(q), UNCHANGED cleanup, Undisturbed
      PROVE  DocumentInv' /\ CleanupInv'
  <2>1. RequestStep(q)
    BY <1>1 DEF PromptStep, RequestStep
  <2> QED BY <1>0, <1>1, <2>1, RequestDocumentInv, RequestOvertakes, SupersededKept, ExpiredKept
          DEF CleanupInv
<1>2. ASSUME PromptEnd, UNCHANGED cleanup, Undisturbed \/ \E r \in Runs : Expire(r)
      PROVE  DocumentInv' /\ CleanupInv'
  <2>1. EndStep
    BY <1>2 DEF PromptEnd, EndStep
  <2>2. ExpiredSound'
    BY <1>0, <1>2, <2>1, ExpiredKept, ExpireKept DEF CleanupInv
  <2> QED BY <1>0, <1>2, <2>1, <2>2, EndDocumentInv, EndOvertakes, SupersededKept DEF CleanupInv
<1>3. ASSUME CleanupStep, Undisturbed
      PROVE  DocumentInv' /\ CleanupInv'
  <2>1. Looking \/ CommitExpired \/ CommitSuperseded
    BY <1>3 DEF CleanupStep, Looking
  <2> QED BY <1>0, <1>3, <2>1, CleanupStepCleanupInv, LookingDocumentInv, ExpiredDocumentInv,
             SupersededDocumentInv
<1>4. CASE UNCHANGED allVars
  <2>1. UNCHANGED <<documents, runs, sources, pc, request, loaded, answer,
                    phase, pending, view, doomed>>
    BY <1>4 DEF allVars, vars, database, session, cleanup
  <2>2. DocumentInv'
    <3>1. \A d \in Ids : DocumentSound(d)' = DocumentSound(d)
      BY <2>1 DEF DocumentSound, Exists, InFlight, RunsOf
    <3>2. Spared
      BY <1>4, <2>1 DEF Spared, Exists, InFlight, allVars, vars, session
    <3> QED BY <1>0, <3>1, <3>2, SparedDocuments, TypeParts DEF DocumentInv
  <2>3. CleanupInv'
    <3>1. \A d : /\ Active(d)' = Active(d) /\ ExpiredFailures(d)' = ExpiredFailures(d)
                 /\ Locked(d)' = Locked(d) /\ RunsOf(d)' = RunsOf(d)
      BY <2>1 DEF Active, ExpiredFailures, RunsOf, Locked
    <3>2. \A d \in Ids : ViewSound(d)' = ViewSound(d)
      BY <2>1, <3>1 DEF ViewSound
    <3>3. SupersededSound'
      BY <1>0, <2>1, <3>2 DEF CleanupInv, SupersededSound, Active
    <3> QED BY <1>0, <2>1, <3>1, <3>3 DEF CleanupInv, ExpiredSound
  <2> QED BY <1>0, <2>2, <2>3 DEF StoreInv
<1> QED BY <1>0, <1>1, <1>2, <1>3, <1>4, CarefulSteps DEF StoreInv

LEMMA StoreInit == CleanupInit => StoreInv
<1> SUFFICES ASSUME CleanupInit PROVE StoreInv
  OBVIOUS
<1>1. BaseInv
  BY CleanupBaseInit
<1>2. DocumentInv
  BY LocationSets DEF CleanupInit, Init, DocumentInv, RunsInOrder, OneDocumentPerChecksum, Exists,
       DocumentSound, ResolvingSound, InsertingSound, Inserting, LockSound
<1>3. CleanupInv
  BY DEF CleanupInit, CleanupInv, ExpiredSound, SupersededSound
<1> QED BY <1>1, <1>2, <1>3 DEF StoreInv

(* In a careful deployment what the sessions and the cleanup command hold  *)
(* is always still so.                                                     *)
THEOREM StoreCorrect == ReadsPrompt /\ CleanupUndisturbed => (CleanupSpec => []StoreInv)
<1> SUFFICES ASSUME ReadsPrompt /\ CleanupUndisturbed PROVE CleanupSpec => []StoreInv
  OBVIOUS
<1>1. StoreInv /\ [CleanupNext]_allVars => StoreInv'
  BY StoreNext
<1> QED BY <1>1, StoreInit, PTL DEF CleanupSpec

-------------------------------------------------------------------------------
(* What users see of it                                                    *)

(* A document is whole as long as a run may be parsed for it.              *)
THEOREM DocumentsCompleteCorrect ==
    ASSUME CarefulDeployment PROVE CleanupSpec => []DocumentsComplete
<1>1. StoreInv => DocumentsComplete
  <2> SUFFICES ASSUME StoreInv PROVE DocumentsComplete
    OBVIOUS
  <2>1. ASSUME NEW r \in Runs, InFlight(r)
        PROVE  DocumentOf[r] \in sources /\ documents[DocumentOf[r]] # None
    <3>1. PICK d \in Ids : d = DocumentOf[r] /\ r \in RunsOf(d)
      BY DocumentOfIdAssumption DEF RunsOf
    <3>2. documents[d] # None /\ DocumentSound(d)
      BY <2>1, <3>1 DEF StoreInv, BaseInv, RequestInv, NoOrphans, DocumentInv, InFlight
    <3>3. ~(phase = "expired" /\ d \in doomed)
      BY <2>1, <3>1 DEF StoreInv, CleanupInv, ExpiredSound, ExpiredFailures, InFlight
    <3> QED BY <3>1, <3>2, <3>3 DEF DocumentSound
  <2> QED BY <2>1 DEF DocumentsComplete, StoreInv, DocumentInv, OneDocumentPerChecksum
<1>2. CleanupSpec => []StoreInv
  BY StoreCorrect DEF CarefulDeployment
<1> QED BY <1>1, <1>2, PTL

(* A document has one run in flight at a time.                             *)
THEOREM OneRunInFlightCorrect ==
    ASSUME CarefulDeployment PROVE CleanupSpec => []OneRunInFlight
<1>1. StoreInv => OneRunInFlight
  <2> SUFFICES ASSUME StoreInv, NEW r \in Runs, NEW s \in Runs,
                      InFlight(r), InFlight(s), DocumentOf[r] = DocumentOf[s]
               PROVE  r = s
    BY DEF OneRunInFlight
  <2>1. PICK d \in Ids : d = DocumentOf[r] /\ r \in RunsOf(d) /\ s \in RunsOf(d)
    BY DocumentOfIdAssumption DEF RunsOf
  <2>2. documents[d] # None /\ DocumentSound(d)
    BY <2>1 DEF StoreInv, BaseInv, RequestInv, NoOrphans, DocumentInv, InFlight
  <2> QED BY <2>1, <2>2 DEF DocumentSound
<1>2. CleanupSpec => []StoreInv
  BY StoreCorrect DEF CarefulDeployment
<1> QED BY <1>1, <1>2, PTL

(* The kinds of steps, as far as documents and runs are concerned.         *)
LEMMA StoreSteps ==
    ASSUME StoreInv, [CleanupNext]_allVars
    PROVE  \/ UNCHANGED <<documents, runs>>
           \/ \E q \in Requests : \E d, r, row : Admissible(q, d, r, row)
           \/ EndStep
           \/ CommitExpired \/ CommitSuperseded
<1>0. /\ DocumentInv /\ TypeOK /\ RequestInv /\ CleanupTypeOK
  BY CleanupTypeParts DEF StoreInv, BaseInv
<1>1. CASE UNCHANGED allVars
  BY <1>1 DEF allVars, vars, database
<1>2. ASSUME NEW q \in Requests, RequestStep(q)
      PROVE  \/ UNCHANGED <<documents, runs>> \/ \E d, r, row : Admissible(q, d, r, row)
  BY <1>0, <1>2, RequestQueues
<1>3. Looking => UNCHANGED <<documents, runs>>
  BY <1>0, LookingEffect
<1> QED BY <1>1, <1>2, <1>3, CleanupKinds DEF CleanupStep, Looking

(* Steps other than the commits of a pass keep every successful run.       *)
LEMMA OthersKeep ==
    ASSUME StoreInv, [CleanupNext]_allVars, ~CommitExpired, ~CommitSuperseded
    PROVE  OthersKeepDocuments
<1>0. /\ DocumentInv /\ TypeOK /\ RequestInv
  BY CleanupTypeParts DEF StoreInv, BaseInv
<1>1. CASE UNCHANGED <<documents, runs>>
  BY <1>1 DEF OthersKeepDocuments, Overtaken, Active
<1> QED BY <1>0, <1>1, StoreSteps, QueuesOvertakes, EndOvertakes

LEMMA ExpiredPass ==
    ASSUME StoreInv, CommitExpired
    PROVE  /\ \A d \in Ids : Active(d)' = Active(d)
           /\ \A r \in Runs : runs[r] = "completed" => runs'[r] = "completed"
           /\ \A r \in Runs : \/ runs'[r] = runs[r]
                              \/ runs[r] = "expired" /\ runs'[r] = "purged"
<1>0. DocumentInv /\ CleanupInv /\ SessionType /\ DatabaseType
  BY CleanupTypeParts, TypeParts DEF StoreInv, BaseInv
<1>1. /\ phase = "expired"
      /\ \A d \in Ids : documents'[d] = IF d \in doomed THEN None ELSE documents[d]
      /\ \A r \in Runs : runs'[r] = IF DocumentOf[r] \in doomed /\ runs[r] # "absent"
                                    THEN "purged" ELSE runs[r]
  BY <1>0, ExpiredEffect DEF CommitExpired
<1>2. \A d \in Ids : Active(d)' = Active(d)
  BY <1>0, <1>1 DEF Active, CleanupInv, ExpiredSound
<1>3. ASSUME NEW r \in Runs, DocumentOf[r] \in doomed, runs[r] # "absent"
      PROVE  runs[r] = "expired"
  <2>1. PICK d \in Ids : d = DocumentOf[r] /\ r \in RunsOf(d)
    BY DocumentOfIdAssumption DEF RunsOf
  <2>2. documents[d] # None /\ Active(d) = None /\ ExpiredFailures(d) /\ DocumentSound(d)
    BY <1>0, <1>1, <1>3, <2>1 DEF CleanupInv, ExpiredSound, DocumentInv
  <2> QED BY <1>3, <2>1, <2>2 DEF ExpiredFailures, DocumentSound, Active
<1>4. \A r \in Runs : \/ runs'[r] = runs[r]
                      \/ runs[r] = "expired" /\ runs'[r] = "purged"
  BY <1>1, <1>3
<1> QED BY <1>2, <1>4

LEMMA SupersededPass ==
    ASSUME StoreInv, CommitSuperseded
    PROVE  /\ \A d \in Ids : documents'[d] = documents[d] /\ Active(d)' = Active(d)
           /\ \A r \in Runs : runs'[r] = IF r \in doomed THEN "superseded" ELSE runs[r]
           /\ \A r \in doomed : r \in Runs /\ runs[r] = "completed"
           /\ \A r \in doomed : r < Active(DocumentOf[r])
           /\ \A d \in Ids : ViewSound(d)
<1>0. DocumentInv /\ CleanupInv /\ DatabaseType /\ PassSound
  BY CleanupTypeParts, TypeParts DEF StoreInv, BaseInv
<1>1. \A d \in Ids : documents'[d] = documents[d]
  BY <1>0, SupersededDocuments
<1>2. phase = "superseded"
  BY DEF CommitSuperseded
<1> QED BY <1>0, <1>1, <1>2, SupersededEffect
        DEF Active, PassSound, CleanupInv, SupersededSound

LEMMA ServedStep ==
    ASSUME StoreInv, [CleanupNext]_allVars, NEW d \in Ids, Active(d) # None
    PROVE  LET before == {r \in RunsOf(d) : runs[r] = "completed" /\ r < Active(d)}
           IN  /\ Active(d)' # None
               /\ runs'[Active(d)] = "completed"
               /\ view # None /\ view[d] # None /\ view[d].active_run_id # None
                     /\ before # {}
                  => \E r \in before : runs'[r] = "completed"
<1> DEFINE before == {r \in RunsOf(d) : runs[r] = "completed" /\ r < Active(d)}
<1>0. DocumentInv
  BY DEF StoreInv
<1>1. /\ documents[d] # None /\ Active(d) \in RunsOf(d) /\ Active(d) \in Nat
      /\ Active(d) \in Runs /\ runs[Active(d)] = "completed" /\ DocumentOf[Active(d)] = d
  BY <1>0, ActiveRun, RunsAreNaturals
<1>2. before \subseteq Runs /\ \A r \in before : runs[r] = "completed"
  BY RunsAreNaturals
<1>3. CASE ~CommitExpired /\ ~CommitSuperseded
  <2>1. Overtaken(d)
    BY <1>1, <1>3, OthersKeep DEF OthersKeepDocuments
  <2>2. Active(d)' # None /\ \A r \in RunsOf(d) : runs[r] = "completed" => runs'[r] = "completed"
    BY <2>1, NoIdAssumption, RunsAreNaturals DEF Overtaken
  <2> QED BY <1>1, <2>2
<1>4. CASE CommitExpired
  <2>1. Active(d)' = Active(d) /\ \A r \in Runs : runs[r] = "completed" => runs'[r] = "completed"
    BY <1>4, ExpiredPass
  <2> QED BY <1>1, <1>2, <2>1
<1>5. CASE CommitSuperseded
  <2>1. /\ Active(d)' = Active(d) /\ ViewSound(d)
        /\ \A r \in Runs : runs'[r] = IF r \in doomed THEN "superseded" ELSE runs[r]
        /\ \A r \in doomed : r < Active(DocumentOf[r])
    BY <1>5, SupersededPass
  <2>2. Active(d) \notin doomed
    BY <1>1, <2>1
  <2>3. ASSUME view[d] # None, view[d].active_run_id # None, before # {}
        PROVE  \E r \in before : runs'[r] = "completed"
    <3>1. PICK a \in {view[d].active_run_id} : a = view[d].active_run_id
      OBVIOUS
    <3>2. /\ a \in RunsOf(d) /\ runs[a] = "completed" /\ a <= Active(d) /\ a \notin doomed
          /\ LET earlier == {r \in RunsOf(d) : runs[r] = "completed" /\ r < a}
             IN  Active(d) = a /\ earlier # {} => ~(earlier \subseteq doomed)
      BY <2>1, <2>3, <3>1 DEF ViewSound
    <3>3. CASE Active(d) = a
      <4>1. PICK r \in before : r \notin doomed
        BY <2>3, <3>2, <3>3
      <4> QED BY <1>2, <2>1, <4>1
    <3>4. CASE Active(d) # a
      <4>1. a \in before /\ a \in Nat
        BY <1>1, <3>2, <3>4, RunsAreNaturals
      <4> QED BY <1>2, <2>1, <3>2, <4>1
    <3> QED BY <3>3, <3>4
  <2> QED BY <1>1, <2>1, <2>2, <2>3
<1> QED BY <1>3, <1>4, <1>5

(* The cleanup never takes the run a document serves, nor the one before   *)
(* it.                                                                     *)
THEOREM ServedRunsKeptCorrect ==
    ASSUME CarefulDeployment PROVE CleanupSpec => ServedRunsKept
<1> DEFINE Kept ==
      \A d \in Ids :
         Active(d) # None =>
            LET before == {r \in RunsOf(d) : runs[r] = "completed" /\ r < Active(d)}
            IN  /\ Active(d)' # None
                /\ runs'[Active(d)] = "completed"
                /\ view # None /\ view[d] # None /\ view[d].active_run_id # None
                      /\ before # {}
                   => \E r \in before : runs'[r] = "completed"
<1>1. CleanupSpec => []StoreInv
  BY StoreCorrect DEF CarefulDeployment
<1>2. StoreInv /\ [CleanupNext]_allVars => [Kept]_allVars
  BY ServedStep
<1> QED BY <1>1, <1>2, PTL DEF CleanupSpec, ServedRunsKept

-------------------------------------------------------------------------------
(* Requests, the worker and the cleanup implement the contract             *)

Outcomes == [r \in Runs |-> Outcome(r)]
Served   == [d \in Ids |-> Active(d)]

LEMMA OutcomeValues ==
    ASSUME DatabaseType, NEW r \in Runs
    PROVE  /\ Outcome(r) = "absent" <=> runs[r] = "absent"
           /\ Outcome(r) = "pending" <=> runs[r] = "inflight"
           /\ Outcome(r) = "succeeded" <=> runs[r] \in {"completed", "superseded"}
           /\ Outcome(r) = "failed" <=> runs[r] \in {"failed", "expired", "purged"}
<1>1. runs[r] \in RunStatuses
  BY DEF DatabaseType
<1>2. CASE runs[r] = "absent"
  BY <1>2 DEF Outcome
<1>3. CASE runs[r] = "inflight"
  BY <1>3 DEF Outcome
<1>4. CASE runs[r] \in {"completed", "superseded"}
  BY <1>4 DEF Outcome
<1>5. CASE runs[r] \in {"failed", "expired", "purged"}
  BY <1>5 DEF Outcome
<1> QED BY <1>1, <1>2, <1>3, <1>4, <1>5 DEF RunStatuses

LEMMA OutcomeValuesNext ==
    ASSUME DatabaseType', NEW r \in Runs
    PROVE  /\ Outcome(r)' = "absent" <=> runs'[r] = "absent"
           /\ Outcome(r)' = "pending" <=> runs'[r] = "inflight"
           /\ Outcome(r)' = "succeeded" <=> runs'[r] \in {"completed", "superseded"}
           /\ Outcome(r)' = "failed" <=> runs'[r] \in {"failed", "expired", "purged"}
<1>1. runs'[r] \in RunStatuses
  BY DEF DatabaseType
<1>2. CASE runs'[r] = "absent"
  BY <1>2 DEF Outcome
<1>3. CASE runs'[r] = "inflight"
  BY <1>3 DEF Outcome
<1>4. CASE runs'[r] \in {"completed", "superseded"}
  BY <1>4 DEF Outcome
<1>5. CASE runs'[r] \in {"failed", "expired", "purged"}
  BY <1>5 DEF Outcome
<1> QED BY <1>1, <1>2, <1>3, <1>4, <1>5 DEF RunStatuses

LEMMA ContractStutters ==
    ASSUME \A r \in Runs : Outcome(r)' = Outcome(r), \A d \in Ids : Active(d)' = Active(d)
    PROVE  UNCHANGED Contract!vars
<1>1. Outcomes' = Outcomes /\ Served' = Served
  BY DEF Outcomes, Served
<1> QED BY <1>1 DEF Contract!vars, Outcomes, Served

LEMMA QueuesSubmit ==
    ASSUME StoreInv, StoreInv', NEW q, NEW d, NEW r, NEW row, Admissible(q, d, r, row)
    PROVE  Contract!Next
<1>0. DatabaseType /\ DatabaseType'
  BY TypeParts, CleanupTypeParts DEF StoreInv, BaseInv, CleanupTypeOK, TypeOK, DatabaseType
<1>1. /\ d \in Ids /\ r \in Runs /\ runs[r] = "absent" /\ DocumentOf[r] = d
      /\ runs'[r] = "inflight" /\ \A s \in Runs \ {r} : runs'[s] = runs[s]
      /\ \A s \in RunsOf(d) : runs[s] # "inflight"
      /\ documents'[d] # None /\ documents'[d].active_run_id = row.active_run_id
      /\ \A e \in Ids \ {d} : documents'[e] = documents[e]
      /\ documents[d] # None => row = documents[d]
      /\ documents[d] = None => row.active_run_id = None
  BY DocumentColumns, RunsAreNaturals DEF Admissible, Queues, Follows, Exists, InFlight
<1>2. \A e \in Ids : Active(e)' = Active(e)
  BY <1>1 DEF Active
<1>3. Outcome(r) = "absent" /\ Outcome(r)' = "pending"
  BY <1>0, <1>1, OutcomeValues, OutcomeValuesNext
<1>4. \A s \in Runs \ {r} : Outcome(s)' = Outcome(s)
  BY <1>1 DEF Outcome
<1>5. \A s \in Runs : DocumentOf[s] = DocumentOf[r] => Outcome(s) # "pending"
  BY <1>0, <1>1, OutcomeValues DEF RunsOf
<1>6. Served' = Served
  BY <1>2 DEF Served
<1>7. /\ Outcomes' = [Outcomes EXCEPT ![r] = "pending"]
      /\ Outcomes[r] = "absent"
      /\ \A s \in Runs : DocumentOf[s] = DocumentOf[r] => Outcomes[s] # "pending"
  BY <1>1, <1>3, <1>4, <1>5 DEF Outcomes
<1>8. Contract!Submit(r)
  BY <1>6, <1>7 DEF Contract!Submit, Outcomes, Served
<1> QED BY <1>1, <1>8 DEF Contract!Next

LEMMA SuccessImplements ==
    ASSUME StoreInv, StoreInv', NEW r \in Runs, RunSucceeds(r)
    PROVE  Contract!Next
<1>0. DatabaseType /\ DatabaseType' /\ DocumentInv /\ RequestInv /\ TypeOK
  BY TypeParts, CleanupTypeParts DEF StoreInv, BaseInv, CleanupTypeOK, TypeOK, DatabaseType
<1>1. PICK d \in Ids : d = DocumentOf[r] /\ documents[d] # None /\ r \in RunsOf(d)
  BY <1>0, DocumentOfIdAssumption DEF RequestInv, NoOrphans, RunSucceeds, InFlight, RunsOf
<1>2. /\ runs[r] = "inflight" /\ runs'[r] = "completed"
      /\ documents'[d] # None /\ documents'[d].active_run_id = r
      /\ \A e \in Ids \ {d} : documents'[e] = documents[e]
  BY <1>0, <1>1, SucceedEffect, DocumentColumns
<1>3. \A s \in Runs \ {r} : runs'[s] = runs[s]
  BY <1>0, EndEffect
<1>4. Active(d)' = r /\ \A e \in Ids \ {d} : Active(e)' = Active(e)
  BY <1>2 DEF Active
<1>5. Active(d) # None => Active(d) < r
  <2>1. ASSUME Active(d) # None PROVE Active(d) < r
    <3>1. /\ Active(d) \in RunsOf(d) /\ Active(d) \in Nat /\ r \in Nat
          /\ runs[Active(d)] = "completed"
      BY <1>0, <1>1, <2>1, ActiveRun, RunsAreNaturals
    <3>2. r = documents[d].latest_run_id /\ Active(d) <= documents[d].latest_run_id
      BY <1>0, <1>1, <1>2, <3>1 DEF DocumentInv, DocumentSound, InFlight, Exists
    <3>3. Active(d) # r
      BY <1>2, <3>1
    <3> QED BY <3>1, <3>2, <3>3
  <2> QED BY <2>1
<1>6. Outcomes[r] = "pending" /\ Outcomes' = [Outcomes EXCEPT ![r] = "succeeded"]
  <2>1. Outcome(r) = "pending" /\ Outcome(r)' = "succeeded"
    BY <1>0, <1>2, OutcomeValues, OutcomeValuesNext
  <2>2. \A s \in Runs \ {r} : Outcome(s)' = Outcome(s)
    BY <1>3 DEF Outcome
  <2> QED BY <2>1, <2>2 DEF Outcomes
<1>7. Served' = [Served EXCEPT ![d] = r] /\ (Served[d] # None => Served[d] < r)
  BY <1>4, <1>5 DEF Served
<1>8. Served' = [Served EXCEPT ![d] = Served'[d]]
  BY <1>7 DEF Served
<1>9. Contract!Succeed(r)
  BY <1>1, <1>6, <1>7, <1>8 DEF Contract!Succeed, Outcomes, Served
<1> QED BY <1>9 DEF Contract!Next

LEMMA FailureImplements ==
    ASSUME StoreInv, StoreInv', NEW r \in Runs, RunFails(r)
    PROVE  Contract!Next
<1>0. DatabaseType /\ DatabaseType'
  BY TypeParts, CleanupTypeParts DEF StoreInv, BaseInv, CleanupTypeOK, TypeOK, DatabaseType
<1>1. /\ runs[r] = "inflight" /\ runs'[r] = "failed" /\ documents' = documents
      /\ \A s \in Runs \ {r} : runs'[s] = runs[s]
  BY <1>0 DEF RunFails, InFlight, DatabaseType
<1>2. \A e \in Ids : Active(e)' = Active(e)
  BY <1>1 DEF Active
<1>3. Outcome(r) = "pending" /\ Outcome(r)' = "failed"
  BY <1>0, <1>1, OutcomeValues, OutcomeValuesNext
<1>4. \A s \in Runs \ {r} : Outcome(s)' = Outcome(s)
  BY <1>1 DEF Outcome
<1>5. Served' = Served
  BY <1>2 DEF Served
<1>6. /\ Outcomes' = [s \in Runs |-> IF s \in {r} THEN "failed" ELSE Outcomes[s]]
      /\ \A s \in {r} : Outcomes[s] = "pending"
  BY <1>3, <1>4 DEF Outcomes
<1>7. Contract!Fail({r})
  BY <1>5, <1>6 DEF Contract!Fail, Outcomes, Served
<1> QED BY <1>7 DEF Contract!Next

(* Requests, the worker and the cleanup command together behave as the     *)
(* contract says.                                                          *)
THEOREM ContractCorrect ==
    ASSUME CarefulDeployment PROVE CleanupSpec => ImplementsContract
<1>1. CleanupInit => Contract!Init
  BY DEF CleanupInit, Init, Contract!Init, Outcome, Active
<1>2. StoreInv /\ StoreInv' /\ [CleanupNext]_allVars => [Contract!Next]_(Contract!vars)
  <2> SUFFICES ASSUME StoreInv, StoreInv', [CleanupNext]_allVars
               PROVE  Contract!Next \/ UNCHANGED Contract!vars
    OBVIOUS
  <2>0. DatabaseType /\ DatabaseType'
    BY TypeParts, CleanupTypeParts DEF StoreInv, BaseInv, CleanupTypeOK, TypeOK, DatabaseType
  <2>1. CASE UNCHANGED <<documents, runs>>
    BY <2>1, ContractStutters DEF Outcome, Active
  <2>2. ASSUME NEW q, NEW d, NEW r, NEW row, Admissible(q, d, r, row)
        PROVE  Contract!Next
    BY <2>2, QueuesSubmit
  <2>3. ASSUME NEW r \in Runs, Expire(r)
        PROVE  UNCHANGED Contract!vars
    <3>1. /\ runs[r] = "failed" /\ runs'[r] = "expired" /\ documents' = documents
          /\ \A s \in Runs \ {r} : runs'[s] = runs[s]
      BY <2>0, <2>3 DEF Expire, DatabaseType
    <3>2. \A s \in Runs : Outcome(s)' = Outcome(s)
      BY <3>1 DEF Outcome
    <3> QED BY <3>1, <3>2, ContractStutters DEF Active
  <2>4. CASE CommitExpired
    <3>1. \A s \in Runs : Outcome(s)' = Outcome(s)
      <4>1. ASSUME NEW s \in Runs, runs[s] = "expired", runs'[s] = "purged"
            PROVE  Outcome(s)' = Outcome(s)
        BY <4>1 DEF Outcome
      <4> QED BY <2>4, <4>1, ExpiredPass DEF Outcome
    <3> QED BY <2>4, <3>1, ExpiredPass, ContractStutters
  <2>5. CASE CommitSuperseded
    <3>1. \A s \in Runs : \/ runs'[s] = runs[s]
                          \/ (runs[s] = "completed" /\ runs'[s] = "superseded")
      BY <2>5, SupersededPass
    <3>2. \A s \in Runs : Outcome(s)' = Outcome(s)
      BY <3>1 DEF Outcome
    <3> QED BY <2>5, <3>2, SupersededPass, ContractStutters
  <2> QED BY <2>1, <2>2, <2>3, <2>4, <2>5, StoreSteps, SuccessImplements, FailureImplements
          DEF EndStep
<1>3. CleanupSpec => []StoreInv
  BY StoreCorrect DEF CarefulDeployment
<1> QED BY <1>1, <1>2, <1>3, PTL DEF CleanupSpec, ImplementsContract, Contract!Spec

LEMMA ContractConstants == Contract!ConstantsSound
BY IdsAssumption, DocumentOfIdAssumption, NoIdAssumption DEF Contract!ConstantsSound

(* However requests and the cleanup overlap, a document serves the newest  *)
(* of its runs that succeeded.                                             *)
THEOREM NewestSuccessServed ==
    ASSUME CarefulDeployment PROVE CleanupSpec => []Contract!ServesLastSuccess
BY ContractCorrect, ContractConstants, Contract!LastSuccessServed, PTL DEF ImplementsContract

(* How a run has ended is never changed, also while its row is deleted.    *)
THEOREM EndsStand ==
    ASSUME CarefulDeployment PROVE CleanupSpec => Contract!OutcomesStand
BY ContractCorrect, ContractConstants, Contract!OutcomesFinal, PTL DEF ImplementsContract

-------------------------------------------------------------------------------
(* Stored answers                                                          *)

KeysFree == \A q \in Requests : lookup[q] = None /\ (request[q] # None => KeySound(q))

(* A response is only stored where there is none.                          *)
Stores(q) ==
    /\ pc[q] = "committing" /\ pc'[q] = "replying" /\ Keyed(q) /\ Stored(q) = None
    /\ request[q] \in RequestType /\ Key(q) \in Scopes \X Keys
    /\ responses' = [responses EXCEPT ![Key(q)] =
         [fingerprint |-> request[q].target, answer |-> answer[q]]]

LEMMA NothingStored ==
    ASSUME TypeOK, RequestInv, KeysFree, NEW q \in Requests, Keyed(q),
           pc[q] \in Answering, Stored(q) # None => SameRequest(q, Stored(q))
    PROVE  Stored(q) = None
BY LocationSets, UnderWay DEF KeysFree, KeySound

LEMMA ResponsesStep ==
    ASSUME TypeOK, RequestInv, KeysFree, NEW q \in Requests, RequestStep(q)
    PROVE  responses' = responses \/ (Commit(q) /\ Stores(q))
<1>0. SessionType /\ DatabaseType
  BY TypeParts
<1>1. CASE Commit(q)
  <2>1. /\ pc[q] = "committing" /\ request[q] \in RequestType
        /\ Stored(q) # None => SameRequest(q, Stored(q))
    BY <1>0, <1>1, CommitEffect, Committing, LocationSets DEF Commit
  <2>2. CASE ~Keyed(q)
    BY <1>1, <2>2 DEF Commit, StoreResponse
  <2>3. CASE Keyed(q)
    <3>1. Stored(q) = None
      BY <2>1, <2>3, NothingStored, LocationSets
    <3>2. Key(q) \in Scopes \X Keys
      BY <1>0, <2>1, <2>3, RowAssumption, StoredResponse
    <3>3. responses' = [responses EXCEPT ![Key(q)] =
              [fingerprint |-> request[q].target, answer |-> answer[q]]]
      BY <1>1, <2>3, <3>1 DEF Commit, StoreResponse
    <3>4. pc'[q] = "replying"
      BY <1>0, <1>1, CommitEffect DEF Becomes
    <3> QED BY <1>1, <2>1, <2>3, <3>1, <3>2, <3>3, <3>4 DEF Stores
  <2> QED BY <2>2, <2>3
<1>2. CASE QueueRecovery(q)
  BY <1>2 DEF QueueRecovery
<1>3. CASE ~Commit(q) /\ ~QueueRecovery(q)
  BY <1>3, QuietSteps DEF Rest
<1> QED BY <1>1, <1>2, <1>3

LEMMA StoredOnce ==
    ASSUME TypeOK, RequestInv, KeysFree, NEW q \in Requests, RequestStep(q)
    PROVE  \A k \in Scopes \X Keys : responses[k] # None => responses'[k] = responses[k]
<1>1. CASE Stores(q)
  BY <1>1 DEF Stores, Stored
<1> QED BY <1>1, ResponsesStep

(* A request stays what it is while it is under way.                       *)
LEMMA RequestStays ==
    ASSUME SessionType, NEW q \in Requests, Progress(q) \/ Abort(q) \/ Reply(q)
    PROVE  /\ pc[q] # "idle"
           /\ pc'[q] = "idle" \/ request'[q] = request[q]
<1>1. CASE Replay(q) \/ StartOver(q) \/ FindDocument(q) \/ FindNothing(q) \/ Admit(q)
  BY <1>1 DEF Replay, StartOver, FindDocument, FindNothing, Admit, Return, session
<1>2. CASE InsertDocument(q) \/ InsertConflicts(q) \/ MoveSource(q)
  BY <1>2 DEF InsertDocument, InsertConflicts, MoveSource
<1>3. CASE ResolveNothing(q) \/ ResolveExisting(q) \/ QueueRecovery(q) \/ LockDocument(q)
  BY <1>3, LocationSets DEF ResolveNothing, ResolveExisting, QueueRecovery, LockDocument, Return
<1>4. CASE LookUpResponse(q) \/ KeyReused(q) \/ Commit(q)
  BY <1>4 DEF LookUpResponse, KeyReused, Commit, Return
<1>5. CASE Abort(q) \/ Reply(q)
  BY <1>5, LocationSets DEF Abort, Reply, Goto, SessionType
<1> QED BY <1>1, <1>2, <1>3, <1>4, <1>5 DEF Progress

LEMMA LookupsFree ==
    ASSUME TypeOK, RequestInv, KeysFree, NEW q \in Requests, RequestStep(q)
    PROVE  \A p \in Requests : lookup'[p] = None
<1>0. SessionType /\ DatabaseType /\ OnlyFor(q) /\ lookup[q] = None
  BY TypeParts, RequestStepType DEF KeysFree
<1>1. \A p \in Requests \ {q} : lookup'[p] = None
  BY <1>0 DEF OnlyFor, KeysFree
<1>2. lookup'[q] = None
  <2>1. CASE LookUpResponse(q)
    <3>1. /\ lookup'[q] = Stored(q) /\ pc[q] = "storing"
          /\ Stored(q) # None => SameRequest(q, Stored(q))
      BY <1>0, <2>1, LookUpEffect DEF Becomes
    <3>2. Keyed(q)
      BY <3>1 DEF RequestInv, RequestSound
    <3> QED BY <3>1, <3>2, NothingStored, LocationSets
  <2>2. CASE ~LookUpResponse(q)
    <3>1. lookup' = lookup \/ lookup' = [lookup EXCEPT ![q] = None]
      BY <2>2 DEF RequestStep, Progress, Receive, Replay, StartOver, FindDocument, FindNothing,
         Admit, InsertDocument, InsertConflicts, MoveSource, ResolveNothing, ResolveExisting,
         QueueRecovery, LockDocument, Commit, KeyReused, Abort, Reply, Return, session
    <3> QED BY <1>0, <3>1 DEF SessionType
  <2> QED BY <2>1, <2>2
<1> QED BY <1>1, <1>2

(* Nobody repeats a request that is under way.                             *)
LEMMA ReceiveKeys ==
    ASSUME KeysSequential, TypeOK, RequestInv, KeysFree, NEW q \in Requests,
           NEW asked \in RequestType, Receive(q, asked), NEW p \in Requests, request'[p] # None
    PROVE  KeySound(p)'
<1>0. SessionType /\ OnlyFor(q)
  BY TypeParts, RequestStepType DEF RequestStep
<1>1. /\ request'[q] = asked /\ responses' = responses
      /\ pc'[q] = IF asked.key # None THEN "received" ELSE Start(asked)
      /\ asked.key # None => \A x \in Requests : pc[x] # "idle" => request[x] # asked
      /\ pc[q] = "idle"
  BY <1>0, ReceiveEffect DEF Becomes, Receive, database
<1>2. CASE p = q
  <2>1. ASSUME asked.key # None, NEW x \in Requests \ {q}, pc'[x] # "idle"
        PROVE  request'[x] # asked
    BY <1>0, <1>1, <2>1 DEF OnlyFor
  <2> QED BY <1>1, <1>2, <2>1 DEF KeySound, Keyed
<1>3. CASE p # q /\ Keyed(p) /\ pc[p] \notin {"idle", "replying"}
  <2>1. /\ pc'[p] = pc[p] /\ request'[p] = request[p]
        /\ \A x \in Requests \ {p, q} : pc'[x] = pc[x] /\ request'[x] = request[x]
    BY <1>0, <1>3 DEF OnlyFor
  <2>2. KeySound(p)
    BY <1>3, UnderWay DEF KeysFree
  <2>3. asked # request[p]
    BY <1>1, <1>3 DEF Keyed
  <2>4. Stored(p)' = Stored(p)
    BY <1>1, <2>1 DEF Stored, Keyed, Key
  <2>5. \A x \in Requests \ {p} : pc'[x] # "idle" => request'[x] # request'[p]
    BY <1>1, <1>3, <2>1, <2>2, <2>3 DEF KeySound
  <2> QED BY <1>3, <2>1, <2>2, <2>4, <2>5 DEF KeySound, SameRequest
<1>4. CASE p # q /\ ~(Keyed(p) /\ pc[p] \notin {"idle", "replying"})
  BY <1>0, <1>4 DEF OnlyFor, KeySound, Keyed
<1> QED BY <1>2, <1>3, <1>4

LEMMA StepKeys ==
    ASSUME TypeOK, RequestInv, KeysFree, NEW q \in Requests,
           Progress(q) \/ Abort(q) \/ Reply(q), NEW p \in Requests
    PROVE  KeySound(p)'
<1>0. SessionType /\ DatabaseType /\ OnlyFor(q) /\ RequestStep(q)
  BY TypeParts, RequestStepType DEF RequestStep
<1>1. pc[q] # "idle" /\ (pc'[q] = "idle" \/ request'[q] = request[q])
  BY <1>0, RequestStays
<1>2. SUFFICES ASSUME Keyed(p)', pc'[p] \notin {"idle", "replying"}
               PROVE  KeySound(p)'
  BY DEF KeySound
<1>3. /\ request'[p] = request[p] /\ Keyed(p) /\ Key(p)' = Key(p) /\ pc[p] # "idle"
  BY <1>0, <1>1, <1>2 DEF OnlyFor, Keyed, Key
<1>4. pc[p] # "replying"
  <2>1. ASSUME p = q, pc[q] = "replying" PROVE FALSE
    <3>1. Reply(q)
      BY <1>0, <2>1, LocationSets DEF Progress, Replay, StartOver, FindDocument, FindNothing, Admit,
         InsertDocument, InsertConflicts, MoveSource, ResolveNothing, ResolveExisting,
         QueueRecovery, LockDocument, LookUpResponse, Commit, KeyReused, Abort, Serving
    <3>2. pc'[q] = "idle"
      BY <1>0, <3>1, ReplyEffect DEF Becomes
    <3> QED BY <1>2, <2>1, <3>2
  <2> QED BY <1>0, <1>2, <2>1 DEF OnlyFor
<1>5. /\ KeySound(p) /\ request[p] \in RequestType
  BY <1>0, <1>3, UnderWay, RequestHolds DEF KeysFree
<1>6. \A x \in Requests \ {p} : pc'[x] # "idle" => request'[x] # request'[p]
  BY <1>0, <1>1, <1>3, <1>4, <1>5 DEF OnlyFor, KeySound
<1>7. ASSUME pc'[p] # "received"
      PROVE  Stored(p)' # None => ~SameRequest(p, Stored(p))'
  <2>1. Stored(p) # None => ~SameRequest(p, Stored(p))
    <3>1. CASE pc[p] # "received"
      BY <1>3, <1>4, <1>5, <3>1 DEF KeySound
    <3>2. CASE pc[p] = "received"
      <4>1. p = q /\ pc'[q] # "replying"
        BY <1>0, <1>2, <1>7, <3>2 DEF OnlyFor
      <4>2. StartOver(q)
        <5>1. Replay(q) => pc'[q] = "replying"
          BY <1>0, ReplayEffect DEF Becomes
        <5>2. Abort(q) => pc'[q] = "idle"
          BY <1>0, AbortEffect DEF Becomes
        <5> QED BY <1>2, <3>2, <4>1, <5>1, <5>2, LocationSets DEF Progress, FindDocument, FindNothing, Admit,
         InsertDocument, InsertConflicts, MoveSource, ResolveNothing, ResolveExisting,
         QueueRecovery, LockDocument, LookUpResponse, Commit, KeyReused, Reply
      <4> QED BY <4>1, <4>2 DEF StartOver
    <3> QED BY <3>1, <3>2
  <2>2. CASE responses' = responses
    <3>1. Stored(p)' = Stored(p)
      BY <1>3, <2>2 DEF Stored, Keyed
    <3> QED BY <1>3, <2>1, <3>1 DEF SameRequest
  <2>3. CASE Stores(q)
    <3>1. p # q /\ request[q] \in RequestType /\ Keyed(q)
      BY <1>2, <2>3 DEF Stores
    <3>2. CASE Key(p) # Key(q)
      <4>1. Stored(p)' = Stored(p)
        BY <1>0, <1>3, <1>5, <2>3, <3>2, RowAssumption, StoredResponse
        DEF Stores, Stored, Keyed, DatabaseType
      <4> QED BY <1>3, <2>1, <4>1 DEF SameRequest
    <3>3. CASE Key(p) = Key(q)
      <4>1. Stored(p)'.fingerprint = request[q].target
        BY <1>0, <1>3, <2>3, <3>3 DEF Stores, Stored, DatabaseType, Keyed
      <4>2. request[q] # request[p]
        BY <1>1, <1>3, <1>4, <1>5, <3>1 DEF KeySound
      <4>3. request[q].target # request[p].target
        BY <1>5, <3>1, <3>3, <4>2, SameRequests DEF Key
      <4> QED BY <1>3, <4>1, <4>3 DEF SameRequest
    <3> QED BY <3>2, <3>3
  <2> QED BY <1>0, <2>2, <2>3, ResponsesStep
<1> QED BY <1>6, <1>7 DEF KeySound

LEMMA RequestKeys ==
    ASSUME KeysSequential, TypeOK, RequestInv, KeysFree, NEW q \in Requests, RequestStep(q)
    PROVE  KeysFree'
BY LookupsFree, ReceiveKeys, StepKeys DEF KeysFree, RequestStep

Over == {"failed", "expired", "purged"}

(* Whoever queues a run under a key does so for the first time, or after   *)
(* every run of the document has failed.                                   *)
FirstOrFailed(q, d) ==
    \/ /\ request[q].scope = "create"
       /\ \A s \in RunsOf(d) : Exists(s) => runs[s] \in Over
    \/ /\ request[q].scope = "reprocess"
       /\ Keyed(q) => Stores(q)

LEMMA QueuedRun ==
    ASSUME TypeOK, RequestInv, DocumentInv, KeysFree, NEW q \in Requests, RequestStep(q)
    PROVE  \/ UNCHANGED <<runs, origin>>
           \/ \E d, r, row : Admissible(q, d, r, row) /\ FirstOrFailed(q, d)
<1>0. SessionType /\ DatabaseType
  BY TypeParts
<1>1. CASE QueueRecovery(q)
  <2>1. PICK d, r, row : /\ Admissible(q, d, r, row)
                         /\ d \in Ids /\ documents[d] # None
                         /\ row = documents[d] /\ row = loaded[q].row
                         /\ d = loaded[q].id /\ ~SeesActive(q)
                         /\ pc[q] \in Resolving
    BY <1>1, RecoveryAdmissible
  <2>2. request[q].scope = "create"
    BY <2>1, LocationSets DEF RequestInv, RequestSound
  <2>3. DocumentSound(d)
    BY <2>1 DEF DocumentInv
  <2>4. documents[d].active_run_id = None
    BY <2>1, <2>3 DEF DocumentSound, SeesActive, RunExists
  <2>5. ASSUME NEW s \in RunsOf(d), Exists(s) PROVE runs[s] \in Over
    <3>1. s \in Runs /\ runs[s] \in RunStatuses /\ ~InFlight(s)
      BY <1>0, <2>1, RunsAreNaturals DEF DatabaseType, Admissible
    <3> QED BY <2>1, <2>3, <2>4, <2>5, <3>1 DEF DocumentSound, RunStatuses, Over, InFlight, Exists
  <2> QED BY <2>1, <2>2, <2>5 DEF FirstOrFailed
<1>2. CASE Commit(q) /\ Creates(q)
  <2>1. Admissible(q, loaded[q].id, answer[q].run, loaded[q].row) /\ loaded[q] \in Loaded
        /\ pc[q] = "committing"
    BY <1>0, <1>2, CommitAdmissible, CommitEffect
  <2>2. loaded[q] # None /\ pc[q] \in Writing /\ InsertingSound(q) /\ LockSound(q)
    BY <2>1, LoadedColumns, LocationSets DEF DocumentInv
  <2>3. CASE documents[loaded[q].id] = None
    <3>1. request[q].scope = "create" /\ \A s \in RunsOf(loaded[q].id) : ~Exists(s)
      BY <2>2, <2>3 DEF InsertingSound, Inserting
    <3> QED BY <2>1, <3>1 DEF FirstOrFailed
  <2>4. CASE documents[loaded[q].id] # None
    <3>1. request[q].scope = "reprocess"
      BY <1>2, <2>2, <2>4 DEF LockSound
    <3>2. Keyed(q) => Stores(q)
      <4>1. ASSUME Keyed(q) PROVE Stores(q)
        <5>1. Stored(q) = None /\ request[q] \in RequestType
          BY <1>0, <1>2, <2>1, <4>1, NothingStored, CommitEffect, LocationSets
        <5>2. Key(q) \in Scopes \X Keys
          BY <1>0, <4>1, <5>1, RowAssumption, StoredResponse
        <5>3. pc'[q] = "replying"
          BY <1>0, <1>2, CommitEffect DEF Becomes
        <5> QED BY <1>2, <2>1, <4>1, <5>1, <5>2, <5>3 DEF Stores, Commit, StoreResponse
      <4> QED BY <4>1
    <3> QED BY <2>1, <3>1, <3>2 DEF FirstOrFailed
  <2> QED BY <2>3, <2>4
<1>3. CASE ~QueueRecovery(q) /\ ~(Commit(q) /\ Creates(q))
  BY <1>0, <1>3, QuietSteps, CommitEffect DEF Rest
<1> QED BY <1>1, <1>2, <1>3

LEMMA OriginsKept ==
    ASSUME DatabaseType, NEW r \in Runs, OriginSound(r), origin'[r] = origin[r],
           runs'[r] # "absent" <=> Exists(r),
           \A k \in Scopes \X Keys : responses[k] # None => responses'[k] = responses[k]
    PROVE  OriginSound(r)'
<1>1. origin[r].key \in {"reprocess"} \X Keys => origin[r].key \in Scopes \X Keys
  BY DEF Scopes
<1> QED BY <1>1 DEF OriginSound, Exists

(* Runs end, and are deleted.                                              *)
LEMMA AnswersKept ==
    ASSUME DatabaseType, AnswerInv, UNCHANGED <<responses, origin, pc, session>>,
           \A r \in Runs : /\ runs'[r] # "absent" <=> Exists(r)
                           /\ runs[r] \in Over => runs'[r] \in Over
    PROVE  AnswerInv'
<1>1. \A q \in Requests : lookup'[q] = None /\ (request'[q] # None => KeySound(q)')
  BY DEF AnswerInv, KeySound, Keyed, Stored, Key, SameRequest, session
<1>2. \A r \in Runs : OriginSound(r)'
  BY OriginsKept DEF AnswerInv
<1>3. RepeatedOnlyAfterFailure'
  BY DEF AnswerInv, RepeatedOnlyAfterFailure, Over
<1> QED BY <1>1, <1>2, <1>3 DEF AnswerInv

LEMMA QueuedAnswers ==
    ASSUME TypeOK, RequestInv, DocumentInv, AnswerInv, NEW q \in Requests, RequestStep(q),
           NEW d, NEW r, NEW row, Admissible(q, d, r, row), FirstOrFailed(q, d)
    PROVE  (\A s \in Runs : OriginSound(s)') /\ RepeatedOnlyAfterFailure'
<1>0. SessionType /\ DatabaseType /\ KeysFree
  BY TypeParts DEF AnswerInv, KeysFree
<1>1. /\ d \in Ids /\ r \in Runs /\ r \in Nat /\ ~Exists(r) /\ DocumentOf[r] = d
      /\ runs'[r] = "inflight" /\ \A s \in Runs \ {r} : runs'[s] = runs[s]
      /\ origin'[r] # None /\ origin'[r].key = Key(q)
      /\ \A s \in Runs \ {r} : origin'[s] = origin[s]
      /\ DatabaseType'
  BY RunsAreNaturals DEF Admissible, Queues, Follows
<1>2. \A k \in Scopes \X Keys : responses[k] # None => responses'[k] = responses[k]
  BY <1>0, StoredOnce
<1>3. ASSUME Key(q) \in {"reprocess"} \X Keys
      PROVE  Stores(q)
  <2>1. request[q].scope = "reprocess" /\ request[q].key \in Keys
    BY <1>3 DEF Key
  <2> QED BY <2>1, NoIdAssumption DEF FirstOrFailed, Keyed
<1>4. Stores(q) => responses[Key(q)] = None /\ responses'[Key(q)] # None
  <2>1. ASSUME Stores(q) PROVE responses[Key(q)] = None /\ responses'[Key(q)] # None
    <3> DEFINE new == [fingerprint |-> request[q].target, answer |-> answer[q]]
    <3>1. answer[q] \in Answers /\ request[q] \in RequestType
      BY <1>0, <2>1, Committing, LocationSets DEF Stores
    <3>2. new \in Response
      BY <3>1, RequestColumns DEF Response
    <3>3. new # None
      BY <3>2, RowAssumption
    <3>4. responses' = [responses EXCEPT ![Key(q)] = new] /\ Key(q) \in Scopes \X Keys
          /\ responses[Key(q)] = None
      BY <2>1 DEF Stores, Stored
    <3> HIDE DEF new
    <3> QED BY <1>0, <3>3, <3>4 DEF DatabaseType
  <2> QED BY <2>1
<1>5. ASSUME NEW s \in Runs PROVE OriginSound(s)'
  <2>1. CASE s = r
    BY <1>1, <1>3, <1>4, <2>1 DEF OriginSound, Exists
  <2>2. CASE s # r
    BY <1>0, <1>1, <1>2, <2>2, OriginsKept DEF AnswerInv, Exists
  <2> QED BY <2>1, <2>2
<1>6. ASSUME NEW x \in Runs, NEW y \in Runs, x < y, DocumentOf[x] = DocumentOf[y],
             origin'[x] # None, origin'[y] # None, origin'[x].key = origin'[y].key,
             origin'[x].key \in Scopes \X Keys
      PROVE  runs'[x] \in Over
  <2>1. CASE x # r /\ y # r
    BY <1>1, <1>6, <2>1 DEF AnswerInv, RepeatedOnlyAfterFailure, Over
  <2>2. CASE x = r
    <3>1. y # r /\ Exists(y)
      BY <1>1, <1>6, <2>2, IdsAssumption DEF AnswerInv, OriginSound
    <3> QED BY <1>1, <1>6, <2>2, <3>1 DEF DocumentInv, RunsInOrder
  <2>3. CASE x # r /\ y = r
    <3>1. Exists(x) /\ runs'[x] = runs[x] /\ origin[x].key = Key(q) /\ x \in RunsOf(d)
      BY <1>1, <1>6, <2>3 DEF AnswerInv, OriginSound, RunsOf
    <3>2. CASE request[q].scope = "create" /\ \A s \in RunsOf(d) : Exists(s) => runs[s] \in Over
      BY <3>1, <3>2
    <3>3. CASE request[q].scope = "reprocess"
      <4>1. Key(q) \in {"reprocess"} \X Keys
        BY <1>1, <1>6, <2>3, <3>3 DEF Key
      <4>2. responses[Key(q)] = None
        BY <1>3, <1>4, <4>1
      <4> QED BY <3>1, <4>1, <4>2 DEF AnswerInv, OriginSound
    <3> QED BY <3>2, <3>3 DEF FirstOrFailed
  <2> QED BY <2>1, <2>2, <2>3
<1> QED BY <1>5, <1>6 DEF RepeatedOnlyAfterFailure, Over

LEMMA RequestAnswers ==
    ASSUME KeysSequential, TypeOK, RequestInv, DocumentInv, AnswerInv,
           NEW q \in Requests, RequestStep(q)
    PROVE  AnswerInv'
<1>0. SessionType /\ DatabaseType /\ KeysFree
  BY TypeParts DEF AnswerInv, KeysFree
<1>1. KeysFree'
  BY <1>0, RequestKeys
<1>2. CASE UNCHANGED <<runs, origin>>
  <2>1. \A r \in Runs : OriginSound(r)'
    BY <1>0, <1>2, StoredOnce, OriginsKept DEF AnswerInv, Exists
  <2>2. RepeatedOnlyAfterFailure'
    BY <1>2 DEF AnswerInv, RepeatedOnlyAfterFailure
  <2> QED BY <1>1, <2>1, <2>2 DEF AnswerInv, KeysFree
<1>3. ASSUME NEW d, NEW r, NEW row, Admissible(q, d, r, row), FirstOrFailed(q, d)
      PROVE  AnswerInv'
  BY <1>1, <1>3, QueuedAnswers DEF AnswerInv, KeysFree
<1> QED BY <1>0, <1>2, <1>3, QueuedRun

LEMMA AnswerNext ==
    ASSUME CarefulDeployment, IngestInv, [CleanupNext]_allVars
    PROVE  IngestInv'
<1>0. /\ StoreInv /\ StoreInv' /\ AnswerInv /\ BaseInv /\ DocumentInv /\ TypeOK /\ RequestInv
      /\ CleanupTypeOK /\ DatabaseType
  BY StoreNext, CleanupTypeParts, TypeParts DEF IngestInv, StoreInv, BaseInv, CarefulDeployment
<1>1. ASSUME NEW q \in Requests, RequestStep(q)
      PROVE  AnswerInv'
  BY <1>0, <1>1, RequestAnswers DEF CarefulDeployment
<1>2. ASSUME EndStep
      PROVE  AnswerInv'
  <2>1. PICK r \in Runs : RunSucceeds(r) \/ RunFails(r) \/ Expire(r)
    BY <1>2 DEF EndStep
  <2>2. /\ UNCHANGED <<responses, origin, pc, session>>
        /\ runs[r] \in {"inflight", "failed"}
        /\ runs'[r] \in {"completed", "failed", "expired"}
        /\ \A s \in Runs \ {r} : runs'[s] = runs[s]
    BY <1>0, <2>1, EndEffect
  <2>3. runs[r] = "failed" => runs'[r] = "expired"
    BY <1>0, <2>1 DEF RunSucceeds, RunFails, Expire, InFlight, DatabaseType
  <2>4. \A s \in Runs : /\ runs'[s] # "absent" <=> Exists(s)
                        /\ runs[s] \in Over => runs'[s] \in Over
    BY <2>2, <2>3 DEF Exists, Over
  <2> QED BY <1>0, <2>2, <2>4, AnswersKept
<1>3. ASSUME Looking
      PROVE  AnswerInv'
  <2>1. UNCHANGED <<documents, runs, responses, origin, pc, session>>
    BY <1>0, <1>3, LookingEffect
  <2> QED BY <1>0, <2>1, AnswersKept DEF Exists
<1>4. ASSUME CommitExpired
      PROVE  AnswerInv'
  <2>1. UNCHANGED <<responses, origin, pc, session>>
    BY <1>4 DEF CommitExpired
  <2>2. \A r \in Runs : \/ runs'[r] = runs[r]
                        \/ (runs[r] = "expired" /\ runs'[r] = "purged")
    BY <1>0, <1>4, ExpiredPass
  <2>3. \A r \in Runs : /\ runs'[r] # "absent" <=> Exists(r)
                        /\ runs[r] \in Over => runs'[r] \in Over
    BY <2>2 DEF Exists, Over
  <2> QED BY <1>0, <2>1, <2>3, AnswersKept
<1>5. ASSUME CommitSuperseded
      PROVE  AnswerInv'
  <2>1. UNCHANGED <<responses, origin, pc, session>>
    BY <1>5 DEF CommitSuperseded
  <2>2. \A r \in Runs : \/ runs'[r] = runs[r]
                        \/ (runs[r] = "completed" /\ runs'[r] = "superseded")
    BY <1>0, <1>5, SupersededPass
  <2>3. \A r \in Runs : /\ runs'[r] # "absent" <=> Exists(r)
                        /\ runs[r] \in Over => runs'[r] \in Over
    BY <2>2 DEF Exists, Over
  <2> QED BY <1>0, <2>1, <2>3, AnswersKept
<1>6. ASSUME UNCHANGED allVars
      PROVE  AnswerInv'
  <2>1. UNCHANGED <<runs, responses, origin, pc, session>>
    BY <1>6 DEF allVars, vars, database
  <2> QED BY <1>0, <2>1, AnswersKept DEF Exists
<1> QED BY <1>0, <1>1, <1>2, <1>3, <1>4, <1>5, <1>6, CleanupKinds
        DEF IngestInv, CleanupStep, Looking

(* Without repeated requests under way, what is stored under a key stays   *)
(* the answer to the work that was done under it.                          *)
THEOREM IngestCorrect ==
    ASSUME CarefulDeployment PROVE CleanupSpec => []IngestInv
<1>1. CleanupInit => IngestInv
  <2> SUFFICES ASSUME CleanupInit PROVE AnswerInv
    BY StoreInit DEF IngestInv
  <2> QED BY DEF CleanupInit, Init, AnswerInv, OriginSound, Exists, RepeatedOnlyAfterFailure
<1>2. IngestInv /\ [CleanupNext]_allVars => IngestInv'
  BY AnswerNext
<1> QED BY <1>1, <1>2, PTL DEF CleanupSpec

(* A key pays for the same work twice only after the first run failed.     *)
THEOREM RepeatedCorrect ==
    ASSUME CarefulDeployment PROVE CleanupSpec => []RepeatedOnlyAfterFailure
<1>1. IngestInv => RepeatedOnlyAfterFailure
  BY DEF IngestInv, AnswerInv
<1> QED BY <1>1, IngestCorrect, PTL

(* A stored answer is never replaced.                                      *)
THEOREM AnswersStandCorrect ==
    ASSUME CarefulDeployment PROVE CleanupSpec => AnswersStand
<1> DEFINE Stands == \A k \in Scopes \X Keys :
                       responses[k] # None => responses'[k] = responses[k]
<1>1. IngestInv /\ [CleanupNext]_allVars => [Stands]_vars
  <2> SUFFICES ASSUME IngestInv, [CleanupNext]_allVars PROVE Stands
    OBVIOUS
  <2>0. TypeOK /\ RequestInv /\ KeysFree /\ CleanupTypeOK
    BY CleanupTypeParts DEF IngestInv, StoreInv, BaseInv, AnswerInv, KeysFree
  <2>1. ASSUME NEW q \in Requests, RequestStep(q) PROVE Stands
    BY <2>0, <2>1, StoredOnce
  <2>2. CASE EndStep
    BY <2>2 DEF EndStep, RunSucceeds, RunFails, Expire
  <2>3. CASE CleanupStep
    <3>1. Looking => responses' = responses
      BY <2>0, LookingEffect
    <3> QED BY <2>3, <3>1 DEF CleanupStep, Looking, CommitExpired, CommitSuperseded
  <2>4. CASE UNCHANGED allVars
    BY <2>4 DEF allVars, vars, database
  <2> QED BY <2>1, <2>2, <2>3, <2>4, CleanupKinds
<1> QED BY <1>1, IngestCorrect, PTL DEF CleanupSpec, AnswersStand

===============================================================================
