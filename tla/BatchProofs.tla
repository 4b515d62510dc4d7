------------------------------ MODULE BatchProofs ------------------------------
(***************************************************************************)
(* The ingest batches of IngestBatches, for any files, documents, runs,    *)
(* requests and keys, and in any deployment: the steps of a batch are      *)
(* steps of DocumentIngest, and BatchInv of BatchInvariant is inductive,   *)
(* so that the counters of a batch are those of its items and what readers *)
(* are told of a file is never wrong.  In a careful deployment a batch     *)
(* keeps what DocumentProofs shows of requests.                            *)
(***************************************************************************)
EXTENDS BatchInvariant, DocumentProofs

-------------------------------------------------------------------------------
(* What is there to stay                                                   *)

Grows ==
    /\ \A d \in Ids : documents[d] # None =>
         documents'[d] # None /\ documents'[d].sha256 = documents[d].sha256
    /\ RunsKept
    /\ \A r \in Runs : runs[r] = "completed" => runs'[r] = "completed"

LEMMA ChecksumKept ==
    ASSUME Grows, NEW d \in Ids, NEW c, HasChecksum(d, c)
    PROVE  HasChecksum(d, c)'
BY DEF Grows, HasChecksum

LEMMA AnsweredKept ==
    ASSUME Grows, NEW c, NEW d \in Ids, NEW r \in Runs \cup {None}, Answered(c, d, r)
    PROVE  Answered(c, d, r)'
BY ChecksumKept DEF Grows, RunsKept, Answered, RunsOf, Exists

LEMMA RowColumns ==
    ASSUME TypeOK, IngestSound, NEW d \in Ids, documents[d] # None
    PROVE  /\ documents[d] \in DocumentRow /\ RowSound(d, documents[d])
           /\ documents[d].active_run_id \in Runs \cup {None}
           /\ documents[d].latest_run_id \in Runs \cup {None}
BY DocumentColumns DEF TypeOK, IngestSound

LEMMA HeldColumns ==
    ASSUME TypeOK, NEW q \in Requests, loaded[q] # None
    PROVE  /\ loaded[q].id \in Ids /\ loaded[q].row \in DocumentRow
           /\ loaded[q].row.active_run_id \in Runs \cup {None}
           /\ loaded[q].row.latest_run_id \in Runs \cup {None}
BY LoadedColumns, DocumentColumns DEF TypeOK

-------------------------------------------------------------------------------
(* Documents: steps that queue nothing                                     *)

LEMMA OthersQuiet ==
    ASSUME TypeOK, IngestSound, NEW q \in Requests, OnlyFor(q), Modest(q),
           UNCHANGED <<documents, runs>>, SourcesKept(q), NEW p \in Requests \ {q}
    PROVE  InsertingSound(p)' /\ LoadedSound(p)' /\ HeldSound(p)'
<1>0. /\ pc'[p] = pc[p] /\ request'[p] = request[p] /\ loaded'[p] = loaded[p]
      /\ answer'[p] = answer[p]
      /\ \A x \in Requests \ {q} : pc'[x] = pc[x] /\ loaded'[x] = loaded[x]
  BY DEF OnlyFor
<1>1. LoadedSound(p) /\ InsertingSound(p) /\ HeldSound(p)
  BY DEF IngestSound
<1>2. LoadedSound(p)'
  BY <1>0, <1>1 DEF LoadedSound, RowSound, Exists, RunsOf
<1>3. ASSUME Inserting(p)
      PROVE  InsertingSound(p)'
  <2> DEFINE d == loaded[p].id
  <2>1. loaded[p] # None /\ documents[d] = None /\ pc[p] \in Writing
    BY <1>3 DEF Inserting
  <2>2. loaded'[q] # None => loaded'[q].id # d
    <3>1. Unused(loaded'[q].id) => loaded'[q].id # d
      BY <2>1 DEF Unused
    <3>2. loaded'[q] # None /\ loaded'[q] = loaded[q] => loaded'[q].id # d
      BY <1>1, <1>3 DEF InsertingSound
    <3> QED BY <2>1, <3>1, <3>2 DEF Modest
  <2>3. Inserting(q)' => loaded'[q].row.sha256 # request[p].target
    <3>1. ASSUME Inserting(q)'
          PROVE  pc'[q] \in Writing /\ loaded'[q] # None /\ documents[loaded'[q].id] = None
      BY <3>1 DEF Inserting
    <3>2. IndexFree(q) => request[q].target # loaded[p].row.sha256
      BY <1>3 DEF IndexFree
    <3>3. loaded[p].row.sha256 = request[p].target
      BY <1>1, <1>3 DEF InsertingSound
    <3>4. Inserting(q) => loaded[q].row.sha256 # request[p].target
      BY <1>1, <1>3 DEF InsertingSound
    <3> QED BY <3>1, <3>2, <3>3, <3>4 DEF Modest
  <2>4. \A x \in Requests \ {p, q} : Inserting(x)' = Inserting(x)
    BY <1>0 DEF Inserting
  <2>5. pc[p] # "moving" => d \in sources'
    BY <1>1, <1>3, <2>1 DEF InsertingSound, SourcesKept, Inserting
  <2>6. \A e \in Ids : HasChecksum(e, request[p].target)' = HasChecksum(e, request[p].target)
    BY <1>0 DEF HasChecksum
  <2>7. Follows(answer[p].run, d)' = Follows(answer[p].run, d)
    BY <1>0 DEF Follows, Exists, RunsOf
  <2> QED BY <1>0, <1>1, <1>3, <2>1, <2>2, <2>3, <2>4, <2>5, <2>6, <2>7
          DEF InsertingSound, Exists, RunsOf
<1>4. ASSUME ~Inserting(p)
      PROVE  InsertingSound(p)'
  BY <1>0, <1>4 DEF InsertingSound, Inserting
<1>5. ASSUME pc[p] \in Writing, loaded[p] # None, documents[loaded[p].id] # None
      PROVE  HeldSound(p)'
  <2> DEFINE d == loaded[p].id
  <2>1. Locked(d)
    BY <1>5 DEF Locked
  <2>2. pc'[q] \in Writing /\ loaded'[q] # None => loaded'[q].id # d
    <3>1. pc[q] \in Writing /\ loaded[q] # None => loaded[q].id # d
      BY <1>1, <1>5 DEF HeldSound
    <3> QED BY <2>1, <3>1 DEF Modest
  <2>3. Creates(p)' = Creates(p)
    BY <1>0 DEF Creates
  <2> QED BY <1>0, <1>1, <1>5, <2>2, <2>3 DEF HeldSound
<1>6. ASSUME ~(pc[p] \in Writing /\ loaded[p] # None /\ documents[loaded[p].id] # None)
      PROVE  HeldSound(p)'
  BY <1>0, <1>6 DEF HeldSound
<1> QED BY <1>2, <1>3, <1>4, <1>5, <1>6

Harmless(q) ==
    /\ Modest(q)
    /\ InsertingSound(q)' /\ LoadedSound(q)' /\ HeldSound(q)'

LEMMA ReleasedHarmless ==
    ASSUME NEW q \in Requests, loaded'[q] = None
    PROVE  Harmless(q)
BY DEF Harmless, Modest, InsertingSound, Inserting, LoadedSound, HeldSound

LEMMA FindHarmless ==
    ASSUME TypeOK, IngestSound, NEW q \in Requests, FindDocument(q) \/ InsertConflicts(q)
    PROVE  Harmless(q)
<1>1. PICK d \in Ids, location \in Resolving :
           /\ HasChecksum(d, request[q].target)
           /\ Becomes(q, location, request[q], [id |-> d, row |-> documents[d]],
                      lookup[q], answer[q])
  BY TypeParts, FindEffect
<1>2. documents[d] # None /\ documents[d] \in DocumentRow /\ RowSound(d, documents[d])
      /\ documents[d].sha256 = request[q].target
  BY <1>1, RowColumns DEF HasChecksum
<1>3. pc'[q] \in Resolving /\ loaded'[q].id = d /\ loaded'[q].row = documents[d]
      /\ request'[q] = request[q]
  BY <1>1, <1>2, LoadedRecord DEF Becomes
<1>4. UNCHANGED <<documents, runs>>
  BY DEF FindDocument, InsertConflicts, database
<1>5. Modest(q)
  BY <1>2, <1>3, <1>4, LocationSets DEF Modest
<1>6. LoadedSound(q)'
  BY <1>2, <1>3, <1>4 DEF LoadedSound, RowSound, Exists, RunsOf
<1> QED BY <1>3, <1>5, <1>6, LocationSets DEF Harmless, InsertingSound, Inserting, HeldSound

LEMMA InsertHarmless ==
    ASSUME TypeOK, RequestInv, IngestSound, NEW q \in Requests, InsertDocument(q)
    PROVE  Harmless(q)
<1>1. SessionType
  BY TypeParts
<1>2. PICK d \in Ids :
        /\ Unused(d)
        /\ Becomes(q, "moving", request[q], [id |-> d, row |-> NewRow(request[q].target)],
                   lookup[q], answer[q])
  BY <1>1, InsertEffect
<1>3. /\ pc[q] = "inserting" /\ IndexFree(q) /\ request[q].target \in Checksums
      /\ \A e \in Ids : ~HasChecksum(e, request[q].target)
  BY <1>1, InsertEffect
<1>4. /\ pc'[q] = "moving" /\ loaded'[q].id = d
      /\ loaded'[q].row = NewRow(request[q].target) /\ request'[q] = request[q]
  BY <1>2, <1>3, NewRowColumns, LoadedRecord DEF Becomes
<1>5. UNCHANGED <<documents, runs>>
  BY DEF InsertDocument, database
<1>6. \A p \in Requests \ {q} : pc'[p] = pc[p] /\ loaded'[p] = loaded[p]
  BY <1>2 DEF Becomes, OnlyFor
<1>7. ~Locked(d) /\ documents[d] = None
  BY <1>2 DEF Unused, Locked
<1>8. Modest(q)
  BY <1>2, <1>3, <1>4, <1>5, <1>7, NewRowColumns DEF Modest
<1>9. InsertingSound(q)'
  <2>1. request[q].scope = "create"
    BY <1>3, LocationSets DEF RequestInv, RequestSound
  <2>2. \A r \in RunsOf(d) : runs'[r] = "absent"
    BY <1>2, <1>5 DEF Unused
  <2>3. \A p \in Requests \ {q} : loaded'[p] # None => loaded'[p].id # d
    BY <1>2, <1>6 DEF Unused
  <2>4. \A e \in Ids : ~HasChecksum(e, request[q].target)'
    BY <1>3, <1>4, <1>5 DEF HasChecksum
  <2>5. \A p \in Requests \ {q} : Inserting(p)' => loaded'[p].row.sha256 # request[q].target
    BY <1>3, <1>5, <1>6 DEF IndexFree, Inserting
  <2> QED BY <1>4, <2>1, <2>2, <2>3, <2>4, <2>5 DEF InsertingSound, NewRow, Exists, RunsOf
<1>10. LoadedSound(q)' /\ HeldSound(q)'
  BY <1>3, <1>4, <1>5, <1>7, NewRowColumns, LocationSets DEF LoadedSound, RowSound, HeldSound
<1> QED BY <1>8, <1>9, <1>10 DEF Harmless

LEMMA MoveHarmless ==
    ASSUME TypeOK, RequestInv, IngestSound, NEW q \in Requests, MoveSource(q)
    PROVE  Harmless(q) /\ Inserting(q) /\ Inserting(q)'
<1>1. PICK d \in Ids, r \in Runs :
        /\ pc[q] = "moving" /\ loaded[q] \in Loaded /\ loaded[q].id = d
        /\ sources' = sources \cup {d} /\ Follows(r, d)
        /\ Becomes(q, IF Keyed(q) THEN "storing" ELSE "committing", request[q],
                   loaded[q], lookup[q], Queued(r))
  BY TypeParts, MoveEffect, RunsAreNaturals DEF Follows
<1>3. /\ pc'[q] \in Answering /\ loaded'[q] = loaded[q] /\ request'[q] = request[q]
      /\ answer'[q].run = r
      /\ \A p \in Requests \ {q} : pc'[p] = pc[p] /\ loaded'[p] = loaded[p]
  BY <1>1, AnswerRecords, LocationSets DEF Becomes, OnlyFor
<1>4. UNCHANGED <<documents, runs>>
  BY DEF MoveSource
<1>5. Inserting(q) /\ documents[d] = None /\ pc[q] \in Writing /\ loaded[q] # None
  BY <1>1, LoadedColumns, LocationSets DEF IngestSound, HeldSound, Inserting
<1>6. Modest(q)
  BY <1>1, <1>3, <1>5 DEF Modest
<1>7. InsertingSound(q)'
  <2>1. InsertingSound(q)
    BY DEF IngestSound
  <2>2. \A e \in Ids : HasChecksum(e, request[q].target)' = HasChecksum(e, request[q].target)
    BY <1>3, <1>4 DEF HasChecksum
  <2>3. \A p \in Requests \ {q} : Inserting(p)' = Inserting(p)
    BY <1>3, <1>4 DEF Inserting
  <2>4. Follows(r, d)'
    BY <1>1, <1>3, <1>4 DEF Follows, Exists, RunsOf
  <2> QED BY <1>1, <1>3, <1>4, <1>5, <2>1, <2>2, <2>3, <2>4 DEF InsertingSound, Exists, RunsOf
<1>8. LoadedSound(q)'
  BY <1>1, <1>3, <1>4, LocationSets DEF IngestSound, LoadedSound, RowSound, Exists, RunsOf
<1>9. HeldSound(q)'
  BY <1>1, <1>3, <1>4, <1>5 DEF HeldSound
<1>10. Inserting(q)'
  BY <1>1, <1>3, <1>4, <1>5, LocationSets DEF Inserting
<1> QED BY <1>5, <1>6, <1>7, <1>8, <1>9, <1>10 DEF Harmless

LEMMA ResolveHarmless ==
    ASSUME TypeOK, RequestInv, IngestSound, NEW q \in Requests, ResolveExisting(q)
    PROVE  Harmless(q)
<1> DEFINE d == loaded[q].id
<1>1. PICK a \in Answers \ {Refused} :
           /\ a.run # None => Exists(a.run)
           /\ \/ Becomes(q, "storing", request[q], loaded[q], lookup[q], a)
              \/ Becomes(q, "replying", request[q], None, None, a)
  BY TypeParts, ResolveEffect
<1>2. /\ pc[q] \in Resolving /\ loaded[q] \in Loaded /\ documents[d] # None /\ ~Locked(d)
  BY TypeParts, ResolveEffect
<1>3. UNCHANGED <<documents, runs>>
  BY DEF ResolveExisting, database
<1>4. CASE Becomes(q, "replying", request[q], None, None, a)
  BY <1>4, ReleasedHarmless DEF Becomes
<1>5. CASE Becomes(q, "storing", request[q], loaded[q], lookup[q], a)
  <2>1. /\ pc'[q] = "storing" /\ loaded'[q] = loaded[q] /\ answer'[q] = a
        /\ request'[q] = request[q]
        /\ \A p \in Requests \ {q} : pc'[p] = pc[p] /\ loaded'[p] = loaded[p]
    BY <1>5 DEF Becomes, OnlyFor
  <2>2. Modest(q)
    BY <1>2, <2>1 DEF Modest
  <2>3. ~Creates(q)'
    BY <1>1, <1>3, <2>1 DEF Creates, Exists
  <2>4. HeldSound(q)'
    BY <1>2, <1>3, <2>1, <2>3 DEF HeldSound, Locked
  <2>5. InsertingSound(q)'
    BY <1>2, <1>3, <2>1 DEF InsertingSound, Inserting
  <2>6. LoadedSound(q)'
    BY <1>2, <1>3, <2>1, LocationSets DEF IngestSound, LoadedSound, RowSound, Exists, RunsOf
  <2> QED BY <2>2, <2>4, <2>5, <2>6 DEF Harmless
<1> QED BY <1>1, <1>4, <1>5

LEMMA LockHarmless ==
    ASSUME TypeOK, RequestInv, IngestSound, NEW q \in Requests, LockDocument(q)
    PROVE  Harmless(q)
<1>1. UNCHANGED <<documents, runs>>
  BY DEF LockDocument, database
<1>2. CASE Becomes(q, "replying", request[q], None, None, Refused)
  BY <1>2, ReleasedHarmless DEF Becomes
<1>3. ASSUME NEW d \in Ids, NEW r \in Runs, documents[d] # None, ~Locked(d),
             Becomes(q, IF Keyed(q) THEN "storing" ELSE "committing", request[q],
                     [id |-> d, row |-> documents[d]], lookup[q], Queued(r))
      PROVE  Harmless(q)
  <2>1. documents[d] \in DocumentRow /\ RowSound(d, documents[d])
    BY <1>3, RowColumns
  <2>2. /\ pc'[q] \in Answering /\ loaded'[q].id = d /\ loaded'[q].row = documents[d]
        /\ request'[q] = request[q]
        /\ \A p \in Requests \ {q} : pc'[p] = pc[p] /\ loaded'[p] = loaded[p]
    BY <1>3, <2>1, LoadedRecord, LocationSets DEF Becomes, OnlyFor
  <2>3. Modest(q)
    BY <1>3, <2>2 DEF Modest
  <2>4. request[q].scope = "reprocess"
    BY TypeParts, LockEffect DEF RequestInv, RequestSound
  <2>5. HeldSound(q)'
    BY <1>1, <1>3, <2>2, LocationSets DEF HeldSound, Locked
  <2>6. InsertingSound(q)'
    BY <1>1, <1>3, <2>2 DEF InsertingSound, Inserting
  <2>7. LoadedSound(q)'
    BY <1>1, <2>1, <2>2, <2>4, LocationSets DEF LoadedSound, RowSound, Exists, RunsOf
  <2> QED BY <2>3, <2>5, <2>6, <2>7 DEF Harmless
<1> QED BY <1>2, <1>3, TypeParts, LockEffect

LEMMA LookUpHarmless ==
    ASSUME TypeOK, RequestInv, IngestSound, NEW q \in Requests, LookUpResponse(q)
    PROVE  Harmless(q)
<1>1. UNCHANGED <<documents, runs, sources>>
  BY DEF LookUpResponse, database
<1>2. /\ pc[q] = "storing" /\ pc'[q] = "committing" /\ request'[q] = request[q]
      /\ loaded'[q] = loaded[q] /\ answer'[q] = answer[q]
      /\ \A p \in Requests \ {q} : pc'[p] = pc[p] /\ loaded'[p] = loaded[p]
  BY TypeParts, LookUpEffect DEF Becomes, OnlyFor
<1>3. Modest(q)
  BY <1>2, LocationSets DEF Modest, Inserting
<1>4. InsertingSound(q) /\ LoadedSound(q) /\ HeldSound(q)
  BY DEF IngestSound
<1>5. /\ \A p \in Requests : Inserting(p)' = Inserting(p)
      /\ \A e \in Ids : HasChecksum(e, request[q].target)' = HasChecksum(e, request[q].target)
      /\ Creates(q)' = Creates(q)
      /\ Follows(answer[q].run, loaded[q].id)' = Follows(answer[q].run, loaded[q].id)
  BY <1>1, <1>2, LocationSets DEF Inserting, HasChecksum, Creates, Follows, Exists, RunsOf
<1>6. InsertingSound(q)'
  BY <1>1, <1>2, <1>4, <1>5 DEF InsertingSound, Exists, RunsOf
<1>7. HeldSound(q)'
  BY <1>1, <1>2, <1>4, <1>5, LocationSets DEF HeldSound
<1>8. LoadedSound(q)'
  BY <1>1, <1>2, <1>4, LocationSets DEF LoadedSound, RowSound, Exists, RunsOf
<1> QED BY <1>3, <1>6, <1>7, <1>8 DEF Harmless

LEMMA AllHarmless ==
    ASSUME TypeOK, RequestInv, IngestSound, NEW q \in Requests, RequestStep(q),
           UNCHANGED <<documents, runs>>
    PROVE  Harmless(q)
<1>0. SessionType /\ DatabaseType
  BY TypeParts
<1>1. CASE FindDocument(q) \/ InsertConflicts(q) \/ InsertDocument(q) \/ MoveSource(q)
           \/ ResolveExisting(q) \/ LockDocument(q) \/ LookUpResponse(q)
  BY <1>1, FindHarmless, InsertHarmless, MoveHarmless, ResolveHarmless, LockHarmless, LookUpHarmless
<1>2. pc[q] \notin Resolving \cup Writing => loaded[q] = None
  BY DEF RequestInv, RequestSound
<1>3. ASSUME NEW asked \in RequestType, Receive(q, asked)
      PROVE  loaded'[q] = None
  BY <1>0, <1>2, <1>3, ReceiveEffect, LocationSets DEF Becomes
<1>4. ASSUME Replay(q) \/ ResolveNothing(q) \/ Commit(q) \/ KeyReused(q) \/ Abort(q)
      PROVE  loaded'[q] = None
  BY <1>0, <1>4, ReplayEffect, ResolveNothingEffect, CommitEffect, KeyReusedEffect,
     AbortEffect DEF Becomes
<1>5. ASSUME StartOver(q) \/ FindNothing(q) \/ Admit(q) \/ Reply(q)
      PROVE  loaded'[q] = None
  BY <1>0, <1>2, <1>5, StartOverEffect, FindNothingEffect, AdmitEffect, ReplyEffect,
     LocationSets DEF Becomes
<1>6. ASSUME QueueRecovery(q) PROVE FALSE
  <2>1. PICK d \in Ids, r \in Runs : Queues(q, d, r, documents[d])
    BY <1>0, <1>6, RecoveryEffect
  <2> QED BY <2>1 DEF Queues, Exists
<1> QED BY <1>1, <1>3, <1>4, <1>5, <1>6, ReleasedHarmless DEF RequestStep, Progress

LEMMA QuietIngest ==
    ASSUME TypeOK, RequestInv, IngestSound, NEW q \in Requests, RequestStep(q),
           UNCHANGED <<documents, runs>>
    PROVE  IngestSound'
<1>1. Harmless(q)
  BY AllHarmless
<1>2. OnlyFor(q) /\ SourcesKept(q)
  BY RequestStepType, StepKeepsSources
<1>3. \A p \in Requests \ {q} : InsertingSound(p)' /\ LoadedSound(p)' /\ HeldSound(p)'
  BY <1>1, <1>2, OthersQuiet DEF Harmless
<1>4. OneDocumentPerChecksum'
  BY DEF IngestSound, OneDocumentPerChecksum, HasChecksum
<1>5. \A d \in Ids : documents'[d] # None => RowSound(d, documents[d])'
  BY DEF IngestSound, RowSound, Exists, RunsOf
<1> QED BY <1>1, <1>3, <1>4, <1>5 DEF IngestSound, Harmless

-------------------------------------------------------------------------------
(* Documents: a run is queued, or ends                                     *)

(* The row of the document d, and nothing else, is written.                *)
Writes(d) ==
    /\ Grows /\ sources' = sources
    /\ \A e \in Ids \ {d} : documents'[e] = documents[e]
    /\ documents'[d] # None /\ RowSound(d, documents[d])'
    /\ \A e \in Ids \ {d} : ~HasChecksum(e, documents'[d].sha256)
    /\ \A s \in Runs : ~Exists(s) /\ DocumentOf[s] # d => runs'[s] = "absent"

(* What the request p relies on is not written.                            *)
Spares(p, d) ==
    \/ loaded'[p] = None
    \/ /\ pc'[p] = pc[p] /\ request'[p] = request[p] /\ loaded'[p] = loaded[p]
       /\ answer'[p] = answer[p]
       /\ loaded[p] # None /\ loaded[p].id = d => documents[d] # None
       /\ loaded[p] # None /\ loaded[p].id = d /\ pc[p] \in Writing =>
            documents'[d] = documents[d]
       /\ Inserting(p) => documents'[d].sha256 # request[p].target

LEMMA SparedRequest ==
    ASSUME TypeOK, RequestInv, IngestSound, NEW d \in Ids, Writes(d),
           \A x \in Requests : Spares(x, d), NEW p \in Requests
    PROVE  /\ InsertingSound(p)' /\ LoadedSound(p)' /\ HeldSound(p)'
           /\ Inserting(p) => loaded'[p] = None \/ Inserting(p)'
<1>1. CASE loaded'[p] = None
  BY <1>1, ReleasedHarmless DEF Harmless
<1>2. CASE loaded'[p] # None
  <2>1. /\ pc'[p] = pc[p] /\ request'[p] = request[p] /\ loaded'[p] = loaded[p]
        /\ answer'[p] = answer[p] /\ loaded[p] # None
        /\ loaded[p].id = d => documents[d] # None
        /\ loaded[p].id = d /\ pc[p] \in Writing => documents'[d] = documents[d]
        /\ Inserting(p) => documents'[d].sha256 # request[p].target
    BY <1>2 DEF Spares
  <2>2. InsertingSound(p) /\ LoadedSound(p) /\ HeldSound(p) /\ loaded[p].id \in Ids
    BY <2>1, HeldColumns DEF IngestSound
  <2>3. \A x \in Requests : loaded'[x] # None =>
          pc'[x] = pc[x] /\ loaded'[x] = loaded[x]
    BY DEF Spares
  <2>4. documents'[loaded[p].id] = None <=> documents[loaded[p].id] = None
    BY <2>1, <2>2 DEF Writes
  <2>5. LoadedSound(p)'
    <3>1. documents'[loaded[p].id] # None => documents'[loaded[p].id].sha256 = loaded[p].row.sha256
      BY <2>1, <2>2, <2>4 DEF LoadedSound, Writes, Grows
    <3>2. RowSound(loaded[p].id, loaded[p].row)'
      <4>1. RowSound(loaded[p].id, loaded[p].row)
        BY <2>1, <2>2 DEF LoadedSound
      <4>2. /\ loaded[p].row.active_run_id \in Runs \cup {None}
            /\ loaded[p].row.latest_run_id \in Runs \cup {None}
        BY <2>1, HeldColumns
      <4> QED BY <2>1, <4>1, <4>2 DEF RowSound, Writes, Grows, RunsKept, Exists, RunsOf
    <3> QED BY <2>1, <2>2, <2>4, <3>1, <3>2 DEF LoadedSound
  <2>6. ASSUME Inserting(p)
        PROVE  InsertingSound(p)' /\ Inserting(p)'
    <3>1. loaded[p].id # d /\ documents[loaded[p].id] = None
      BY <2>1, <2>6 DEF Inserting
    <3>2. Inserting(p)'
      BY <2>1, <2>4, <2>6 DEF Inserting
    <3>3. \A s \in RunsOf(loaded[p].id) : ~Exists(s) => runs'[s] = "absent"
      BY <3>1 DEF Writes, RunsOf
    <3>4. \A e \in Ids : ~HasChecksum(e, request[p].target)'
      <4>1. \A e \in Ids \ {d} : documents'[e] = documents[e]
        BY DEF Writes
      <4> QED BY <2>1, <2>2, <2>6, <4>1 DEF InsertingSound, HasChecksum
    <3>5. \A x \in Requests \ {p} : loaded'[x] # None => loaded'[x].id # loaded[p].id
      BY <2>2, <2>3, <2>6 DEF InsertingSound
    <3>6. \A x \in Requests : Inserting(x)' => Inserting(x) /\ loaded'[x] = loaded[x]
      <4> SUFFICES ASSUME NEW x \in Requests, Inserting(x)'
                   PROVE  Inserting(x) /\ loaded'[x] = loaded[x]
        OBVIOUS
      <4>1. loaded'[x] # None /\ pc'[x] \in Writing /\ documents'[loaded'[x].id] = None
        BY DEF Inserting
      <4>2. pc'[x] = pc[x] /\ loaded'[x] = loaded[x]
        BY <2>3, <4>1
      <4>3. loaded[x].id \in Ids
        BY <4>1, <4>2, HeldColumns
      <4>4. documents[loaded[x].id] = None
        BY <4>1, <4>2, <4>3 DEF Writes
      <4> QED BY <4>1, <4>2, <4>4 DEF Inserting
    <3>7. /\ pc[p] # "moving" => loaded[p].id \in sources'
          /\ pc[p] # "moving" => Follows(answer[p].run, loaded[p].id)'
      BY <2>1, <2>2, <2>6, <3>3 DEF InsertingSound, Writes, Follows, Exists, RunsOf
    <3> QED BY <2>1, <2>2, <2>6, <3>2, <3>3, <3>4, <3>5, <3>6, <3>7
            DEF InsertingSound, Exists, RunsOf
  <2>7. ASSUME ~Inserting(p)
        PROVE  InsertingSound(p)'
    BY <2>1, <2>4, <2>7 DEF InsertingSound, Inserting
  <2>8. ASSUME pc[p] \in Writing, documents[loaded[p].id] # None
        PROVE  HeldSound(p)'
    <3>1. documents'[loaded[p].id] = documents[loaded[p].id]
      BY <2>1, <2>2, <2>8 DEF Writes
    <3>2. Creates(p)' => Creates(p)
      <4>1. SessionType
        BY TypeParts
      <4>2. pc[p] \in Answering => answer[p].run \in Runs \cup {None}
        BY <4>1, Committing, AnswerColumns
      <4> QED BY <2>1, <2>2, <2>8, <4>2, LocationSets
              DEF Creates, Writes, Grows, RunsKept, Exists, HeldSound
    <3> QED BY <2>1, <2>2, <2>3, <2>8, <3>1, <3>2 DEF HeldSound
  <2>9. ASSUME ~(pc[p] \in Writing /\ documents[loaded[p].id] # None)
        PROVE  HeldSound(p)'
    BY <2>1, <2>4, <2>9 DEF HeldSound
  <2> QED BY <2>5, <2>6, <2>7, <2>8, <2>9
<1> QED BY <1>1, <1>2

LEMMA SparedIngest ==
    ASSUME TypeOK, RequestInv, IngestSound, NEW d \in Ids, Writes(d),
           \A x \in Requests : Spares(x, d)
    PROVE  /\ IngestSound' /\ Grows
           /\ \A p \in Requests : Inserting(p) => loaded'[p] = None \/ Inserting(p)'
<1>1. OneDocumentPerChecksum'
  BY DEF IngestSound, OneDocumentPerChecksum, HasChecksum, Writes
<1>2. ASSUME NEW e \in Ids \ {d}, documents'[e] # None
      PROVE  RowSound(e, documents[e])'
  <2>1. documents'[e] = documents[e] /\ Grows
    BY DEF Writes
  <2>2. /\ RowSound(e, documents[e])
        /\ documents[e].active_run_id \in Runs \cup {None}
        /\ documents[e].latest_run_id \in Runs \cup {None}
    BY <1>2, <2>1, RowColumns
  <2> QED BY <2>1, <2>2 DEF RowSound, Grows, RunsKept, Exists, RunsOf
<1>3. \A e \in Ids : documents'[e] # None => RowSound(e, documents[e])'
  BY <1>2 DEF Writes
<1> QED BY <1>1, <1>3, SparedRequest DEF IngestSound, Writes

LEMMA InsertedRow ==
    ASSUME IngestSound, NEW p \in Requests, Inserting(p)
    PROVE  /\ documents[loaded[p].id] = None
           /\ loaded[p].row.sha256 = request[p].target
           /\ loaded[p].row.active_run_id = None /\ loaded[p].row.latest_run_id = None
           /\ \A e \in Ids : ~HasChecksum(e, request[p].target)
           /\ \A x \in Requests \ {p} : loaded[x] # None => loaded[x].id # loaded[p].id
           /\ \A x \in Requests \ {p} :
                Inserting(x) => loaded[x].row.sha256 # request[p].target
<1>1. InsertingSound(p)
  BY DEF IngestSound
<1> QED BY <1>1 DEF InsertingSound, Inserting

LEMMA NewChecksum ==
    ASSUME IngestSound, NEW p \in Requests, Inserting(p), NEW d \in Ids, documents[d] # None
    PROVE  documents[d].sha256 # request[p].target
BY InsertedRow DEF HasChecksum

(* A document that is there gets one more run, or a new one its first.     *)
Fits(q, d, row) ==
    \/ /\ documents[d] # None /\ RowSound(d, row) /\ row.sha256 = documents[d].sha256
       /\ \A p \in Requests \ {q} :
            pc[p] \in Writing /\ loaded[p] # None => loaded[p].id # d
    \/ Inserting(q) /\ loaded[q].id = d /\ loaded[q].row = row

LEMMA QueueingIngest ==
    ASSUME TypeOK, RequestInv, IngestSound, NEW q \in Requests, OnlyFor(q),
           NEW d \in Ids, NEW r \in Runs, NEW row \in DocumentRow, Queues(q, d, r, row),
           DocumentOf[r] = d, Fits(q, d, row), loaded'[q] = None, sources' = sources
    PROVE  Writes(d) /\ \A p \in Requests : Spares(p, d)
<1>1. /\ ~Exists(r) /\ runs'[r] = "inflight" /\ \A s \in Runs \ {r} : runs'[s] = runs[s]
      /\ documents'[d] # None /\ documents'[d].latest_run_id = r
      /\ documents'[d].sha256 = row.sha256
      /\ documents'[d].active_run_id = row.active_run_id
      /\ \A e \in Ids \ {d} : documents'[e] = documents[e]
  BY DocumentColumns DEF Queues
<1>2. Inserting(q) /\ loaded[q].id = d /\ loaded[q].row = row =>
        /\ documents[d] = None /\ request[q].target = row.sha256
        /\ row.active_run_id = None /\ row.latest_run_id = None
        /\ \A p \in Requests \ {q} : loaded[p] # None => loaded[p].id # d
        /\ \A e \in Ids : ~HasChecksum(e, row.sha256)
        /\ \A p \in Requests \ {q} : Inserting(p) => request[p].target # row.sha256
  <2> SUFFICES ASSUME Inserting(q), loaded[q].id = d, loaded[q].row = row
               PROVE  /\ documents[d] = None /\ request[q].target = row.sha256
                      /\ row.active_run_id = None /\ row.latest_run_id = None
                      /\ \A p \in Requests \ {q} : loaded[p] # None => loaded[p].id # d
                      /\ \A e \in Ids : ~HasChecksum(e, row.sha256)
                      /\ \A p \in Requests \ {q} : Inserting(p) => request[p].target # row.sha256
    OBVIOUS
  <2>1. \A p \in Requests : Inserting(p) => loaded[p].row.sha256 = request[p].target
    BY InsertedRow
  <2> QED BY <2>1, InsertedRow
<1>3. Grows
  <2>1. documents[d] # None => documents'[d].sha256 = documents[d].sha256
    BY <1>1, <1>2 DEF Fits
  <2> QED BY <1>1, <2>1 DEF Grows, RunsKept, Exists
<1>4. RowSound(d, documents[d])'
  <2>1. RowSound(d, row)
    BY <1>2, DocumentColumns DEF Fits, RowSound
  <2>2. row.active_run_id # None => row.active_run_id \in Runs /\ row.active_run_id # r
    BY <1>1, <2>1 DEF RowSound, RunsOf, Exists
  <2> QED BY <1>1, <2>1, <2>2 DEF RowSound, RunsOf, Exists
<1>5. \A e \in Ids \ {d} : ~HasChecksum(e, documents'[d].sha256)
  <2>1. \A x, e \in Ids :
          documents[x] # None /\ HasChecksum(e, documents[x].sha256) => x = e
    BY DEF IngestSound, OneDocumentPerChecksum
  <2>2. CASE documents[d] # None /\ row.sha256 = documents[d].sha256
    BY <1>1, <2>1, <2>2
  <2>3. CASE Inserting(q) /\ loaded[q].id = d /\ loaded[q].row = row
    BY <1>1, <1>2, <2>3 DEF HasChecksum
  <2> QED BY <2>2, <2>3 DEF Fits
<1>6. Writes(d)
  BY <1>1, <1>3, <1>4, <1>5 DEF Writes, Exists
<1>7. ASSUME NEW p \in Requests \ {q}
      PROVE  Spares(p, d)
  <2>1. /\ pc'[p] = pc[p] /\ request'[p] = request[p] /\ loaded'[p] = loaded[p]
        /\ answer'[p] = answer[p]
    BY DEF OnlyFor
  <2>2. loaded[p] # None /\ loaded[p].id = d => documents[d] # None
    BY <1>2 DEF Fits
  <2>3. loaded[p] # None /\ pc[p] \in Writing => loaded[p].id # d
    BY <1>2 DEF Fits
  <2>4. Inserting(p) => documents'[d].sha256 # request[p].target
    BY <1>1, <1>2, NewChecksum DEF Fits
  <2> QED BY <2>1, <2>2, <2>3, <2>4 DEF Spares
<1>8. Spares(q, d)
  BY DEF Spares
<1> QED BY <1>6, <1>7, <1>8

LEMMA RequestIngest ==
    ASSUME TypeOK, RequestInv, IngestSound, NEW q \in Requests, RequestStep(q)
    PROVE  /\ IngestSound' /\ Grows
           /\ \A p \in Requests \ {q} : Inserting(p) => Inserting(p)'
<1>0. SessionType /\ DatabaseType /\ OnlyFor(q)
  BY TypeParts, RequestStepType
<1>1. ASSUME UNCHANGED <<documents, runs>>
      PROVE  /\ IngestSound' /\ Grows
             /\ \A p \in Requests \ {q} : Inserting(p) => Inserting(p)'
  <2>1. Grows
    BY <1>1 DEF Grows, RunsKept, Exists
  <2>2. \A p \in Requests \ {q} : Inserting(p) => Inserting(p)'
    BY <1>0, <1>1 DEF OnlyFor, Inserting
  <2> QED BY <1>1, <2>1, <2>2, QuietIngest
<1>2. ASSUME NEW d \in Ids, NEW r \in Runs, NEW row \in DocumentRow, Queues(q, d, r, row),
             DocumentOf[r] = d, Fits(q, d, row), loaded'[q] = None, sources' = sources
      PROVE  /\ IngestSound' /\ Grows
             /\ \A p \in Requests \ {q} : Inserting(p) => Inserting(p)'
  <2>1. Writes(d) /\ \A p \in Requests : Spares(p, d)
    BY <1>0, <1>2, QueueingIngest
  <2>2. \A p \in Requests \ {q} : Inserting(p) => loaded'[p] # None
    BY <1>0 DEF OnlyFor, Inserting
  <2> QED BY <2>1, <2>2, SparedIngest
<1>3. CASE QueueRecovery(q)
  <2>1. PICK d \in Ids, r \in Runs :
             /\ documents[d] # None /\ ~Locked(d) /\ DocumentOf[r] = d
             /\ Queues(q, d, r, documents[d]) /\ loaded'[q] = None
    BY <1>0, <1>3, RecoveryEffect DEF Becomes
  <2>2. documents[d] \in DocumentRow /\ RowSound(d, documents[d])
    BY <2>1, RowColumns
  <2>3. PICK row \in DocumentRow : row = documents[d]
    BY <2>2
  <2>4. Fits(q, d, row)
    BY <2>1, <2>2, <2>3 DEF Fits, Locked
  <2>5. Queues(q, d, r, row) /\ sources' = sources
    BY <1>3, <2>1, <2>3 DEF QueueRecovery
  <2> QED BY <1>2, <2>1, <2>4, <2>5
<1>4. CASE Commit(q) /\ Creates(q)
  <2>1. /\ pc[q] = "committing" /\ loaded[q] \in Loaded
        /\ DocumentOf[answer[q].run] = loaded[q].id
        /\ Queues(q, loaded[q].id, answer[q].run, loaded[q].row) /\ loaded'[q] = None
    BY <1>0, <1>4, CommitEffect DEF Becomes
  <2>2. loaded[q] # None /\ loaded[q].id \in Ids /\ loaded[q].row \in DocumentRow
        /\ answer[q].run \in Runs
    BY <2>1, LoadedColumns DEF Queues
  <2>3. PICK d \in Ids, r \in Runs, row \in DocumentRow :
          d = loaded[q].id /\ r = answer[q].run /\ row = loaded[q].row
    BY <2>2
  <2>4. pc[q] \in Writing
    BY <2>1, LocationSets
  <2>5. LoadedSound(q) /\ HeldSound(q)
    BY DEF IngestSound
  <2>6. documents[d] = None => Inserting(q)
    BY <2>2, <2>3, <2>4 DEF Inserting
  <2>7. Fits(q, d, row)
    BY <2>2, <2>3, <2>4, <2>5, <2>6 DEF Fits, LoadedSound, HeldSound
  <2>8. Queues(q, d, r, row) /\ sources' = sources /\ DocumentOf[r] = d
    BY <1>4, <2>1, <2>3 DEF Commit
  <2> QED BY <1>2, <2>1, <2>7, <2>8
<1>5. CASE ~QueueRecovery(q) /\ ~(Commit(q) /\ Creates(q))
  <2>1. UNCHANGED <<documents, runs>>
    BY <1>0, <1>5, QuietSteps, CommitEffect DEF Rest
  <2> QED BY <1>1, <2>1
<1> QED BY <1>3, <1>4, <1>5

LEMMA WorkerIngest ==
    ASSUME TypeOK, RequestInv, IngestSound, WorkerStep
    PROVE  /\ IngestSound' /\ Grows
           /\ \A p \in Requests : Inserting(p) => Inserting(p)'
<1>0. SessionType /\ DatabaseType
  BY TypeParts
<1>1. PICK r \in Runs : RunSucceeds(r) \/ RunFails(r)
  BY DEF WorkerStep
<1>2. PICK d \in Ids : d = DocumentOf[r]
  BY DocumentOfIdAssumption
<1>3. /\ UNCHANGED <<sources, pc, session>>
      /\ runs[r] = "inflight" /\ runs'[r] \in {"completed", "failed"}
      /\ \A s \in Runs \ {r} : runs'[s] = runs[s]
  BY <1>0, <1>1, WorkerEffect
<1>4. documents[d] # None
  BY <1>2, <1>3 DEF RequestInv, NoOrphans
<1>5. /\ documents'[d] # None /\ documents'[d].sha256 = documents[d].sha256
      /\ \A e \in Ids \ {d} : documents'[e] = documents[e]
      /\ documents'[d] = documents[d]
         \/ /\ ~Locked(d) /\ runs'[r] = "completed"
            /\ documents'[d].active_run_id = r /\ documents'[d].latest_run_id = r
  <2>1. CASE RunSucceeds(r)
    BY <1>0, <1>2, <1>4, <2>1, SucceedEffect, DocumentColumns
  <2>2. CASE RunFails(r)
    BY <1>4, <2>2 DEF RunFails
  <2> QED BY <1>1, <2>1, <2>2
<1>6. Grows
  BY <1>3, <1>5 DEF Grows, RunsKept, Exists
<1>7. RowSound(d, documents[d])'
  <2>1. CASE documents'[d] = documents[d]
    <3>1. /\ RowSound(d, documents[d])
          /\ documents[d].active_run_id \in Runs \cup {None}
          /\ documents[d].latest_run_id \in Runs \cup {None}
      BY <1>4, RowColumns
    <3> QED BY <1>6, <2>1, <3>1 DEF RowSound, Grows, RunsKept, Exists, RunsOf
  <2>2. CASE documents'[d] # documents[d]
    BY <1>2, <1>5, <2>2 DEF RowSound, Exists, RunsOf
  <2> QED BY <2>1, <2>2
<1>8. Writes(d)
  <2>1. \A e \in Ids \ {d} : ~HasChecksum(e, documents'[d].sha256)
    BY <1>4, <1>5 DEF IngestSound, OneDocumentPerChecksum
  <2>2. \A s \in Runs : ~Exists(s) => runs'[s] = "absent"
    BY <1>3 DEF Exists
  <2> QED BY <1>3, <1>5, <1>6, <1>7, <2>1, <2>2 DEF Writes
<1>9. ASSUME NEW p \in Requests
      PROVE  Spares(p, d)
  <2>1. loaded[p] # None /\ loaded[p].id = d /\ pc[p] \in Writing => documents'[d] = documents[d]
    BY <1>5 DEF Locked
  <2>2. Inserting(p) => documents'[d].sha256 # request[p].target
    BY <1>4, <1>5, NewChecksum
  <2> QED BY <1>3, <1>4, <2>1, <2>2 DEF Spares, session
<1>10. \A p \in Requests : Inserting(p) => loaded'[p] # None
  BY <1>3 DEF Inserting, session
<1> QED BY <1>8, <1>9, <1>10, SparedIngest

LEMMA StutterIngest ==
    ASSUME IngestSound, UNCHANGED vars
    PROVE  IngestSound' /\ Grows /\ \A p \in Requests : Inserting(p) => Inserting(p)'
<1>1. UNCHANGED <<documents, runs, sources, pc, request, loaded, answer>>
  BY DEF vars, database, session
<1>2. OneDocumentPerChecksum' /\ \A d \in Ids : documents'[d] # None => RowSound(d, documents[d])'
  BY <1>1 DEF IngestSound, OneDocumentPerChecksum, HasChecksum, RowSound, Exists, RunsOf
<1>3. \A q \in Requests : InsertingSound(q)' = InsertingSound(q)
  BY <1>1 DEF InsertingSound, Inserting, HasChecksum, Follows, Exists, RunsOf
<1>4. \A q \in Requests : LoadedSound(q)' = LoadedSound(q)
  BY <1>1 DEF LoadedSound, RowSound, Exists, RunsOf
<1>5. \A q \in Requests : HeldSound(q)' = HeldSound(q)
  BY <1>1 DEF HeldSound, Creates
<1>6. Grows /\ \A p \in Requests : Inserting(p) => Inserting(p)'
  BY <1>1 DEF Grows, RunsKept, Exists, Inserting
<1> QED BY <1>2, <1>3, <1>4, <1>5, <1>6 DEF IngestSound

-------------------------------------------------------------------------------
(* The steps of a batch are steps of DocumentIngest                        *)

BatchType ==
    /\ batch \in BatchRow \cup {None}
    /\ items \in Seq(ItemRow)
    /\ place \in Places

LEMMA BatchTypeParts == BatchTypeOK <=> TypeOK /\ BatchType
BY DEF BatchTypeOK, BatchType

LEMMA NextFileType ==
    ASSUME BatchType, Len(items) < Len(Files)
    PROVE  /\ NextFile \in RequestType /\ NextFile # None
           /\ NextFile.scope = "create" /\ NextFile.key = None
           /\ NextFile.target \in Checksums
<1>1. Len(items) + 1 \in 1 .. Len(Files)
  BY FilesAssumption DEF BatchType
<1>2. Files[Len(items) + 1] \in Checksums
  BY <1>1, FilesAssumption
<1>3. NextFile \in RequestType /\ NextFile.scope = "create" /\ NextFile.key = None
      /\ NextFile.target \in Checksums
  BY <1>2 DEF NextFile, RequestType
<1> QED BY <1>3, RowAssumption

LEMMA BatchStepKinds ==
    ASSUME BatchType, LoaderSound, BatchNext
    PROVE  /\ (\E q \in Requests : RequestStep(q)) \/ WorkerStep \/ UNCHANGED vars
           /\ [Next]_vars
<1>1. ASSUME NEW q \in Requests, (Progress(q) /\ Prompt) \/ Abort(q) \/ Reply(q)
      PROVE  RequestStep(q) /\ Next
  BY <1>1 DEF RequestStep, Next
<1>2. ASSUME NEW q \in Requests, NEW asked \in RequestType, Receive(q, asked)
      PROVE  RequestStep(q) /\ Next
  BY <1>2 DEF RequestStep, Next
<1>3. Loader \in Requests /\ Others \subseteq Requests
  BY FilesAssumption DEF Others
<1>4. CASE BatchStep /\ Prompt
  <2>1. CASE CreateBatch \/ ScanFails \/ ScanFinds \/ RecordFailure \/ FinishBatch
    BY <2>1 DEF CreateBatch, ScanFails, ScanFinds, RecordFailure, FinishBatch
  <2>2. CASE IngestNext
    <3>1. NextFile \in RequestType /\ Receive(Loader, NextFile)
      BY <2>2, NextFileType DEF IngestNext, NextFile
    <3> QED BY <1>2, <1>3, <3>1
  <2>3. CASE Ingests \/ RecordSuccess \/ IngestFails
    BY <1>1, <1>3, <1>4, <2>3 DEF Ingests, RecordSuccess, IngestFails
  <2> QED BY <1>4, <2>1, <2>2, <2>3 DEF BatchStep
<1>5. CASE BatchDies
  BY <1>1, <1>3, <1>5 DEF BatchDies
<1>6. CASE ApiStep /\ Prompt
  BY <1>1, <1>2, <1>3, <1>6 DEF ApiStep
<1>7. CASE WorkerStep /\ Prompt
  BY <1>7 DEF Next
<1> QED BY <1>4, <1>5, <1>6, <1>7 DEF BatchNext

LEMMA BatchBase ==
    ASSUME BatchInv, [BatchNext]_batchVars
    PROVE  /\ TypeOK' /\ RequestInv' /\ IngestSound' /\ Grows
           /\ [Next]_vars
<1>1. TypeOK /\ RequestInv /\ IngestSound /\ BatchType /\ LoaderSound
  BY BatchTypeParts DEF BatchInv
<1>2. UNCHANGED batchVars => UNCHANGED vars
  BY DEF batchVars
<1>3. CASE BatchNext
  <2>1. /\ (\E q \in Requests : RequestStep(q)) \/ WorkerStep \/ UNCHANGED vars
        /\ [Next]_vars
    BY <1>1, <1>3, BatchStepKinds
  <2> QED BY <1>1, <2>1, RequestStepType, RequestStepInv, WorkerStepInv, BaseStutter,
             RequestIngest, WorkerIngest, StutterIngest
<1>4. CASE UNCHANGED vars
  BY <1>1, <1>4, BaseStutter, StutterIngest
<1> QED BY <1>2, <1>3, <1>4

-------------------------------------------------------------------------------
(* The items of a batch                                                    *)

LEMMA ItemColumns ==
    ASSUME NEW item \in ItemRow
    PROVE  /\ item.status \in Kinds /\ item.sha256 \in Checksums \cup {None}
           /\ item.document \in Ids \cup {None} /\ item.run \in Runs \cup {None}
           /\ item.duplicate \in BOOLEAN /\ item.recovery_run \in BOOLEAN
BY DEF ItemRow

LEMMA ItemKept ==
    ASSUME Grows, NEW item \in ItemRow, ItemSound(item)
    PROVE  ItemSound(item)'
<1>1. item.document \in Ids => (Answered(item.sha256, item.document, item.run)
                                 => Answered(item.sha256, item.document, item.run)')
  BY ItemColumns, AnsweredKept
<1> QED BY <1>1 DEF ItemSound

LEMMA ItemsKept ==
    ASSUME Grows, BatchType, BatchSound, items' = items
    PROVE  \A i \in DOMAIN items' : ItemSound(items[i])'
<1> SUFFICES ASSUME NEW i \in DOMAIN items
             PROVE  ItemSound(items[i])'
  OBVIOUS
<1>1. PICK item \in ItemRow : item = items[i]
  BY DEF BatchType
<1>2. ItemSound(item)
  BY <1>1 DEF BatchSound
<1>3. ItemSound(item)'
  BY <1>2, ItemKept
<1>4. item = items'[i]
  BY <1>1
<1> QED BY <1>3, <1>4 DEF ItemSound

Having(list, k) == {i \in DOMAIN list : list[i].status = k}

LEMMA CountAppended ==
    ASSUME NEW list \in Seq(ItemRow), NEW row \in ItemRow, NEW k \in Kinds
    PROVE  /\ Cardinality(Having(list, k)) \in Nat
           /\ Cardinality(Having(Append(list, row), k))
                = Cardinality(Having(list, k)) + (IF row.status = k THEN 1 ELSE 0)
<1> DEFINE longer == Append(list, row)
           n == Len(list) + 1
<1>1. /\ DOMAIN list = 1 .. Len(list) /\ Len(list) \in Nat
      /\ DOMAIN longer = 1 .. n /\ longer[n] = row
      /\ \A i \in 1 .. Len(list) : longer[i] = list[i]
  OBVIOUS
<1>2. IsFiniteSet(Having(list, k)) /\ Cardinality(Having(list, k)) \in Nat
  <2>1. IsFiniteSet(1 .. Len(list)) /\ Having(list, k) \in SUBSET (1 .. Len(list))
    BY <1>1, FS_Interval DEF Having
  <2> QED BY <2>1, FS_Subset, FS_CardinalityType
<1>3. Having(longer, k) = Having(list, k) \cup (IF row.status = k THEN {n} ELSE {})
  <2> HIDE DEF longer
  <2> QED BY <1>1 DEF Having
<1>4. n \notin Having(list, k)
  BY <1>1 DEF Having
<1>5. Cardinality(Having(list, k) \cup {n}) = Cardinality(Having(list, k)) + 1
  BY <1>2, <1>4, FS_AddElement
<1> HIDE DEF longer, n
<1>6. CASE row.status = k
  BY <1>2, <1>3, <1>5, <1>6 DEF longer
<1>7. CASE row.status # k
  BY <1>2, <1>3, <1>7 DEF longer
<1> QED BY <1>6, <1>7

(* Every status has a counter of its own.                                  *)
LEMMA CountersDiffer ==
    ASSUME NEW j \in Kinds, NEW k \in Kinds
    PROVE  /\ CounterOf[j] \in Counters /\ CounterOf[j] # "file_count"
           /\ CounterOf[j] = CounterOf[k] <=> j = k
<1>1. /\ CounterOf["queued"] = "queued_count"
      /\ CounterOf["queued_recovery"] = "recovery_queued_count"
      /\ CounterOf["duplicate"] = "duplicate_count" /\ CounterOf["failed"] = "failed_count"
  BY DEF CounterOf
<1> QED BY <1>1 DEF Kinds, Counters

(* The two chains of conditions of _record_batch_item_success agree.       *)
LEMMA ChainsAgree ==
    ASSUME NEW payload \in Answers, payload # Refused
    PROVE  /\ ItemStatus(payload) \in Kinds \ {"failed"}
           /\ CounterFor(payload) = CounterOf[ItemStatus(payload)]
           /\ IsDuplicate(payload) \in BOOLEAN /\ payload.recovery \in BOOLEAN
           /\ payload.run = None => IsDuplicate(payload)
<1>1. /\ CounterOf["queued"] = "queued_count"
      /\ CounterOf["queued_recovery"] = "recovery_queued_count"
      /\ CounterOf["duplicate"] = "duplicate_count"
  BY DEF CounterOf
<1>2. payload.recovery \in BOOLEAN /\ IsDuplicate(payload) \in BOOLEAN
      /\ (payload.run = None => IsDuplicate(payload))
  BY DEF Answers, IsDuplicate
<1>3. CASE payload.recovery /\ payload.run # None
  BY <1>1, <1>2, <1>3 DEF ItemStatus, CounterFor, Kinds
<1>4. CASE ~(payload.recovery /\ payload.run # None)
  BY <1>1, <1>2, <1>4 DEF ItemStatus, CounterFor, IsDuplicate, Kinds
<1> QED BY <1>3, <1>4

LEMMA Counting ==
    ASSUME NEW b \in BatchRow, NEW counter \in Counters
    PROVE  LET new == [b EXCEPT !.count = CountUp(b.count, counter)]
           IN  /\ new \in BatchRow /\ new.status = b.status
               /\ \A c \in Counters :
                    new.count[c] =
                        b.count[c] + (IF c \in {"file_count", counter} THEN 1 ELSE 0)
<1> DEFINE new == [b EXCEPT !.count = CountUp(b.count, counter)]
           more == CountUp(b.count, counter)
<1>1. b.count \in [Counters -> Nat] /\ b.status \in {"running"} \cup Terminal
      /\ b = [status |-> b.status, count |-> b.count]
  BY DEF BatchRow
<1>2. new = [status |-> b.status, count |-> more]
  BY <1>1
<1>3. /\ more \in [Counters -> Nat]
      /\ \A c \in Counters :
           more[c] = b.count[c] + (IF c \in {"file_count", counter} THEN 1 ELSE 0)
  BY <1>1 DEF CountUp
<1> HIDE DEF new, more
<1>4. new \in BatchRow /\ new.count = more /\ new.status = b.status
  BY <1>1, <1>2, <1>3 DEF BatchRow
<1> QED BY <1>3, <1>4 DEF new

LEMMA AppendedSeq ==
    ASSUME NEW list \in Seq(ItemRow), NEW row \in ItemRow
    PROVE  /\ Append(list, row) \in Seq(ItemRow)
           /\ Len(list) \in Nat /\ Len(Append(list, row)) = Len(list) + 1
           /\ DOMAIN Append(list, row) = 1 .. Len(list) + 1 /\ DOMAIN list = 1 .. Len(list)
           /\ Append(list, row)[Len(list) + 1] = row
           /\ \A i \in 1 .. Len(list) : Append(list, row)[i] = list[i]
OBVIOUS

(* An outcome is recorded, and counted, in one commit.                     *)
LEMMA RecordKeeps ==
    ASSUME Grows, BatchType, BatchSound, batch # None, NEW row \in ItemRow,
           Record(row, CounterOf[row.status]), ItemSound(row)', place # "returned",
           \/ row.sha256 = Files[Len(items) + 1]
           \/ row.sha256 = None /\ row.status = "failed"
    PROVE  /\ batch' \in BatchRow /\ batch' # None /\ items' \in Seq(ItemRow)
           /\ Len(items') = Len(items) + 1
           /\ \A i \in DOMAIN items' : ItemSound(items[i])'
           /\ CountsMatchItems' /\ ItemsInOrder' /\ FinishedSound'
<1>1. /\ batch \in BatchRow /\ row.status \in Kinds /\ items' = Append(items, row)
      /\ batch' = [batch EXCEPT !.count = CountUp(batch.count, CounterOf[row.status])]
      /\ items \in Seq(ItemRow)
  BY ItemColumns DEF Record, BatchType
<1>2. /\ batch' \in BatchRow /\ batch'.status = batch.status
      /\ batch'.count["file_count"] = batch.count["file_count"] + 1
      /\ \A k \in Kinds :
           batch'.count[CounterOf[k]] =
               batch.count[CounterOf[k]] + (IF k = row.status THEN 1 ELSE 0)
  <2>1. PICK counter \in Counters : counter = CounterOf[row.status]
    BY <1>1, CountersDiffer
  <2>2. batch' = [batch EXCEPT !.count = CountUp(batch.count, counter)]
    BY <1>1, <2>1
  <2>3. /\ batch' \in BatchRow /\ batch'.status = batch.status
        /\ \A c \in Counters :
             batch'.count[c] =
                 batch.count[c] + (IF c \in {"file_count", counter} THEN 1 ELSE 0)
    <3>1. PICK b \in BatchRow : b = batch
      BY <1>1
    <3> DEFINE new == [b EXCEPT !.count = CountUp(b.count, counter)]
    <3>2. batch' = new
      BY <2>2, <3>1
    <3>3. /\ new \in BatchRow /\ new.status = b.status
          /\ \A c \in Counters :
               new.count[c] = b.count[c] + (IF c \in {"file_count", counter} THEN 1 ELSE 0)
      BY Counting
    <3> HIDE DEF new
    <3> QED BY <3>1, <3>2, <3>3
  <2>4. ASSUME NEW k \in Kinds
        PROVE  (CounterOf[k] \in {"file_count", counter}) <=> (k = row.status)
    <3>1. PICK j \in Kinds : j = row.status
      BY <1>1
    <3>2. CounterOf[k] # "file_count" /\ (CounterOf[k] = CounterOf[j] <=> k = j)
      BY CountersDiffer
    <3> QED BY <2>1, <3>1, <3>2
  <2>5. \A k \in Kinds : CounterOf[k] \in Counters
    BY CountersDiffer
  <2> QED BY <2>3, <2>4, <2>5 DEF Counters
<1>3. batch' # None
  BY <1>2, BatchRowAssumption
<1>4. /\ items' \in Seq(ItemRow) /\ Len(items') = Len(items) + 1
      /\ DOMAIN items' = 1 .. Len(items) + 1 /\ DOMAIN items = 1 .. Len(items)
      /\ items'[Len(items) + 1] = row
      /\ \A i \in 1 .. Len(items) : items'[i] = items[i]
  BY <1>1, AppendedSeq
<1>5. ASSUME NEW i \in DOMAIN items'
      PROVE  ItemSound(items[i])'
  <2>1. PICK item \in ItemRow : item = items'[i]
    BY <1>4
  <2>2. CASE i \in DOMAIN items
    <3>1. item = items[i]
      BY <1>4, <2>1, <2>2
    <3>2. ItemSound(item)
      BY <2>2, <3>1 DEF BatchSound
    <3>3. ItemSound(item)'
      BY <3>2, ItemKept
    <3> QED BY <2>1, <3>3 DEF ItemSound
  <2>3. CASE i \notin DOMAIN items
    <3>1. item = row
      BY <1>1, <1>4, <2>1, <2>3
    <3> QED BY <2>1, <3>1 DEF ItemSound
  <2> QED BY <2>2, <2>3
<1>6. CountsMatchItems'
  <2>1. \A k \in Kinds : Cardinality(Having(items', k))
          = Cardinality(Having(items, k)) + (IF row.status = k THEN 1 ELSE 0)
    BY <1>1, CountAppended
  <2>2. /\ batch.count["file_count"] = Len(items)
        /\ \A k \in Kinds : batch.count[CounterOf[k]] = Cardinality(Having(items, k))
    BY DEF BatchSound, CountsMatchItems, Having
  <2>3. \A k \in Kinds : batch'.count[CounterOf[k]] = Cardinality(Having(items', k))
    BY <1>2, <2>1, <2>2
  <2>4. batch'.count["file_count"] = Len(items')
    BY <1>2, <1>4, <2>2
  <2> QED BY <2>3, <2>4 DEF CountsMatchItems, Having
<1>7. ItemsInOrder'
  BY <1>4 DEF BatchSound, ItemsInOrder
<1>8. FinishedSound'
  BY <1>2 DEF BatchSound, FinishedSound
<1> QED BY <1>2, <1>3, <1>4, <1>5, <1>6, <1>7, <1>8

-------------------------------------------------------------------------------
(* Where the loader is                                                     *)

LEMMA BatchParts ==
    ASSUME BatchInv
    PROVE  /\ TypeOK /\ SessionType /\ DatabaseType /\ RequestInv /\ IngestSound
           /\ BatchType /\ LoaderSound /\ BatchSound
           /\ Loader \in Requests /\ RequestSound(Loader)
BY BatchTypeParts, TypeParts, FilesAssumption DEF BatchInv, RequestInv

(* While others act, the loader waits.                                     *)
LEMMA LoaderWaits ==
    ASSUME BatchInv, Grows, UNCHANGED <<items, place>>,
           pc'[Loader] = pc[Loader], request'[Loader] = request[Loader],
           loaded'[Loader] = loaded[Loader], answer'[Loader] = answer[Loader],
           Inserting(Loader) => Inserting(Loader)'
    PROVE  LoaderSound'
<1>0. /\ SessionType /\ LoaderSound /\ Loader \in Requests /\ BatchType
  BY BatchParts
<1>1. ASSUME pc[Loader] = "replying", answer[Loader] # Refused
      PROVE  /\ answer[Loader] # None
             /\ \E d \in Ids : Answered(request[Loader].target, d, answer[Loader].run)'
  <2>1. answer[Loader] # None /\ answer[Loader].run \in Runs \cup {None}
    BY <1>0, <1>1, RequestHolds, AnswerColumns DEF LoaderSound
  <2>2. PICK d \in Ids, c \in {request[Loader].target}, r \in Runs \cup {None} :
          r = answer[Loader].run /\ Answered(c, d, r)
    BY <1>0, <1>1, <2>1 DEF LoaderSound
  <2>3. Answered(c, d, r)'
    BY <2>2, AnsweredKept
  <2>4. c = request'[Loader].target /\ r = answer'[Loader].run
    BY <2>2
  <2> QED BY <2>1, <2>3, <2>4 DEF Answered
<1>2. pc[Loader] # "idle" => request'[Loader] = NextFile'
  BY <1>0 DEF LoaderSound, NextFile
<1> QED BY <1>0, <1>1, <1>2 DEF LoaderSound

LEMMA IdleLoader ==
    ASSUME LoaderSound, pc'[Loader] = "idle", place' # "ingesting", Len(items') <= Len(Files),
           place' = "failing" => Len(items') < Len(Files)
    PROVE  LoaderSound'
BY DEF LoaderSound

LEMMA IngestNextLoader ==
    ASSUME BatchInv, IngestNext
    PROVE  LoaderSound'
<1>0. SessionType /\ LoaderSound /\ Loader \in Requests /\ BatchType
  BY BatchParts
<1>1. /\ Len(items) < Len(Files) /\ Receive(Loader, NextFile) /\ place' = "ingesting"
      /\ items' = items
  BY DEF IngestNext, NextFile, Continue
<1>2. NextFile \in RequestType /\ NextFile.key = None /\ NextFile.scope = "create"
  BY <1>0, <1>1, NextFileType
<1>3. pc'[Loader] = "finding" /\ request'[Loader] = NextFile
  BY <1>0, <1>1, <1>2, ReceiveEffect DEF Becomes, Start
<1>4. NextFile' = NextFile
  BY <1>1 DEF NextFile
<1> QED BY <1>0, <1>1, <1>3, <1>4 DEF LoaderSound

(* The answer to the file that the batch works on.                         *)
LoaderAnswered ==
    pc'[Loader] = "replying" /\ answer'[Loader] # Refused =>
        /\ answer'[Loader] # None
        /\ \E d \in Ids : Answered(request[Loader].target, d, answer[Loader].run)'

LEMMA ResolveAnswers ==
    ASSUME BatchInv, ResolveExisting(Loader), ~Keyed(Loader), request[Loader].scope = "create"
    PROVE  LoaderAnswered
<1>0. TypeOK /\ SessionType /\ RequestInv /\ IngestSound /\ Loader \in Requests
  BY BatchParts
<1> DEFINE found == IF SeesActive(Loader) THEN Duplicate
                    ELSE Recovery(loaded[Loader].row.latest_run_id)
<1>1. /\ pc[Loader] \in Resolving /\ loaded[Loader] \in Loaded
      /\ documents[loaded[Loader].id] # None
      /\ SeesActive(Loader) \/ SeesInflight(Loader)
      /\ Return(Loader, found) /\ UNCHANGED database
  BY <1>0, ResolveEffect DEF ResolveExisting
<1>2. PICK d \in Ids, row \in DocumentRow : d = loaded[Loader].id /\ row = loaded[Loader].row
  BY <1>1, LoadedColumns
<1>3. /\ RowSound(d, row) /\ HasChecksum(d, request[Loader].target)
      /\ row.latest_run_id \in Runs \cup {None}
  BY <1>0, <1>1, <1>2, LoadedColumns, DocumentColumns DEF IngestSound, LoadedSound, HasChecksum
<1>4. /\ answer'[Loader] = found /\ request'[Loader] = request[Loader]
  BY <1>0, <1>1 DEF Return, SessionType
<1>5. CASE SeesActive(Loader)
  <2>1. answer'[Loader] = Duplicate /\ Duplicate # None /\ Duplicate.run = None
    BY <1>3, <1>4, <1>5, AnswerRecords
  <2>2. row.active_run_id \in RunsOf(d) /\ runs[row.active_run_id] = "completed"
    BY <1>2, <1>3, <1>5 DEF SeesActive, RunExists, RowSound
  <2>3. Answered(request[Loader].target, d, answer[Loader].run)'
    BY <1>1, <1>3, <1>4, <2>1, <2>2 DEF Answered, HasChecksum, RunsOf, database
  <2> QED BY <2>1, <2>3 DEF LoaderAnswered
<1>6. CASE ~SeesActive(Loader)
  <2>1. SeesInflight(Loader)
    BY <1>1, <1>6
  <2>2. PICK r \in Runs : r = row.latest_run_id /\ r # None
    BY <1>2, <1>3, <2>1 DEF SeesInflight, RunExists
  <2>3. answer'[Loader] = Recovery(r) /\ Recovery(r) # None /\ Recovery(r).run = r
    BY <1>2, <1>4, <1>6, <2>2, AnswerRecords
  <2>4. r \in RunsOf(d) /\ Exists(r)
    BY <1>3, <2>2 DEF RowSound
  <2>5. Answered(request[Loader].target, d, answer[Loader].run)'
    BY <1>1, <1>3, <1>4, <2>2, <2>3, <2>4 DEF Answered, HasChecksum, RunsOf, Exists, database
  <2> QED BY <2>3, <2>5 DEF LoaderAnswered
<1> QED BY <1>5, <1>6

LEMMA RecoveryAnswers ==
    ASSUME BatchInv, QueueRecovery(Loader), request[Loader].scope = "create"
    PROVE  LoaderAnswered
<1>0. SessionType /\ DatabaseType /\ RequestInv /\ IngestSound /\ Loader \in Requests
  BY BatchParts
<1>1. PICK d \in Ids, r \in Runs :
             /\ loaded[Loader] \in Loaded /\ d = loaded[Loader].id
             /\ documents[d] # None /\ DocumentOf[r] = d
             /\ Queues(Loader, d, r, documents[d])
             /\ request'[Loader] = request[Loader] /\ answer'[Loader] = Recovery(r)
  BY <1>0, RecoveryEffect DEF Becomes
<1>2. documents[d].sha256 = request[Loader].target
  BY <1>0, <1>1, LoadedColumns DEF IngestSound, LoadedSound
<1>3. HasChecksum(d, request[Loader].target)' /\ runs'[r] = "inflight"
  BY <1>1, <1>2, DocumentColumns DEF Queues, HasChecksum
<1>4. Recovery(r) # None /\ Recovery(r).run = r /\ r # None
  BY AnswerRecords, NoIdAssumption
<1>5. Answered(request[Loader].target, d, answer[Loader].run)'
  BY <1>1, <1>3, <1>4 DEF Answered, RunsOf, Exists
<1> QED BY <1>1, <1>4, <1>5 DEF LoaderAnswered

LEMMA CommitAnswers ==
    ASSUME BatchInv, Commit(Loader)
    PROVE  LoaderAnswered
<1>0. /\ SessionType /\ DatabaseType /\ RequestInv /\ IngestSound /\ Loader \in Requests
      /\ LoaderSound /\ RequestSound(Loader)
  BY BatchParts
<1>1. /\ pc[Loader] = "committing" /\ answer[Loader] \in Answers
      /\ request'[Loader] = request[Loader] /\ answer'[Loader] = answer[Loader]
      /\ Creates(Loader) => /\ DocumentOf[answer[Loader].run] = loaded[Loader].id
                            /\ Queues(Loader, loaded[Loader].id, answer[Loader].run,
                                      loaded[Loader].row)
  BY <1>0, CommitEffect DEF Becomes
<1>2. Inserting(Loader)
  BY <1>0, <1>1 DEF LoaderSound
<1>3. Follows(answer[Loader].run, loaded[Loader].id)
      /\ loaded[Loader].row.sha256 = request[Loader].target
  BY <1>0, <1>1, <1>2, InsertedRow DEF IngestSound, InsertingSound
<1>4. PICK r \in Runs : r = answer[Loader].run /\ ~Exists(r) /\ r # None
  BY <1>3, NoIdAssumption DEF Follows, RunsOf
<1>5. Creates(Loader)
  BY <1>4 DEF Creates, Exists
<1>6. PICK d \in Ids : d = loaded[Loader].id
  BY <1>1, <1>5 DEF Queues
<1>7. HasChecksum(d, request[Loader].target)' /\ runs'[r] = "inflight" /\ DocumentOf[r] = d
  BY <1>1, <1>3, <1>4, <1>5, <1>6, DocumentColumns DEF Queues, HasChecksum
<1>8. answer[Loader] # None
  BY <1>1, RowAssumption
<1>9. Answered(request[Loader].target, d, answer[Loader].run)'
  BY <1>1, <1>4, <1>7 DEF Answered, RunsOf, Exists
<1> QED BY <1>1, <1>8, <1>9 DEF LoaderAnswered

LEMMA IngestsLoader ==
    ASSUME BatchInv, Ingests
    PROVE  LoaderSound'
<1>0. /\ SessionType /\ DatabaseType /\ RequestInv /\ IngestSound /\ LoaderSound /\ BatchType
      /\ Loader \in Requests /\ RequestSound(Loader) /\ TypeOK
  BY BatchParts
<1>1. /\ place = "ingesting" /\ place' = place /\ items' = items /\ Progress(Loader)
      /\ pc[Loader] # "idle" /\ request[Loader] = NextFile /\ NextFile' = NextFile
      /\ Len(items) < Len(Files)
  BY <1>0 DEF Ingests, LoaderSound, NextFile
<1>2. request[Loader].scope = "create" /\ ~Keyed(Loader) /\ request[Loader].key = None
  BY <1>0, <1>1, NextFileType DEF Keyed
<1>3. Stored(Loader) = None /\ pc[Loader] \notin {"storing", "locking"}
  BY <1>0, <1>1, <1>2 DEF Stored, RequestSound
<1> DEFINE Goal == /\ pc'[Loader] # "idle" /\ request'[Loader] = request[Loader]
                   /\ pc'[Loader] = "committing" => Inserting(Loader)'
                   /\ LoaderAnswered
<1>4. ASSUME Becomes(Loader, "replying", request[Loader], None, None, Refused)
      PROVE  Goal
  BY <1>4 DEF Becomes, LoaderAnswered
<1>5. ASSUME NEW location \in {"finding", "admitting", "inserting", "moving"} \cup Resolving,
             pc'[Loader] = location, request'[Loader] = request[Loader]
      PROVE  Goal
  BY <1>5, LocationSets DEF LoaderAnswered
<1>6. ASSUME Replay(Loader) \/ LockDocument(Loader) \/ LookUpResponse(Loader)
      PROVE  Goal
  BY <1>3, <1>6 DEF Replay, LockDocument, LookUpResponse
<1>7. ASSUME StartOver(Loader)
      PROVE  Goal
  <2>1. pc'[Loader] = "finding" /\ request'[Loader] = request[Loader]
    BY <1>0, <1>2, <1>7, StartOverEffect DEF Becomes, Start
  <2> QED BY <1>5, <2>1
<1>8. ASSUME FindDocument(Loader) \/ InsertConflicts(Loader)
      PROVE  Goal
  <2>1. pc'[Loader] \in Resolving /\ request'[Loader] = request[Loader]
    BY <1>0, <1>8, FindEffect DEF Becomes
  <2> QED BY <1>5, <2>1
<1>9. ASSUME FindNothing(Loader)
      PROVE  Goal
  <2>1. pc'[Loader] = "admitting" /\ request'[Loader] = request[Loader]
    BY <1>0, <1>9, FindNothingEffect DEF Becomes
  <2> QED BY <1>5, <2>1
<1>10. ASSUME Admit(Loader)
      PROVE  Goal
  <2>1. \/ Becomes(Loader, "replying", request[Loader], None, None, Refused)
        \/ pc'[Loader] = "inserting" /\ request'[Loader] = request[Loader]
    BY <1>0, <1>10, AdmitEffect DEF Becomes
  <2> QED BY <1>4, <1>5, <2>1
<1>11. ASSUME InsertDocument(Loader)
      PROVE  Goal
  <2>1. pc'[Loader] = "moving" /\ request'[Loader] = request[Loader]
    BY <1>0, <1>11, InsertEffect DEF Becomes
  <2> QED BY <1>5, <2>1
<1>12. ASSUME MoveSource(Loader)
      PROVE  Goal
  <2>1. pc'[Loader] = "committing" /\ request'[Loader] = request[Loader]
    BY <1>0, <1>2, <1>12, MoveEffect DEF Becomes
  <2> QED BY <1>0, <1>12, <2>1, MoveHarmless DEF LoaderAnswered
<1>13. ASSUME ResolveNothing(Loader)
      PROVE  Goal
  BY <1>0, <1>4, <1>13, ResolveNothingEffect
<1>14. ASSUME ResolveExisting(Loader)
      PROVE  Goal
  <2>1. pc'[Loader] = "replying" /\ request'[Loader] = request[Loader]
    BY <1>0, <1>2, <1>14, ResolveEffect DEF Becomes
  <2> QED BY <1>2, <1>14, <2>1, ResolveAnswers
<1>15. ASSUME QueueRecovery(Loader)
      PROVE  Goal
  <2>1. pc'[Loader] = "replying" /\ request'[Loader] = request[Loader]
    BY <1>0, <1>2, <1>15, RecoveryEffect DEF Becomes
  <2> QED BY <1>2, <1>15, <2>1, RecoveryAnswers
<1>16. ASSUME Commit(Loader)
      PROVE  Goal
  <2>1. pc'[Loader] = "replying" /\ request'[Loader] = request[Loader]
    BY <1>0, <1>16, CommitEffect DEF Becomes
  <2> QED BY <1>16, <2>1, CommitAnswers
<1>17. ASSUME KeyReused(Loader)
      PROVE  Goal
  BY <1>0, <1>4, <1>17, KeyReusedEffect
<1>18. Goal
  BY <1>1, <1>6, <1>7, <1>8, <1>9, <1>10, <1>11, <1>12, <1>13, <1>14, <1>15, <1>16, <1>17
     DEF Progress
<1> QED BY <1>0, <1>1, <1>18 DEF LoaderSound, LoaderAnswered

-------------------------------------------------------------------------------
(* The steps of the batch                                                  *)

(* What is left to show of a step, once the requests are sound.            *)
BatchRest == BatchType' /\ LoaderSound' /\ BatchSound'

LEMMA WaitingBatch ==
    ASSUME BatchInv, Grows, UNCHANGED <<batch, items, place>>, LoaderSound'
    PROVE  BatchRest
<1>1. BatchType /\ BatchSound
  BY BatchParts
<1>2. CountsMatchItems'
  BY <1>1 DEF BatchSound, CountsMatchItems
<1>3. ItemsInOrder' /\ FinishedSound'
  BY <1>1 DEF BatchSound, ItemsInOrder, FinishedSound
<1> QED BY <1>1, <1>2, <1>3, ItemsKept DEF BatchRest, BatchType, BatchSound

LEMMA LoaderStays ==
    ASSUME BatchInv, Grows, UNCHANGED <<items, place>>,
           \/ \E q \in Others : RequestStep(q)
           \/ WorkerStep
           \/ UNCHANGED vars
    PROVE  LoaderSound'
<1>0. TypeOK /\ RequestInv /\ IngestSound /\ Loader \in Requests /\ DatabaseType
  BY BatchParts
<1>1. ASSUME NEW q \in Others, RequestStep(q)
      PROVE  LoaderSound'
  <2>1. q \in Requests /\ Loader \in Requests \ {q}
    BY <1>0 DEF Others
  <2>2. OnlyFor(q) /\ (Inserting(Loader) => Inserting(Loader)')
    BY <1>0, <1>1, <2>1, RequestStepType, RequestIngest
  <2> QED BY <2>1, <2>2, LoaderWaits DEF OnlyFor
<1>2. CASE WorkerStep
  <2>1. UNCHANGED <<pc, session>>
    BY <1>0, <1>2, WorkerEffect DEF WorkerStep
  <2> QED BY <1>0, <1>2, <2>1, WorkerIngest, LoaderWaits DEF session
<1>3. CASE UNCHANGED vars
  BY <1>0, <1>3, StutterIngest, LoaderWaits DEF vars, session
<1> QED BY <1>1, <1>2, <1>3

(* A step that leaves the requests alone: where the loader is not at work. *)
LEMMA LoaderMoves ==
    ASSUME BatchInv, UNCHANGED vars, place # "ingesting", place' # "ingesting",
           Len(items') <= Len(Files), place' = "failing" => Len(items') < Len(Files)
    PROVE  LoaderSound'
<1>1. pc[Loader] = "idle"
  BY BatchParts DEF LoaderSound
<1>2. pc' = pc
  BY DEF vars
<1> QED BY <1>1, <1>2, IdleLoader, BatchParts

LEMMA StatusBatch ==
    ASSUME NEW b \in BatchRow, NEW s \in {"running"} \cup Terminal
    PROVE  LET new == [b EXCEPT !.status = s]
           IN  new \in BatchRow /\ new # None /\ new.count = b.count /\ new.status = s
<1> DEFINE new == [b EXCEPT !.status = s]
<1>1. new \in BatchRow /\ new.count = b.count /\ new.status = s
  BY DEF BatchRow
<1>2. new # None
  <2> HIDE DEF new
  <2> QED BY <1>1, BatchRowAssumption
<1> QED BY <1>1, <1>2

LEMMA StartBatch ==
    ASSUME BatchInv, Grows, CreateBatch \/ ScanFails \/ ScanFinds \/ FinishBatch
    PROVE  BatchRest
<1>0. BatchType /\ BatchSound /\ LoaderSound
  BY BatchParts
<1>1. /\ UNCHANGED vars /\ items' = items /\ place' \in Places
      /\ place \notin {"ingesting", "failing"} /\ place' \notin {"ingesting", "failing"}
  BY DEF CreateBatch, ScanFails, ScanFinds, FinishBatch, Continue, Places
<1>2. LoaderSound'
  BY <1>0, <1>1, LoaderMoves DEF LoaderSound
<1>3. \A i \in DOMAIN items' : ItemSound(items[i])'
  BY <1>0, <1>1, ItemsKept
<1>4. ItemsInOrder'
  BY <1>0, <1>1 DEF BatchSound, ItemsInOrder
<1>5. CASE CreateBatch
  <2>1. batch' = emptyBatch /\ batch = None /\ items = <<>> /\ place' = place
    BY <1>0, <1>5 DEF CreateBatch, BatchSound
  <2>2. emptyBatch \in BatchRow /\ emptyBatch # None
        /\ emptyBatch.status = "running" /\ emptyBatch.count["file_count"] = 0
        /\ \A k \in Kinds : emptyBatch.count[CounterOf[k]] = 0
    <3>1. emptyBatch \in BatchRow /\ emptyBatch # None
          /\ emptyBatch.status = "running" /\ \A c \in Counters : emptyBatch.count[c] = 0
      BY BatchRowAssumption DEF emptyBatch, BatchRow
    <3> QED BY <3>1, CountersDiffer DEF Counters
  <2>3. \A k \in Kinds : Cardinality({i \in DOMAIN items' : items'[i].status = k}) = 0
    <3> SUFFICES ASSUME NEW k \in Kinds
                 PROVE  Cardinality({i \in DOMAIN items' : items'[i].status = k}) = 0
      OBVIOUS
    <3>1. {i \in DOMAIN items' : items'[i].status = k} = {}
      BY <1>1, <2>1
    <3> QED BY <3>1, FS_EmptySet
  <2>4. CountsMatchItems'
    <3>1. Len(items') = 0
      BY <1>1, <2>1
    <3> QED BY <2>1, <2>2, <2>3, <3>1 DEF CountsMatchItems
  <2>5. FinishedSound'
    BY <2>1, <2>2 DEF FinishedSound
  <2> QED BY <1>0, <1>1, <1>2, <1>3, <1>4, <2>1, <2>2, <2>4, <2>5
          DEF BatchRest, BatchType, BatchSound
<1>6. ASSUME NEW s \in Terminal, ScanFails \/ FinishBatch,
             batch' = [batch EXCEPT !.status = s], place' = "returned",
             s # "failed" => /\ Len(items) = Len(Files)
                             /\ s = "completed" <=> batch.count["failed_count"] = 0
      PROVE  BatchRest
  <2>1. batch \in BatchRow /\ batch # None
    BY <1>0, <1>6 DEF ScanFails, FinishBatch, BatchType, BatchSound
  <2>2. batch' \in BatchRow /\ batch' # None /\ batch'.count = batch.count
        /\ batch'.status = s
    BY <1>6, <2>1, StatusBatch
  <2>3. CountsMatchItems'
    BY <1>0, <1>1, <2>1, <2>2 DEF BatchSound, CountsMatchItems
  <2>4. FinishedSound'
    BY <1>1, <1>6, <2>2 DEF FinishedSound
  <2> QED BY <1>0, <1>1, <1>2, <1>3, <1>4, <2>2, <2>3, <2>4
          DEF BatchRest, BatchType, BatchSound
<1>7. CASE ScanFails
  BY <1>6, <1>7 DEF ScanFails, Continue, Terminal
<1>8. CASE FinishBatch
  <2> DEFINE s == IF batch.count["failed_count"] > 0 THEN "completed_with_errors" ELSE "completed"
  <2>1. /\ batch' = [batch EXCEPT !.status = s] /\ place' = "returned"
        /\ Len(items) = Len(Files)
    BY <1>8 DEF FinishBatch, Continue
  <2>2. batch.count["failed_count"] \in Nat
    BY <1>0, <1>8 DEF FinishBatch, BatchType, BatchSound, BatchRow, Counters
  <2>3. s \in Terminal /\ (s = "completed" <=> batch.count["failed_count"] = 0)
    BY <2>2 DEF Terminal
  <2> HIDE DEF s
  <2> QED BY <1>6, <1>8, <2>1, <2>3
<1>9. CASE ScanFinds
  <2>1. batch' = batch /\ batch # None /\ place = "start"
    BY <1>9 DEF ScanFinds
  <2>2. CountsMatchItems'
    BY <1>0, <1>1, <2>1 DEF BatchSound, CountsMatchItems
  <2>3. FinishedSound'
    BY <1>0, <2>1 DEF BatchSound, FinishedSound
  <2> QED BY <1>0, <1>1, <1>2, <1>3, <1>4, <2>1, <2>2, <2>3
          DEF BatchRest, BatchType, BatchSound
<1> QED BY <1>5, <1>7, <1>8, <1>9

LEMMA TheDocument ==
    ASSUME OneDocumentPerChecksum, NEW c, NEW d \in Ids, HasChecksum(d, c)
    PROVE  DocumentWith(c) = d
<1> DEFINE e == CHOOSE x \in Ids : HasChecksum(x, c)
<1>1. e \in Ids /\ HasChecksum(e, c)
  OBVIOUS
<1>2. DocumentWith(c) = e
  BY DEF DocumentWith
<1> HIDE DEF e
<1>3. d = e
  BY <1>1 DEF OneDocumentPerChecksum, HasChecksum
<1> QED BY <1>2, <1>3

LEMMA RecordSuccessBatch ==
    ASSUME BatchInv, Grows, RecordSuccess
    PROVE  BatchRest
<1>0. /\ SessionType /\ IngestSound /\ BatchType /\ LoaderSound /\ BatchSound
      /\ Loader \in Requests
  BY BatchParts
<1>1. /\ place = "ingesting" /\ pc[Loader] = "replying" /\ answer[Loader] # Refused
      /\ Reply(Loader) /\ place' = "scanned"
  BY DEF RecordSuccess, Continue
<1>2. /\ request[Loader] = NextFile /\ Len(items) < Len(Files) /\ batch # None
      /\ answer[Loader] # None
  BY <1>0, <1>1 DEF LoaderSound, BatchSound
<1>3. PICK c \in Checksums : c = request[Loader].target
  BY <1>0, <1>2, NextFileType
<1>4. answer[Loader] \in Answers /\ answer[Loader].run \in Runs \cup {None}
  BY <1>0, <1>1, <1>2, RequestHolds, AnswerColumns
<1>5. PICK r \in Runs \cup {None} : r = answer[Loader].run
  BY <1>4
<1>6. PICK d \in Ids : Answered(c, d, r)
  BY <1>0, <1>1, <1>3, <1>5 DEF LoaderSound
<1>7. DocumentWith(c) = d
  BY <1>0, <1>6, TheDocument DEF IngestSound, Answered
<1>8. PICK payload \in Answers : payload = answer[Loader]
  BY <1>4
<1> DEFINE row == [status |-> ItemStatus(payload), sha256 |-> c, document |-> d, run |-> r,
                   duplicate |-> IsDuplicate(payload), recovery_run |-> payload.recovery]
<1>9. /\ ItemStatus(payload) \in Kinds \ {"failed"}
      /\ CounterFor(payload) = CounterOf[ItemStatus(payload)]
      /\ IsDuplicate(payload) \in BOOLEAN /\ payload.recovery \in BOOLEAN
      /\ r = None => IsDuplicate(payload)
  BY <1>1, <1>5, <1>8, ChainsAgree
<1>10. /\ row \in ItemRow /\ row.status # "failed" /\ row.sha256 = c /\ row.document = d
       /\ row.run = r /\ (r = None => row.duplicate)
  BY <1>9 DEF ItemRow
<1>11. Record(row, CounterOf[row.status])
  BY <1>3, <1>5, <1>7, <1>8, <1>9 DEF RecordSuccess
<1> HIDE DEF row
<1>12. Answered(c, d, r)'
  BY <1>6, AnsweredKept
<1>14. ItemSound(row)'
  BY <1>10, <1>12 DEF ItemSound
<1>15. /\ batch' \in BatchRow /\ batch' # None /\ items' \in Seq(ItemRow)
       /\ Len(items') = Len(items) + 1
       /\ \A i \in DOMAIN items' : ItemSound(items[i])'
       /\ CountsMatchItems' /\ ItemsInOrder' /\ FinishedSound'
  BY <1>0, <1>1, <1>2, <1>3, <1>10, <1>11, <1>14, RecordKeeps DEF NextFile
<1>16. pc'[Loader] = "idle"
  BY <1>0, <1>1, ReplyEffect DEF Becomes
<1>17. Len(items') <= Len(Files)
  BY <1>0, <1>2, <1>15, FilesAssumption DEF BatchType
<1>18. LoaderSound'
  BY <1>0, <1>1, <1>16, <1>17, IdleLoader
<1> QED BY <1>1, <1>15, <1>18 DEF BatchRest, BatchType, BatchSound, Places

LEMMA RecordFailureBatch ==
    ASSUME BatchInv, Grows, RecordFailure
    PROVE  BatchRest
<1>0. BatchType /\ LoaderSound /\ BatchSound
  BY BatchParts
<1>1. place = "failing" /\ place' = "scanned" /\ UNCHANGED vars
  BY DEF RecordFailure, Continue
<1>2. Len(items) < Len(Files) /\ batch # None
  BY <1>0, <1>1 DEF LoaderSound, BatchSound
<1>3. PICK c \in Checksums \cup {None} :
        c \in {Files[Len(items) + 1], None} /\ Record(FailedItem(c), "failed_count")
  BY <1>0, <1>2, NextFileType DEF NextFile, RecordFailure
<1>4. PICK row \in ItemRow : row = FailedItem(c)
  BY DEF ItemRow, Kinds, FailedItem
<1>5. /\ row.status = "failed" /\ row.run = None /\ row.sha256 = c
      /\ Record(row, CounterOf[row.status])
  BY <1>3, <1>4 DEF FailedItem, CounterOf
<1>6. ItemSound(row)'
  BY <1>5 DEF ItemSound
<1>7. /\ batch' \in BatchRow /\ batch' # None /\ items' \in Seq(ItemRow)
      /\ Len(items') = Len(items) + 1
      /\ \A i \in DOMAIN items' : ItemSound(items[i])'
      /\ CountsMatchItems' /\ ItemsInOrder' /\ FinishedSound'
  BY <1>0, <1>1, <1>2, <1>3, <1>5, <1>6, RecordKeeps
<1>8. Len(items') <= Len(Files)
  BY <1>0, <1>2, <1>7, FilesAssumption DEF BatchType
<1>9. LoaderSound'
  BY <1>1, <1>8, LoaderMoves
<1> QED BY <1>1, <1>7, <1>9 DEF BatchRest, BatchType, BatchSound, Places

(* The file is left, and nothing recorded of it yet.                       *)
LEMMA LeavesFile ==
    ASSUME BatchInv, Grows, IngestFails \/ BatchDies
    PROVE  BatchRest
<1>0. SessionType /\ BatchType /\ LoaderSound /\ BatchSound /\ Loader \in Requests
  BY BatchParts
<1>1. UNCHANGED <<batch, items>> /\ place' \in {"failing", "dead"}
  BY DEF IngestFails, BatchDies, Continue
<1>2. place' = "failing" => place = "ingesting"
  BY DEF IngestFails, BatchDies, Continue
<1>3. pc'[Loader] = "idle"
  <2>1. CASE Abort(Loader) \/ Reply(Loader)
    BY <1>0, <2>1, AbortEffect, ReplyEffect DEF Becomes
  <2>2. CASE pc[Loader] \notin Serving \cup {"replying"} /\ UNCHANGED vars
    BY <1>0, <2>2, RequestHolds, LocationSets DEF vars
  <2> QED BY <2>1, <2>2 DEF IngestFails, BatchDies
<1>4. LoaderSound'
  BY <1>0, <1>1, <1>2, <1>3, IdleLoader DEF LoaderSound
<1>5. CountsMatchItems'
  BY <1>0, <1>1 DEF BatchSound, CountsMatchItems
<1>6. batch' = None => items' = <<>> /\ place' = "dead"
  BY <1>0, <1>1, <1>2 DEF BatchSound
<1>7. place # "returned"
  BY DEF IngestFails, BatchDies
<1>8. ItemsInOrder' /\ FinishedSound'
  BY <1>0, <1>1, <1>7 DEF BatchSound, ItemsInOrder, FinishedSound
<1> QED BY <1>0, <1>1, <1>4, <1>5, <1>6, <1>8, ItemsKept
        DEF BatchRest, BatchType, BatchSound, Places

LEMMA FileBatch ==
    ASSUME BatchInv, Grows, IngestNext \/ Ingests
    PROVE  BatchRest
<1>0. BatchType /\ BatchSound
  BY BatchParts
<1>1. UNCHANGED <<batch, items>> /\ place' = "ingesting" /\ place \in {"scanned", "ingesting"}
  BY DEF IngestNext, Ingests, Continue
<1>2. LoaderSound'
  BY IngestNextLoader, IngestsLoader
<1>3. CountsMatchItems'
  BY <1>0, <1>1 DEF BatchSound, CountsMatchItems
<1>4. ItemsInOrder' /\ FinishedSound'
  BY <1>0, <1>1 DEF BatchSound, ItemsInOrder, FinishedSound
<1> QED BY <1>0, <1>1, <1>2, <1>3, <1>4, ItemsKept
        DEF BatchRest, BatchType, BatchSound, Places

LEMMA BesideBatch ==
    ASSUME BatchInv, Grows, UNCHANGED <<batch, items, place>>,
           ApiStep \/ WorkerStep \/ UNCHANGED vars
    PROVE  BatchRest
<1>1. ApiStep => \E q \in Others : RequestStep(q)
  BY DEF ApiStep, RequestStep
<1>2. LoaderSound'
  BY <1>1, LoaderStays
<1> QED BY <1>2, WaitingBatch

LEMMA BatchInvInit == BatchInit => BatchInv
<1> SUFFICES ASSUME BatchInit PROVE BatchInv
  OBVIOUS
<1>1. Init /\ batch = None /\ items = <<>> /\ place = "start"
  BY DEF BatchInit
<1>2. TypeOK /\ RequestInv
  BY <1>1, BaseInit
<1>3. /\ \A d \in Ids : documents[d] = None
      /\ \A q \in Requests : pc[q] = "idle" /\ loaded[q] = None
  BY <1>1 DEF Init
<1>4. IngestSound
  BY <1>3 DEF IngestSound, OneDocumentPerChecksum, InsertingSound, Inserting, LoadedSound,
              HeldSound
<1>5. BatchType
  BY <1>1 DEF BatchType, Places
<1>6. LoaderSound
  BY <1>1, <1>3, FilesAssumption DEF LoaderSound
<1>7. BatchSound
  BY <1>1 DEF BatchSound, CountsMatchItems, ItemsInOrder, FinishedSound
<1> QED BY <1>2, <1>4, <1>5, <1>6, <1>7, BatchTypeParts DEF BatchInv

LEMMA BatchInvNext ==
    ASSUME BatchInv, [BatchNext]_batchVars
    PROVE  BatchInv'
<1>1. TypeOK' /\ RequestInv' /\ IngestSound' /\ Grows
  BY BatchBase
<1>2. BatchRest
  <2>1. CASE BatchStep
    BY <1>1, <2>1, StartBatch, FileBatch, RecordSuccessBatch, RecordFailureBatch, LeavesFile
       DEF BatchStep
  <2>2. CASE BatchDies
    BY <1>1, <2>2, LeavesFile
  <2>3. CASE (ApiStep \/ WorkerStep \/ UNCHANGED vars) /\ UNCHANGED <<batch, items, place>>
    BY <1>1, <2>3, BesideBatch
  <2> QED BY <2>1, <2>2, <2>3 DEF BatchNext, batchVars
<1>3. BatchTypeOK <=> TypeOK /\ BatchType
  BY BatchTypeParts
<1>4. BatchTypeOK'
  BY <1>1, <1>2 DEF BatchRest, BatchType, BatchTypeOK
<1> QED BY <1>1, <1>2, <1>4 DEF BatchRest, BatchInv

-------------------------------------------------------------------------------
(* What readers are told                                                   *)

LEMMA DocumentWithSound ==
    ASSUME NEW c, DocumentWith(c) # None
    PROVE  DocumentWith(c) \in Ids /\ HasChecksum(DocumentWith(c), c)
<1> DEFINE e == CHOOSE x \in Ids : HasChecksum(x, c)
<1>1. DocumentWith(c) = e /\ \E x \in Ids : HasChecksum(x, c)
  BY DEF DocumentWith
<1>2. e \in Ids /\ HasChecksum(e, c)
  BY <1>1
<1> QED BY <1>1, <1>2

(* The runs that the row of a document names.                              *)
LEMMA NamedRuns ==
    ASSUME TypeOK, IngestSound, NEW d \in Ids, documents[d] # None
    PROVE  /\ Serves(d) = documents[d].active_run_id /\ Latest(d) = documents[d].latest_run_id
           /\ Serves(d) # None => Serves(d) \in RunsOf(d) /\ Completed(Serves(d))
           /\ Latest(d) # None => Latest(d) \in RunsOf(d)
           /\ Active(d) = Serves(d)
<1>1. d # None
  BY NoIdAssumption
<1>2. Serves(d) = documents[d].active_run_id /\ Latest(d) = documents[d].latest_run_id
      /\ Active(d) = Serves(d)
  BY <1>1 DEF Serves, Latest, Active
<1> QED BY <1>2, RowColumns DEF RowSound, Completed

LEMMA ItemAt ==
    ASSUME BatchInv, NEW i \in DOMAIN items
    PROVE  /\ items[i] \in ItemRow /\ ItemSound(items[i])
           /\ \/ items[i].sha256 = Files[i]
              \/ items[i].sha256 = None /\ items[i].status = "failed"
BY BatchParts DEF BatchType, BatchSound, ItemsInOrder

AsDuplicate(item) == item.status # "failed" /\ item.duplicate /\ item.run = None

AsQueued(item) == item.status # "failed" /\ ~AsDuplicate(item)

LEMMA ResolutionValues ==
    ASSUME BatchInv, NEW i \in DOMAIN items
    PROVE  Resolution(i) \in {"running", "failed", "completed", "recovered", "duplicate"}
<1> DEFINE d == Referenced(i)
<1>1. CASE items[i].status = "failed"
  <2>1. Resolution(i) = ResolvesFailed(Serves(d), Latest(d))
    BY <1>1 DEF Resolution
  <2> QED BY <2>1 DEF ResolvesFailed
<1>2. CASE AsDuplicate(items[i])
  BY <1>2 DEF AsDuplicate, Resolution
<1>3. CASE AsQueued(items[i])
  <2>1. Resolution(i) = ResolvesQueued(items[i], Serves(d), Latest(d))
    BY <1>3 DEF AsDuplicate, AsQueued, Resolution
  <2> HIDE DEF d
  <2> QED BY <2>1 DEF ResolvesQueued, Done
<1> QED BY <1>1, <1>2, <1>3 DEF AsQueued

LEMMA ServedItem ==
    ASSUME BatchInv, NEW i \in DOMAIN items, NEW d \in Ids,
           HasChecksum(d, Files[i]), items[i].sha256 # None, Active(d) # None
    PROVE  Resolution(i) # "failed"
<1>0. /\ TypeOK /\ IngestSound /\ OneDocumentPerChecksum
      /\ HasChecksum(d, items[i].sha256)
  BY BatchParts, ItemAt DEF IngestSound
<1>1. ItemSound(items[i]) /\ documents[d] # None
  BY <1>0, ItemAt DEF HasChecksum
<1>2. /\ Serves(d) # None /\ Completed(Serves(d)) /\ Serves(d) \in RunsOf(d)
  BY <1>0, <1>1, NamedRuns
<1>3. Referenced(i) = d
  <2>1. CASE items[i].status = "failed"
    BY <1>0, <2>1, TheDocument DEF Referenced
  <2>2. CASE items[i].status # "failed"
    <3>1. items[i].document \in Ids /\ HasChecksum(items[i].document, items[i].sha256)
      BY <1>1, <2>2 DEF ItemSound, Answered
    <3> QED BY <1>0, <1>1, <2>2, <3>1 DEF Referenced, OneDocumentPerChecksum, HasChecksum
  <2> QED BY <2>1, <2>2
<1>4. CASE items[i].status = "failed"
  <2>1. Resolution(i) = ResolvesFailed(Serves(d), Latest(d))
    BY <1>3, <1>4 DEF Resolution
  <2> QED BY <1>2, <2>1 DEF ResolvesFailed
<1>5. CASE AsDuplicate(items[i])
  BY <1>5 DEF AsDuplicate, Resolution
<1>6. CASE AsQueued(items[i])
  <2>1. Resolution(i) = ResolvesQueued(items[i], Serves(d), Latest(d))
    BY <1>3, <1>6 DEF AsDuplicate, AsQueued, Resolution
  <2> HIDE DEF Resolution
  <2> QED BY <1>2, <2>1 DEF ResolvesQueued, Done
<1> QED BY <1>4, <1>5, <1>6 DEF AsQueued

LEMMA DoneItem ==
    ASSUME BatchInv, NEW i \in DOMAIN items,
           Resolution(i) \in {"completed", "recovered", "duplicate"}
    PROVE  \E r \in Runs : runs[r] = "completed" /\ HasChecksum(DocumentOf[r], items[i].sha256)
<1>0. TypeOK /\ IngestSound
  BY BatchParts
<1>1. ItemSound(items[i])
  BY ItemAt
<1>2. ASSUME NEW d \in Ids, HasChecksum(d, items[i].sha256), NEW r \in RunsOf(d), Completed(r)
      PROVE  \E s \in Runs : runs[s] = "completed"
                             /\ HasChecksum(DocumentOf[s], items[i].sha256)
  BY <1>2 DEF RunsOf, Completed
<1>3. CASE items[i].status = "failed"
  <2> DEFINE d == DocumentWith(items[i].sha256)
  <2>1. Resolution(i) = ResolvesFailed(Serves(d), Latest(d))
    BY <1>3 DEF Resolution, Referenced
  <2>2. Completed(Serves(d)) \/ Completed(Latest(d))
    BY <2>1 DEF ResolvesFailed
  <2>3. d # None
    BY <2>2 DEF Completed, Serves, Latest
  <2>4. d \in Ids /\ HasChecksum(d, items[i].sha256)
    BY <2>3, DocumentWithSound
  <2> HIDE DEF d
  <2>5. Completed(Serves(d)) => Serves(d) \in RunsOf(d)
    BY <1>0, <2>4, NamedRuns DEF HasChecksum, Completed
  <2>6. Completed(Latest(d)) => Latest(d) \in RunsOf(d)
    BY <1>0, <2>4, NamedRuns DEF HasChecksum, Completed
  <2> QED BY <1>2, <2>2, <2>4, <2>5, <2>6
<1>4. ASSUME items[i].status # "failed"
      PROVE  \E r \in Runs : runs[r] = "completed"
                             /\ HasChecksum(DocumentOf[r], items[i].sha256)
  <2> DEFINE d == items[i].document
  <2>1. /\ d \in Ids /\ Answered(items[i].sha256, d, items[i].run)
        /\ items[i].run = None => items[i].duplicate
    BY <1>1, <1>4 DEF ItemSound
  <2>2. HasChecksum(d, items[i].sha256)
    BY <2>1 DEF Answered
  <2>3. CASE AsDuplicate(items[i])
    <3>1. PICK s \in RunsOf(d) : runs[s] = "completed"
      BY <2>1, <2>3 DEF AsDuplicate, Answered
    <3> QED BY <2>1, <2>2, <3>1 DEF RunsOf
  <2>4. CASE AsQueued(items[i])
    <3>1. Resolution(i) = ResolvesQueued(items[i], Serves(d), Latest(d))
      BY <2>4 DEF AsDuplicate, AsQueued, Resolution, Referenced
    <3>2. items[i].run \in RunsOf(d) /\ items[i].run # None
      BY <1>4, <2>1, <2>4 DEF AsDuplicate, AsQueued, Answered
    <3>3. Completed(items[i].run) \/ Completed(Serves(d)) \/ Completed(Latest(d))
      BY <3>1 DEF ResolvesQueued
    <3> HIDE DEF d
    <3>4. Completed(Serves(d)) => Serves(d) \in RunsOf(d)
      BY <1>0, <2>1, <2>2, NamedRuns DEF HasChecksum, Completed
    <3>5. Completed(Latest(d)) => Latest(d) \in RunsOf(d)
      BY <1>0, <2>1, <2>2, NamedRuns DEF HasChecksum, Completed
    <3> QED BY <1>2, <2>1, <2>2, <3>2, <3>3, <3>4, <3>5
  <2> QED BY <1>4, <2>3, <2>4 DEF AsQueued
<1> QED BY <1>3, <1>4

-------------------------------------------------------------------------------
(* Any batch, any deployment                                               *)

(* BatchInv of BatchInvariant is an invariant of the batches.              *)
THEOREM BatchInvariantHolds == BatchSpec => []BatchInv
BY BatchInvInit, BatchInvNext, PTL DEF BatchSpec

(* Every variable of a batch, and of what runs beside it, keeps its type.  *)
THEOREM BatchTypeCorrect == BatchSpec => []BatchTypeOK
<1>1. BatchInv => BatchTypeOK
  BY DEF BatchInv
<1> QED BY <1>1, BatchInvariantHolds, PTL

(* The counters of a batch are those of its items: an outcome is counted   *)
(* in the commit that records it, under the status that the item got by    *)
(* conditions of its own, and neither a file that is refused nor one that  *)
(* raises after its run was queued moves another counter.                  *)
THEOREM CountsCorrect == BatchSpec => []CountsMatchItems
<1>1. BatchInv => CountsMatchItems
  BY BatchParts DEF BatchSound
<1> QED BY <1>1, BatchInvariantHolds, PTL

(* No file whose content some document serves is reported as failed, but   *)
(* one that was gone when its failure was recorded.                        *)
THEOREM ServedCorrect == BatchSpec => []ServedNeverFailed
<1>1. BatchInv => ServedNeverFailed
  BY ServedItem DEF ServedNeverFailed
<1> QED BY <1>1, BatchInvariantHolds, PTL

(* No file is reported as done before a run of a document with its content *)
(* succeeded.                                                              *)
THEOREM NeverEarlyCorrect == BatchSpec => []NeverDoneEarly
<1>1. BatchInv => NeverDoneEarly
  BY DoneItem DEF NeverDoneEarly
<1> QED BY <1>1, BatchInvariantHolds, PTL

(* A batch that came to its end has recorded every file of its directory,  *)
(* under its checksum unless the file failed and was gone by then, and is  *)
(* stored as completed if and only if none of them failed.                 *)
THEOREM FilesAccounted == BatchSpec => []FilesAccountedFor
<1>1. BatchInv => FilesAccountedFor
  <2> SUFFICES ASSUME BatchInv, Finished PROVE FilesAccountedFor
    BY DEF FilesAccountedFor
  <2>1. /\ items \in Seq(ItemRow) /\ batch \in BatchRow /\ batch # None
        /\ ItemsInOrder /\ CountsMatchItems /\ Len(items) = Len(Files)
        /\ batch.status = "completed" <=> batch.count["failed_count"] = 0
    BY BatchParts DEF BatchSound, FinishedSound, BatchType, Finished
  <2>2. DOMAIN items = 1 .. Len(items) /\ DOMAIN Files = 1 .. Len(Files)
    BY <2>1, FilesAssumption
  <2>3. DOMAIN items = DOMAIN Files
    BY <2>1, <2>2
  <2>4. batch.count["failed_count"] = Cardinality(Having(items, "failed"))
    <3>1. \A k \in Kinds : batch.count[CounterOf[k]] = Cardinality(Having(items, k))
      BY <2>1 DEF CountsMatchItems, Having
    <3>2. "failed" \in Kinds /\ CounterOf["failed"] = "failed_count"
      BY DEF Kinds, CounterOf
    <3> QED BY <3>1, <3>2
  <2>5. Cardinality(Having(items, "failed")) = 0 <=> Having(items, "failed") = {}
    <3>1. IsFiniteSet(1 .. Len(items)) /\ Having(items, "failed") \in SUBSET (1 .. Len(items))
      BY <2>1, <2>2, FS_Interval DEF Having
    <3> QED BY <3>1, FS_Subset, FS_EmptySet
  <2> QED BY <2>1, <2>3, <2>4, <2>5 DEF FilesAccountedFor, Having
<1> QED BY <1>1, BatchInvariantHolds, PTL

(* Completed, to a reader of a finished batch, means that a run succeeded  *)
(* for the content of every file of the directory.                         *)
THEOREM CompletedCorrect == BatchSpec => []CompletedMeansIngested
<1>1. BatchInv => CompletedMeansIngested
  <2> SUFFICES ASSUME BatchInv, Finished, DerivedStatus = "completed", NEW i \in DOMAIN Files
               PROVE  \E r \in Runs : runs[r] = "completed"
                                      /\ HasChecksum(DocumentOf[r], Files[i])
    BY DEF CompletedMeansIngested
  <2>1. /\ items \in Seq(ItemRow) /\ ItemsInOrder /\ Len(items) = Len(Files)
    BY BatchParts DEF BatchSound, FinishedSound, BatchType, Finished
  <2>2. i \in DOMAIN items
    BY <2>1, FilesAssumption
  <2>3. Resolution(i) \notin {"running", "failed"}
    <3>1. Resolution(i) \in Resolutions
      BY <2>2 DEF Resolutions
    <3> QED BY <3>1 DEF DerivedStatus
  <2>4. Resolution(i) \in {"completed", "recovered", "duplicate"}
    BY <2>2, <2>3, ItemAt, ResolutionValues
  <2>5. PICK r \in Runs : runs[r] = "completed" /\ HasChecksum(DocumentOf[r], items[i].sha256)
    BY <2>2, <2>4, DoneItem
  <2>6. items[i].sha256 \in Checksums
    <3>1. DocumentOf[r] \in Ids /\ documents[DocumentOf[r]] # None
          /\ items[i].sha256 = documents[DocumentOf[r]].sha256
      BY <2>5, DocumentOfIdAssumption DEF HasChecksum
    <3> QED BY <3>1, BatchParts, RowColumns, DocumentColumns
  <2>7. items[i].sha256 = Files[i]
    BY <2>2, <2>6, ItemAt, BatchRowAssumption
  <2> QED BY <2>5, <2>7
<1> QED BY <1>1, BatchInvariantHolds, PTL

(* Every step of a batch, and of what runs beside it, is a step of the     *)
(* requests and the worker of DocumentIngest, or changes none of their     *)
(* state: ingest_local_file is one more client of the single-file path.    *)
THEOREM BatchRefinesIngest == BatchSpec => Spec
<1>1. BatchInit => Init
  BY DEF BatchInit
<1>2. BatchInv /\ [BatchNext]_batchVars => [Next]_vars
  BY BatchBase
<1> QED BY <1>1, <1>2, BatchInvariantHolds, PTL DEF BatchSpec, Spec

(* The files of a directory are admitted as uploads are: with them too the *)
(* runs in flight exceed the limit by less than one for each session.      *)
THEOREM BatchCapacityCorrect == BatchSpec => []WithinCapacity
BY BatchRefinesIngest, CapacityCorrect, PTL

-------------------------------------------------------------------------------
(* A careful deployment, without the cleanup command                       *)

Uncleaned == phase = "idle" /\ pending = {} /\ view = None /\ doomed = {}

LEMMA UncleanedIngest == CleanupUndisturbed => (Spec /\ []Uncleaned => CleanupSpec)
<1> SUFFICES ASSUME CleanupUndisturbed PROVE Spec /\ []Uncleaned => CleanupSpec
  OBVIOUS
<1>1. Init /\ Uncleaned => CleanupInit
  BY DEF Uncleaned, CleanupInit
<1>2. Uncleaned /\ Uncleaned' /\ [Next]_vars => [CleanupNext]_allVars
  BY DEF Uncleaned, CleanupNext, Undisturbed, cleanup, allVars
<1> QED BY <1>1, <1>2, PTL DEF Spec, CleanupSpec

LEMMA UncleanedBatch ==
    ASSUME CarefulDeployment PROVE BatchSpec /\ []Uncleaned => CleanupSpec
BY BatchRefinesIngest, UncleanedIngest, PTL DEF CarefulDeployment

(* Beside a batch too the corpus is what its contract says: a document     *)
(* serves a run from its first success on, and only a newer success        *)
(* replaces it.  (BatchSpec says nothing of the variables of the cleanup   *)
(* command: Uncleaned is that the command is not run.)                     *)
THEOREM BatchContractCorrect ==
    ASSUME CarefulDeployment PROVE BatchSpec /\ []Uncleaned => ImplementsContract
BY UncleanedBatch, ContractCorrect, PTL

(* A batch leaves every document whole that a run may be parsed for.       *)
THEOREM BatchDocumentsComplete ==
    ASSUME CarefulDeployment PROVE BatchSpec /\ []Uncleaned => []DocumentsComplete
BY UncleanedBatch, DocumentsCompleteCorrect, PTL

(* Neither the recovery runs of a batch nor those of the API queue a       *)
(* second run of a document while one is in flight.                        *)
THEOREM BatchOneRunInFlight ==
    ASSUME CarefulDeployment PROVE BatchSpec /\ []Uncleaned => []OneRunInFlight
BY UncleanedBatch, OneRunInFlightCorrect, PTL

(* Beside a batch the answers under a key stand, and a key pays for the    *)
(* same work twice only after the first run failed.                        *)
THEOREM BatchAnswersStand ==
    ASSUME CarefulDeployment
    PROVE  BatchSpec /\ []Uncleaned => AnswersStand /\ []RepeatedOnlyAfterFailure
BY UncleanedBatch, AnswersStandCorrect, RepeatedCorrect, PTL

===============================================================================
