---------------------------- MODULE RequestProofs -----------------------------
(***************************************************************************)
(* DocumentIngest, for any documents, runs, requests and keys, and in any  *)
(* deployment: what each step of a request does to its session and to the  *)
(* database (the Effect lemmas), that every variable has its type, that    *)
(* there is a run id for every request that queues a run, and that the     *)
(* runs in flight stay within the limit.                                   *)
(***************************************************************************)
EXTENDS RequestInvariant, FiniteSetTheorems, TLAPS

-------------------------------------------------------------------------------
(* Sets of run ids                                                         *)

Below(S, n) == {m \in S : m < n}

LEMMA Smallest ==
    ASSUME NEW S \in SUBSET Nat, IsFiniteSet(S), S # {}
    PROVE  \E n \in S : \A m \in S : n <= m
<1> DEFINE T == {Below(S, n) : n \in S}
<1>1. T \subseteq SUBSET S /\ T # {}
  BY DEF Below
<1>2. IsWellFoundedOn(StrictSubsetOrdering(S), SUBSET S)
  <2>1. IsWellFoundedOn(StrictSubsetOrdering(S), FiniteSubsetsOf(S))
    BY FS_StrictSubsetOrderingWellFounded
  <2> QED BY <2>1, FS_FiniteSubsetsOfFinite
<1>3. \E X \in T : \A Y \in T : <<Y, X>> \notin StrictSubsetOrdering(S)
  <2> HIDE DEF T
  <2> QED BY <1>1, <1>2, WFMin
<1>4. PICK n \in S : \A m \in S : <<Below(S, m), Below(S, n)>> \notin StrictSubsetOrdering(S)
  BY <1>3
<1>5. ASSUME NEW m \in S, ~(n <= m)
      PROVE  FALSE
  <2>1. m \in Nat /\ n \in Nat
    OBVIOUS
  <2>2. m \in Below(S, n) /\ m \notin Below(S, m)
    BY <1>5, <2>1 DEF Below
  <2>3. ASSUME NEW k \in Below(S, m)
        PROVE  k \in Below(S, n)
    <3>1. k \in S /\ k \in Nat /\ k < m
      BY <2>3 DEF Below
    <3> QED BY <1>5, <2>1, <3>1 DEF Below
  <2>4. <<Below(S, m), Below(S, n)>> \in (SUBSET S) \X (SUBSET S)
    BY DEF Below
  <2> QED BY <1>4, <2>2, <2>3, <2>4 DEF StrictSubsetOrdering
<1> QED BY <1>5

LEMMA Greatest ==
    ASSUME NEW S \in SUBSET Nat, NEW n \in Nat, S # {}, \A m \in S : m <= n
    PROVE  \E k \in S : \A m \in S : m <= k
<1> DEFINE U == {u \in 0 .. n : \A m \in S : m <= u}
<1>1. IsFiniteSet(U) /\ U \in SUBSET Nat /\ n \in U
  <2>1. IsFiniteSet(0 .. n)
    BY FS_Interval
  <2> QED BY <2>1, FS_Subset
<1>2. \E u \in U : \A v \in U : u <= v
  <2> HIDE DEF U
  <2> QED BY <1>1, Smallest
<1>3. PICK u \in U : \A v \in U : u <= v
  BY <1>2
<1>4. ASSUME u \notin S PROVE FALSE
  <2>1. PICK m \in S : m \in Nat
    OBVIOUS
  <2>2. \A k \in S : k \in Nat /\ k <= u - 1
    BY <1>3, <1>4
  <2>3. u - 1 \in U
    BY <1>3, <2>1, <2>2
  <2> QED BY <1>3, <2>3
<1> QED BY <1>3, <1>4

LEMMA RunsAreNaturals ==
    ASSUME NEW d \in Ids
    PROVE  /\ \A r \in RunsOf(d) : r \in Runs /\ r \in Nat /\ DocumentOf[r] = d
           /\ Absent(d) \in SUBSET Nat /\ IsFiniteSet(Absent(d))
           /\ Cardinality(Absent(d)) \in Nat
<1>1. RunsOf(d) \subseteq Runs /\ Absent(d) \subseteq Runs /\ Absent(d) \subseteq Nat
  BY IdsAssumption DEF RunsOf, Absent
<1>2. IsFiniteSet(Absent(d))
  <2>1. IsFiniteSet(Runs) /\ Absent(d) \in SUBSET Runs
    BY <1>1, FiniteAssumption
  <2> QED BY <2>1, FS_Subset
<1> QED BY <1>1, <1>2, IdsAssumption, FS_CardinalityType DEF RunsOf

LEMMA NextRunFollows ==
    ASSUME NEW d \in Ids, Absent(d) # {}
    PROVE  Follows(NextRun(d), d)
<1>1. \E r \in Absent(d) : \A s \in Absent(d) : r <= s
  BY Smallest, RunsAreNaturals
<1>2. PICK r \in Absent(d) : \A s \in Absent(d) : r <= s
  BY <1>1
<1>3. r \in RunsOf(d) /\ runs[r] = "absent"
  BY DEF Absent, Exists
<1>4. ASSUME NEW s \in RunsOf(d), s < r, runs[s] = "absent"
      PROVE  FALSE
  <2>1. s \in Absent(d) /\ s \in Nat /\ r \in Nat
    BY <1>3, <1>4, RunsAreNaturals DEF Absent, Exists
  <2> QED BY <1>2, <1>4, <2>1
<1>5. \E x \in RunsOf(d) : /\ runs[x] = "absent"
                           /\ \A s \in RunsOf(d) : s < x => runs[s] # "absent"
  BY <1>3, <1>4
<1> QED BY <1>5 DEF NextRun, Follows, Exists

LEMMA RunToSpend ==
    ASSUME RequestInv, NEW q \in Requests, Spending(q), NEW d \in Ids
    PROVE  Follows(NextRun(d), d)
<1>1. Spenders \subseteq Requests /\ IsFiniteSet(Spenders) /\ q \in Spenders
  BY FiniteAssumption, FS_Subset DEF Spenders
<1>2. Cardinality(Spenders) \in Nat /\ Cardinality(Spenders) # 0
  BY <1>1, FS_CardinalityType, FS_EmptySet
<1>3. Cardinality(Absent(d)) # 0 /\ IsFiniteSet(Absent(d))
  BY <1>2, RunsAreNaturals DEF RequestInv
<1>4. Absent(d) # {}
  BY <1>3, FS_EmptySet
<1> QED BY <1>4, NextRunFollows

-------------------------------------------------------------------------------
(* What a step of a request does to its session                            *)

SessionType ==
    /\ pc \in [Requests -> Locations]
    /\ request \in [Requests -> RequestType \cup {None}]
    /\ loaded \in [Requests -> Loaded \cup {None}]
    /\ lookup \in [Requests -> Response \cup {None}]
    /\ answer \in [Requests -> Answers \cup {None}]

DatabaseType ==
    /\ documents \in [Ids -> DocumentRow \cup {None}]
    /\ runs \in [Runs -> RunStatuses]
    /\ sources \subseteq Ids
    /\ responses \in [Scopes \X Keys -> Response \cup {None}]
    /\ origin \in [Runs -> OriginType \cup {None}]

LEMMA TypeParts == TypeOK <=> SessionType /\ DatabaseType
BY DEF TypeOK, SessionType, DatabaseType

OnlyFor(q) ==
    \A p \in Requests \ {q} :
        /\ pc'[p] = pc[p] /\ request'[p] = request[p] /\ loaded'[p] = loaded[p]
        /\ lookup'[p] = lookup[p] /\ answer'[p] = answer[p]

Becomes(q, location, asked, held, found, reply) ==
    /\ SessionType'
    /\ OnlyFor(q)
    /\ pc'[q] = location /\ request'[q] = asked /\ loaded'[q] = held
    /\ lookup'[q] = found /\ answer'[q] = reply

LEMMA RequestColumns ==
    ASSUME NEW asked \in RequestType
    PROVE  /\ asked.scope \in Scopes /\ asked.key \in Keys \cup {None}
           /\ asked.target \in Checksums \cup Ids
           /\ asked.scope = "create" => asked.target \in Checksums
           /\ asked.scope = "reprocess" => asked.target \in Ids
BY DEF RequestType, Scopes

LEMMA SameRequests ==
    ASSUME NEW x \in RequestType, NEW y \in RequestType,
           x.scope = y.scope, x.target = y.target, x.key = y.key
    PROVE  x = y
BY DEF RequestType

LEMMA DocumentColumns ==
    ASSUME NEW row \in DocumentRow
    PROVE  /\ row # None /\ row.sha256 \in Checksums
           /\ row.active_run_id \in Runs \cup {None}
           /\ row.latest_run_id \in Runs \cup {None}
BY RowAssumption DEF DocumentRow

LEMMA LoadedColumns ==
    ASSUME NEW held \in Loaded
    PROVE  held # None /\ held.id \in Ids /\ held.row \in DocumentRow
BY RowAssumption DEF Loaded

LEMMA LoadedRecord ==
    ASSUME NEW d \in Ids, NEW row \in DocumentRow
    PROVE  /\ [id |-> d, row |-> row] \in Loaded
           /\ [id |-> d, row |-> row].id = d /\ [id |-> d, row |-> row].row = row
BY DEF Loaded

LEMMA AnswerRecords ==
    ASSUME NEW r \in Runs \cup {None}
    PROVE  /\ Queued(r) \in Answers /\ Recovery(r) \in Answers
           /\ Duplicate \in Answers /\ Refused \in Answers
           /\ None \notin Answers
           /\ Queued(r).run = r /\ Recovery(r).run = r /\ Duplicate.run = None
           /\ Refused \notin {Queued(r), Recovery(r), Duplicate}
<1> DEFINE R == [run : Runs \cup {None}, recovery : BOOLEAN]
<1>1. Queued(r) \in R /\ Recovery(r) \in R /\ Duplicate \in R
  BY DEF Queued, Recovery, Duplicate
<1>2. Queued(r).run = r /\ Recovery(r).run = r /\ Duplicate.run = None
  BY DEF Queued, Recovery, Duplicate
<1>3. Answers = R \cup {Refused} /\ None \notin Answers /\ Refused \notin R
  BY RowAssumption DEF Answers
<1> HIDE DEF R
<1> QED BY <1>1, <1>2, <1>3

LEMMA AnswerColumns ==
    ASSUME NEW a \in Answers, a # Refused
    PROVE  a.run \in Runs \cup {None}
BY DEF Answers

LEMMA RequestHolds ==
    ASSUME SessionType, NEW q \in Requests
    PROVE  /\ pc[q] \in Locations
           /\ request[q] # None => request[q] \in RequestType
           /\ loaded[q] # None => loaded[q] \in Loaded /\ loaded[q].id \in Ids
                                  /\ loaded[q].row \in DocumentRow
           /\ lookup[q] \in Response \cup {None}
           /\ answer[q] # None => answer[q] \in Answers
BY LoadedColumns DEF SessionType

LEMMA Becoming ==
    ASSUME SessionType, NEW q \in Requests,
           NEW location \in Locations, NEW asked \in RequestType \cup {None},
           NEW held \in Loaded \cup {None}, NEW found \in Response \cup {None},
           NEW reply \in Answers \cup {None},
           pc' = [pc EXCEPT ![q] = location],
           request' = [request EXCEPT ![q] = asked],
           loaded' = [loaded EXCEPT ![q] = held],
           lookup' = [lookup EXCEPT ![q] = found],
           answer' = [answer EXCEPT ![q] = reply]
    PROVE  Becomes(q, location, asked, held, found, reply)
<1>1. SessionType'
  BY DEF SessionType
<1>2. OnlyFor(q)
  BY DEF SessionType, OnlyFor
<1>3. /\ pc'[q] = location /\ request'[q] = asked /\ loaded'[q] = held
      /\ lookup'[q] = found /\ answer'[q] = reply
  BY DEF SessionType
<1> QED BY <1>1, <1>2, <1>3 DEF Becomes

LEMMA Keeping ==
    ASSUME SessionType, NEW q \in Requests
    PROVE  /\ pc = [pc EXCEPT ![q] = pc[q]]
           /\ request = [request EXCEPT ![q] = request[q]]
           /\ loaded = [loaded EXCEPT ![q] = loaded[q]]
           /\ lookup = [lookup EXCEPT ![q] = lookup[q]]
           /\ answer = [answer EXCEPT ![q] = answer[q]]
           /\ request[q] \in RequestType \cup {None} /\ loaded[q] \in Loaded \cup {None}
           /\ lookup[q] \in Response \cup {None} /\ answer[q] \in Answers \cup {None}
           /\ pc[q] \in Locations
BY DEF SessionType

LEMMA Going ==
    ASSUME SessionType, NEW q \in Requests, NEW location \in Locations,
           Goto(q, location), UNCHANGED session
    PROVE  Becomes(q, location, request[q], loaded[q], lookup[q], answer[q])
BY Keeping, Becoming DEF Goto, session

LEMMA Returning ==
    ASSUME SessionType, NEW q \in Requests, NEW a \in Answers, Return(q, a)
    PROVE  Becomes(q, "replying", request[q], None, None, a)
<1>1. "replying" \in Locations
  BY DEF Locations
<1> QED BY <1>1, Keeping, Becoming DEF Return, Goto

LEMMA Loading ==
    ASSUME SessionType, DatabaseType, NEW q \in Requests, NEW location \in Locations,
           NEW d \in Ids, documents[d] # None, Loads(q, d), Goto(q, location),
           UNCHANGED <<request, lookup, answer>>
    PROVE  Becomes(q, location, request[q], [id |-> d, row |-> documents[d]],
                   lookup[q], answer[q])
<1>1. [id |-> d, row |-> documents[d]] \in Loaded
  BY LoadedRecord DEF DatabaseType
<1> QED BY <1>1, Keeping, Becoming DEF Loads, Goto

LEMMA Replying ==
    ASSUME SessionType, NEW q \in Requests, NEW location \in Locations,
           NEW a \in Answers, Goto(q, location), answer' = [answer EXCEPT ![q] = a],
           UNCHANGED <<request, loaded, lookup>>
    PROVE  Becomes(q, location, request[q], loaded[q], lookup[q], a)
BY Keeping, Becoming DEF Goto

LEMMA LocationSets ==
    /\ {"finding", "admitting", "resolving", "outrun", "inserting", "moving", "storing",
        "committing", "replying", "received", "locking", "idle"} = Locations
    /\ Locations \ Serving = {"idle", "replying"}
    /\ Resolving = {"resolving", "outrun"} /\ Writing = {"moving", "storing", "committing"}
    /\ Answering = {"storing", "committing"}
    /\ Creating = {"finding", "admitting", "inserting", "moving", "resolving", "outrun"}
BY DEF Locations, Serving, Resolving, Writing, Answering, Creating

LEMMA StoredResponse ==
    ASSUME SessionType, DatabaseType, NEW q \in Requests, request[q] # None
    PROVE  /\ Stored(q) \in Response \cup {None}
           /\ Stored(q) # None => Keyed(q) /\ Stored(q).answer \in Answers
                                  /\ Stored(q) = responses[Key(q)]
           /\ Keyed(q) => Key(q) \in Scopes \X Keys
           /\ Key(q) \in Scopes \X (Keys \cup {None})
<1>1. request[q].scope \in Scopes /\ request[q].key \in Keys \cup {None}
  BY RequestHolds, RequestColumns
<1>2. Key(q) \in Scopes \X (Keys \cup {None}) /\ (Keyed(q) => Key(q) \in Scopes \X Keys)
  BY <1>1 DEF Key, Keyed
<1>3. Stored(q) \in Response \cup {None}
  BY <1>2 DEF Stored, DatabaseType
<1>4. \A x \in Response : x.answer \in Answers
  BY DEF Response
<1> QED BY <1>2, <1>3, <1>4 DEF Stored

LEMMA ReceiveEffect ==
    ASSUME SessionType, NEW q \in Requests, NEW asked \in RequestType, Receive(q, asked)
    PROVE  /\ pc[q] = "idle"
           /\ Becomes(q, IF asked.key # None THEN "received" ELSE Start(asked),
                      asked, loaded[q], lookup[q], answer[q])
<1>1. (IF asked.key # None THEN "received" ELSE Start(asked)) \in Locations
  BY LocationSets DEF Start
<1> QED BY <1>1, Keeping, Becoming DEF Receive, Goto

LEMMA ReplayEffect ==
    ASSUME SessionType, DatabaseType, RequestInv, NEW q \in Requests, Replay(q)
    PROVE  /\ pc[q] = "received"
           /\ \E a \in Answers : Becomes(q, "replying", request[q], None, None, a)
<1>1. pc[q] = "received" /\ Stored(q) # None /\ request[q] # None
  BY DEF Replay, RequestInv, RequestSound
<1>2. Stored(q).answer \in Answers /\ Refused \in Answers
  BY <1>1, StoredResponse DEF Answers
<1> QED BY <1>1, <1>2, Returning DEF Replay

LEMMA StartOverEffect ==
    ASSUME SessionType, NEW q \in Requests, StartOver(q)
    PROVE  /\ pc[q] = "received" /\ Stored(q) = None
           /\ Becomes(q, Start(request[q]), request[q], loaded[q], lookup[q], answer[q])
<1>1. Start(request[q]) \in Locations
  BY LocationSets DEF Start
<1> QED BY <1>1, Going DEF StartOver

LEMMA FindEffect ==
    ASSUME SessionType, DatabaseType, NEW q \in Requests,
           FindDocument(q) \/ InsertConflicts(q)
    PROVE  \E d \in Ids, location \in Resolving :
             /\ pc[q] \in {"finding", "inserting"}
             /\ HasChecksum(d, request[q].target)
             /\ Becomes(q, location, request[q], [id |-> d, row |-> documents[d]],
                        lookup[q], answer[q])
<1>1. ASSUME FindDocument(q)
      PROVE  \E d \in Ids :
               /\ pc[q] = "finding" /\ HasChecksum(d, request[q].target)
               /\ Becomes(q, "resolving", request[q], [id |-> d, row |-> documents[d]],
                          lookup[q], answer[q])
  BY <1>1, LocationSets, Loading DEF FindDocument, HasChecksum
<1>2. ASSUME InsertConflicts(q)
      PROVE  \E d \in Ids :
               /\ pc[q] = "inserting" /\ HasChecksum(d, request[q].target)
               /\ Becomes(q, "outrun", request[q], [id |-> d, row |-> documents[d]],
                          lookup[q], answer[q])
  BY <1>2, LocationSets, Loading DEF InsertConflicts, HasChecksum
<1> QED BY <1>1, <1>2, LocationSets

LEMMA FindNothingEffect ==
    ASSUME SessionType, NEW q \in Requests, FindNothing(q)
    PROVE  /\ pc[q] = "finding"
           /\ Becomes(q, "admitting", request[q], loaded[q], lookup[q], answer[q])
BY LocationSets, Going DEF FindNothing

LEMMA AdmitEffect ==
    ASSUME SessionType, NEW q \in Requests, Admit(q)
    PROVE  /\ pc[q] = "admitting"
           /\ \/ Becomes(q, "replying", request[q], None, None, Refused)
              \/ Becomes(q, "inserting", request[q], loaded[q], lookup[q], answer[q])
<1>1. Refused \in Answers /\ "inserting" \in Locations
  BY LocationSets DEF Answers
<1> QED BY <1>1, Going, Returning DEF Admit

NewRow(c) == [sha256 |-> c, active_run_id |-> None, latest_run_id |-> None]

LEMMA NewRowColumns ==
    ASSUME NEW c \in Checksums
    PROVE  /\ NewRow(c) \in DocumentRow
           /\ NewRow(c).sha256 = c
           /\ NewRow(c).active_run_id = None /\ NewRow(c).latest_run_id = None
BY DEF NewRow, DocumentRow

LEMMA InsertEffect ==
    ASSUME SessionType, RequestInv, NEW q \in Requests, InsertDocument(q)
    PROVE  /\ pc[q] = "inserting" /\ IndexFree(q)
           /\ \A e \in Ids : ~HasChecksum(e, request[q].target)
           /\ request[q].target \in Checksums
           /\ \E d \in Ids :
                /\ Unused(d)
                /\ Becomes(q, "moving", request[q],
                           [id |-> d, row |-> NewRow(request[q].target)],
                           lookup[q], answer[q])
<1>1. pc[q] = "inserting" /\ request[q] # None /\ request[q].scope = "create"
  BY LocationSets DEF InsertDocument, RequestInv, RequestSound
<1>2. request[q].target \in Checksums /\ "moving" \in Locations
  BY <1>1, RequestHolds, RequestColumns, LocationSets
<1>3. PICK d \in Ids :
        /\ Unused(d)
        /\ loaded' = [loaded EXCEPT ![q] = [id |-> d, row |-> NewRow(request[q].target)]]
  BY DEF InsertDocument, NewRow
<1>4. [id |-> d, row |-> NewRow(request[q].target)] \in Loaded
  BY <1>2, NewRowColumns, LoadedRecord
<1>5. Becomes(q, "moving", request[q], [id |-> d, row |-> NewRow(request[q].target)],
              lookup[q], answer[q])
  BY <1>2, <1>3, <1>4, Keeping, Becoming DEF InsertDocument, Goto
<1> QED BY <1>1, <1>2, <1>3, <1>5 DEF InsertDocument

LEMMA MoveEffect ==
    ASSUME SessionType, RequestInv, NEW q \in Requests, MoveSource(q)
    PROVE  /\ pc[q] = "moving" /\ loaded[q] \in Loaded
           /\ loaded[q].id \in Ids /\ sources' = sources \cup {loaded[q].id}
           /\ Follows(NextRun(loaded[q].id), loaded[q].id)
           /\ Becomes(q, IF Keyed(q) THEN "storing" ELSE "committing", request[q],
                      loaded[q], lookup[q], Queued(NextRun(loaded[q].id)))
<1> DEFINE d == loaded[q].id
<1>1. pc[q] = "moving" /\ loaded[q] # None /\ Spending(q)
  BY LocationSets DEF MoveSource, RequestInv, RequestSound, Spending, Serving, Writing
<1>2. d \in Ids /\ loaded[q] \in Loaded
  BY <1>1, RequestHolds
<1>3. Follows(NextRun(d), d)
  BY <1>1, <1>2, RunToSpend
<1>4. Queued(NextRun(d)) \in Answers
  BY <1>2, <1>3, AnswerRecords, RunsAreNaturals DEF Follows
<1>5. (IF Keyed(q) THEN "storing" ELSE "committing") \in Locations
  BY LocationSets
<1>6. Becomes(q, IF Keyed(q) THEN "storing" ELSE "committing", request[q],
              loaded[q], lookup[q], Queued(NextRun(d)))
  BY <1>4, <1>5, Replying DEF MoveSource
<1> QED BY <1>1, <1>2, <1>3, <1>6 DEF MoveSource

LEMMA ResolveNothingEffect ==
    ASSUME SessionType, NEW q \in Requests, ResolveNothing(q)
    PROVE  /\ pc[q] \in Resolving
           /\ Becomes(q, "replying", request[q], None, None, Refused)
<1>1. Refused \in Answers
  BY DEF Answers
<1> QED BY <1>1, Returning DEF ResolveNothing

LEMMA ResolveEffect ==
    ASSUME SessionType, RequestInv, NEW q \in Requests, ResolveExisting(q)
    PROVE  /\ pc[q] \in Resolving /\ loaded[q] \in Loaded
           /\ documents[loaded[q].id] # None /\ ~Locked(loaded[q].id)
           /\ \E a \in Answers \ {Refused} :
                /\ a.run # None => Exists(a.run)
                /\ \/ /\ pc[q] = "resolving" /\ Keyed(q)
                      /\ Becomes(q, "storing", request[q], loaded[q], lookup[q], a)
                   \/ Becomes(q, "replying", request[q], None, None, a)
<1> DEFINE found == IF SeesActive(q) THEN Duplicate ELSE Recovery(loaded[q].row.latest_run_id)
<1>1. pc[q] \in Resolving /\ loaded[q] \in Loaded
  BY RequestHolds DEF ResolveExisting, RequestInv, RequestSound
<1>2. loaded[q].row.latest_run_id \in Runs \cup {None}
  BY <1>1, LoadedColumns, DocumentColumns
<1>3. found \in Answers \ {Refused} /\ (found.run # None => Exists(found.run))
  <2>1. CASE SeesActive(q)
    BY <2>1, AnswerRecords
  <2>2. CASE ~SeesActive(q)
    <3>1. SeesInflight(q)
      BY <2>2 DEF ResolveExisting
    <3>2. Exists(loaded[q].row.latest_run_id)
      BY <3>1 DEF SeesInflight, InFlight, Exists
    <3> QED BY <1>2, <2>2, <3>2, AnswerRecords
  <2> QED BY <2>1, <2>2
<1>4. \/ /\ pc[q] = "resolving" /\ Keyed(q)
         /\ Goto(q, "storing") /\ answer' = [answer EXCEPT ![q] = found]
         /\ UNCHANGED <<request, loaded, lookup>>
      \/ Return(q, found)
  BY DEF ResolveExisting
<1>5. documents[loaded[q].id] # None /\ ~Locked(loaded[q].id)
  BY DEF ResolveExisting
<1> HIDE DEF found
<1>6. \/ /\ pc[q] = "resolving" /\ Keyed(q)
         /\ Becomes(q, "storing", request[q], loaded[q], lookup[q], found)
      \/ Becomes(q, "replying", request[q], None, None, found)
  BY <1>3, <1>4, Replying, Returning, LocationSets
<1> QED BY <1>1, <1>3, <1>5, <1>6

LEMMA Committing ==
    ASSUME SessionType, RequestInv, NEW q \in Requests, pc[q] \in Answering
    PROVE  /\ request[q] \in RequestType
           /\ answer[q] \in Answers /\ answer[q] # Refused
           /\ Creates(q) => /\ loaded[q] \in Loaded /\ Spending(q)
                            /\ answer[q].run \in Runs /\ ~Exists(answer[q].run)
                            /\ DocumentOf[answer[q].run] = loaded[q].id
<1>1. request[q] \in RequestType /\ answer[q] \in Answers /\ answer[q] # Refused
      /\ (Creates(q) => loaded[q] # None /\ answer[q].run \in RunsOf(loaded[q].id))
  BY LocationSets, RequestHolds DEF RequestInv, RequestSound
<1> QED BY <1>1, LocationSets, RequestHolds DEF Creates, Exists, RunsOf, Spending, Serving, Writing

(* One run more, and the document that has it as its latest.               *)
Queues(q, d, r, row) ==
    /\ d \in Ids /\ r \in Runs /\ ~Exists(r) /\ row \in DocumentRow
    /\ DatabaseType'
    /\ runs'[r] = "inflight" /\ \A s \in Runs \ {r} : runs'[s] = runs[s]
    /\ documents'[d] \in DocumentRow
    /\ documents'[d].latest_run_id = r
    /\ documents'[d].sha256 = row.sha256
    /\ documents'[d].active_run_id = row.active_run_id
    /\ \A e \in Ids \ {d} : documents'[e] = documents[e]
    /\ origin'[r] # None /\ origin'[r].key = Key(q)
    /\ origin'[r].recovery = (pc[q] \in Resolving)
    /\ \A s \in Runs \ {r} : origin'[s] = origin[s]

LEMMA Queueing ==
    ASSUME SessionType, DatabaseType, NEW q \in Requests, request[q] # None,
           NEW d \in Ids, NEW r \in Runs, ~Exists(r), NEW row \in DocumentRow,
           QueueRun(q, d, r, row), sources' \subseteq Ids,
           responses' \in [Scopes \X Keys -> Response \cup {None}]
    PROVE  Queues(q, d, r, row)
<1> DEFINE new == [row EXCEPT !.latest_run_id = r]
           from == [key |-> Key(q), recovery |-> pc[q] \in Resolving]
<1>1. /\ new \in DocumentRow /\ new.latest_run_id = r
      /\ new.sha256 = row.sha256 /\ new.active_run_id = row.active_run_id
  BY DEF DocumentRow
<1>2. from \in OriginType /\ from.key = Key(q) /\ from.recovery = (pc[q] \in Resolving)
  BY StoredResponse DEF OriginType
<1>3. from # None
  BY <1>2, RowAssumption
<1>4. /\ documents' = [documents EXCEPT ![d] = new]
      /\ origin' = [origin EXCEPT ![r] = from]
      /\ runs' = [runs EXCEPT ![r] = "inflight"]
  BY DEF QueueRun
<1> HIDE DEF new, from
<1>5. DatabaseType'
  BY <1>1, <1>2, <1>4 DEF DatabaseType, RunStatuses
<1>6. /\ runs'[r] = "inflight" /\ \A s \in Runs \ {r} : runs'[s] = runs[s]
      /\ documents'[d] = new /\ \A e \in Ids \ {d} : documents'[e] = documents[e]
      /\ origin'[r] = from /\ \A s \in Runs \ {r} : origin'[s] = origin[s]
  BY <1>4 DEF DatabaseType
<1> QED BY <1>1, <1>2, <1>3, <1>5, <1>6 DEF Queues

LEMMA RecoveryEffect ==
    ASSUME SessionType, DatabaseType, RequestInv, NEW q \in Requests, QueueRecovery(q)
    PROVE  \E d \in Ids, r \in Runs :
             /\ pc[q] \in Resolving
             /\ loaded[q] \in Loaded /\ d = loaded[q].id
             /\ documents[d] # None /\ ~Locked(d)
             /\ ~SeesActive(q) /\ ~SeesInflight(q)
             /\ Follows(r, d) /\ DocumentOf[r] = d
             /\ Queues(q, d, r, documents[d])
             /\ \/ /\ pc[q] = "resolving" /\ Keyed(q)
                   /\ Becomes(q, "storing", request[q], None, lookup[q], Recovery(r))
                \/ Becomes(q, "replying", request[q], None, None, Recovery(r))
<1> DEFINE d == loaded[q].id
           r == NextRun(d)
<1>1. /\ pc[q] \in Resolving /\ loaded[q] \in Loaded /\ Spending(q)
      /\ request[q] # None
  BY LocationSets, RequestHolds DEF QueueRecovery, RequestInv, RequestSound, Spending
<1>2. d \in Ids /\ documents[d] # None /\ ~Locked(d) /\ ~SeesActive(q) /\ ~SeesInflight(q)
  BY <1>1, LoadedColumns DEF QueueRecovery
<1>3. Follows(r, d)
  BY <1>1, <1>2, RunToSpend
<1>4. r \in Runs /\ ~Exists(r) /\ DocumentOf[r] = d
  BY <1>2, <1>3, RunsAreNaturals DEF Follows
<1>5. documents[d] \in DocumentRow
  BY <1>2 DEF DatabaseType
<1>6. Queues(q, d, r, documents[d])
  BY <1>1, <1>2, <1>4, <1>5, Queueing DEF QueueRecovery, DatabaseType
<1>7. Recovery(r) \in Answers
  BY <1>4, AnswerRecords
<1>8. \/ /\ pc[q] = "resolving" /\ Keyed(q)
         /\ Goto(q, "storing")
         /\ answer' = [answer EXCEPT ![q] = Recovery(r)]
         /\ loaded' = [loaded EXCEPT ![q] = None]
         /\ UNCHANGED <<request, lookup>>
      \/ Return(q, Recovery(r))
  BY DEF QueueRecovery
<1> HIDE DEF r, d
<1>9. \/ /\ pc[q] = "resolving" /\ Keyed(q)
         /\ Becomes(q, "storing", request[q], None, lookup[q], Recovery(r))
      \/ Becomes(q, "replying", request[q], None, None, Recovery(r))
  BY <1>7, <1>8, Keeping, Becoming, Returning, LocationSets DEF Goto
<1> QED BY <1>1, <1>2, <1>3, <1>4, <1>6, <1>9 DEF d

LEMMA LockEffect ==
    ASSUME SessionType, DatabaseType, RequestInv, NEW q \in Requests, LockDocument(q)
    PROVE  /\ pc[q] = "locking"
           /\ \/ Becomes(q, "replying", request[q], None, None, Refused)
              \/ \E d \in Ids, r \in Runs :
                   /\ d = request[q].target /\ documents[d] # None
                   /\ ~Locked(d) /\ MayReprocess(d) /\ Follows(r, d)
                   /\ Becomes(q, IF Keyed(q) THEN "storing" ELSE "committing", request[q],
                              [id |-> d, row |-> documents[d]], lookup[q], Queued(r))
<1> DEFINE d == request[q].target
           r == NextRun(d)
           location == IF Keyed(q) THEN "storing" ELSE "committing"
<1>1. pc[q] = "locking" /\ request[q] # None /\ request[q].scope = "reprocess" /\ Spending(q)
  BY LocationSets DEF LockDocument, RequestInv, RequestSound, Spending, Serving, Answering
<1>2. d \in Ids
  BY <1>1, RequestHolds, RequestColumns
<1>3. CASE documents[d] = None \/ ~MayReprocess(d) \/ AtCapacity
  <2>1. Return(q, Refused) /\ Refused \in Answers
    BY <1>3 DEF LockDocument, Answers
  <2> QED BY <1>1, <2>1, Returning
<1>4. CASE ~(documents[d] = None \/ ~MayReprocess(d) \/ AtCapacity)
  <2>1. /\ Loads(q, d) /\ answer' = [answer EXCEPT ![q] = Queued(r)]
        /\ Goto(q, location) /\ UNCHANGED <<request, lookup>> /\ ~Locked(d)
    BY <1>4 DEF LockDocument
  <2>2. Follows(r, d)
    BY <1>1, <1>2, RunToSpend
  <2>3. r \in Runs
    BY <1>2, <2>2, RunsAreNaturals DEF Follows
  <2>4. Queued(r) \in Answers /\ location \in Locations
    BY <2>3, AnswerRecords, LocationSets
  <2>5. [id |-> d, row |-> documents[d]] \in Loaded
    BY <1>2, <1>4, LoadedRecord DEF DatabaseType
  <2>6. Becomes(q, location, request[q], [id |-> d, row |-> documents[d]], lookup[q], Queued(r))
    <3> HIDE DEF location, r, d
    <3> QED BY <2>1, <2>4, <2>5, Keeping, Becoming DEF Loads, Goto
  <2> QED BY <1>1, <1>2, <1>4, <2>1, <2>2, <2>3, <2>6
<1> QED BY <1>3, <1>4

LEMMA LookUpEffect ==
    ASSUME SessionType, DatabaseType, RequestInv, NEW q \in Requests, LookUpResponse(q)
    PROVE  /\ pc[q] = "storing"
           /\ Stored(q) # None => SameRequest(q, Stored(q))
           /\ Becomes(q, "committing", request[q], loaded[q], Stored(q), answer[q])
<1>1. pc[q] = "storing" /\ request[q] # None
  BY LocationSets DEF LookUpResponse, RequestInv, RequestSound
<1>2. Stored(q) \in Response \cup {None} /\ "committing" \in Locations
  BY <1>1, StoredResponse, LocationSets
<1> QED BY <1>1, <1>2, Keeping, Becoming DEF LookUpResponse, Goto

LEMMA CommitEffect ==
    ASSUME SessionType, DatabaseType, RequestInv, NEW q \in Requests, Commit(q)
    PROVE  /\ pc[q] = "committing"
           /\ request[q] \in RequestType /\ answer[q] \in Answers
           /\ Stored(q) # None => SameRequest(q, Stored(q))
           /\ Becomes(q, "replying", request[q], None, None, answer[q])
           /\ DatabaseType'
           /\ IF Creates(q)
              THEN /\ loaded[q] \in Loaded /\ DocumentOf[answer[q].run] = loaded[q].id
                   /\ Queues(q, loaded[q].id, answer[q].run, loaded[q].row)
              ELSE UNCHANGED <<documents, runs, origin>>
           /\ StoreResponse(q)
<1>1. pc[q] = "committing"
  BY DEF Commit
<1>2. request[q] \in RequestType /\ request[q] # None /\ answer[q] \in Answers
      /\ (Creates(q) => /\ loaded[q] \in Loaded
                        /\ answer[q].run \in Runs /\ ~Exists(answer[q].run)
                        /\ DocumentOf[answer[q].run] = loaded[q].id)
  BY <1>1, LocationSets, Committing, RowAssumption
<1>3. Becomes(q, "replying", request[q], None, None, answer[q])
  BY <1>2, Returning DEF Commit
<1>4. responses' \in [Scopes \X Keys -> Response \cup {None}]
  <2> DEFINE new == [fingerprint |-> request[q].target, answer |-> answer[q]]
  <2>1. new \in Response
    BY <1>2, RequestColumns DEF Response
  <2>2. responses' = responses \/ (Keyed(q) /\ responses' = [responses EXCEPT ![Key(q)] = new])
    BY DEF Commit, StoreResponse
  <2> HIDE DEF new
  <2> QED BY <1>2, <2>1, <2>2, StoredResponse DEF DatabaseType
<1>5. CASE Creates(q)
  <2>1. QueueRun(q, loaded[q].id, answer[q].run, loaded[q].row) /\ sources' = sources
    BY <1>5 DEF Commit
  <2>2. loaded[q].id \in Ids /\ loaded[q].row \in DocumentRow
    BY <1>2, <1>5, LoadedColumns
  <2>3. Queues(q, loaded[q].id, answer[q].run, loaded[q].row)
    BY <1>2, <1>4, <1>5, <2>1, <2>2, Queueing DEF DatabaseType
  <2>4. DatabaseType'
    BY <2>3 DEF Queues
  <2> QED BY <1>1, <1>2, <1>3, <1>5, <2>3, <2>4 DEF Commit
<1>6. CASE ~Creates(q)
  <2>1. UNCHANGED <<documents, runs, origin, sources>>
    BY <1>6 DEF Commit
  <2>2. DatabaseType'
    BY <1>4, <2>1 DEF DatabaseType
  <2> QED BY <1>1, <1>2, <1>3, <1>6, <2>1, <2>2 DEF Commit
<1> QED BY <1>5, <1>6

LEMMA KeyReusedEffect ==
    ASSUME SessionType, NEW q \in Requests, KeyReused(q)
    PROVE  /\ pc[q] \in Answering
           /\ Becomes(q, "replying", request[q], None, None, Refused)
<1>1. Refused \in Answers
  BY DEF Answers
<1> QED BY <1>1, LocationSets, Returning DEF KeyReused

LEMMA AbortEffect ==
    ASSUME SessionType, NEW q \in Requests, Abort(q)
    PROVE  /\ pc[q] \in Serving /\ Becomes(q, "idle", None, None, None, None)
BY LocationSets, Becoming DEF Abort, Goto

LEMMA ReplyEffect ==
    ASSUME SessionType, NEW q \in Requests, Reply(q)
    PROVE  /\ pc[q] = "replying"
           /\ Becomes(q, "idle", None, loaded[q], lookup[q], None)
BY LocationSets, Keeping, Becoming DEF Reply, Goto

-------------------------------------------------------------------------------
(* Types, and what requests hold, in any deployment                        *)

RequestStep(q) ==
    \/ \E asked \in RequestType : Receive(q, asked)
    \/ Progress(q) \/ Abort(q) \/ Reply(q)

RunsKept == \A r \in Runs : Exists(r) => runs'[r] # "absent"

LEMMA QueuesKeepsRuns ==
    ASSUME NEW q, NEW d, NEW r, NEW row, Queues(q, d, r, row)
    PROVE  RunsKept
BY DEF Queues, RunsKept, Exists

Rest == <<documents, runs, responses, origin>>

LEMMA QuietSteps ==
    ASSUME NEW q \in Requests, RequestStep(q), ~QueueRecovery(q), ~Commit(q)
    PROVE  /\ UNCHANGED Rest
           /\ sources' # sources => MoveSource(q) \/ Discard(q)
<1>1. ASSUME NEW asked \in RequestType, Receive(q, asked)
      PROVE  UNCHANGED Rest /\ UNCHANGED sources
  BY <1>1 DEF Receive, database, Rest
<1>2. CASE Replay(q) \/ StartOver(q) \/ FindDocument(q) \/ FindNothing(q) \/ Admit(q)
  BY <1>2 DEF Replay, StartOver, FindDocument, FindNothing, Admit, database, Rest
<1>3. CASE InsertDocument(q) \/ InsertConflicts(q) \/ MoveSource(q)
  BY <1>3 DEF InsertDocument, InsertConflicts, MoveSource, database, Rest
<1>4. CASE ResolveNothing(q) \/ ResolveExisting(q) \/ LockDocument(q)
  BY <1>4 DEF ResolveNothing, ResolveExisting, LockDocument, database, Rest
<1>5. CASE LookUpResponse(q) \/ KeyReused(q)
  BY <1>5 DEF LookUpResponse, KeyReused, database, Rest
<1>6. CASE Abort(q) \/ Reply(q)
  BY <1>6 DEF Abort, Reply, database, Rest
<1> QED BY <1>1, <1>2, <1>3, <1>4, <1>5, <1>6 DEF RequestStep, Progress

LEMMA RequestStepType ==
    ASSUME TypeOK, RequestInv, NEW q \in Requests, RequestStep(q)
    PROVE  TypeOK' /\ OnlyFor(q) /\ RunsKept
<1> USE TypeParts
<1>1. SessionType /\ DatabaseType
  OBVIOUS
<1>2. SessionType' /\ OnlyFor(q)
  <2>1. ASSUME NEW asked \in RequestType, Receive(q, asked)
        PROVE  SessionType' /\ OnlyFor(q)
    BY <1>1, <2>1, ReceiveEffect DEF Becomes
  <2>2. CASE Replay(q)
    BY <1>1, <2>2, ReplayEffect DEF Becomes
  <2>3. CASE StartOver(q)
    BY <1>1, <2>3, StartOverEffect DEF Becomes
  <2>4. CASE FindDocument(q) \/ InsertConflicts(q)
    BY <1>1, <2>4, FindEffect DEF Becomes
  <2>5. CASE FindNothing(q)
    BY <1>1, <2>5, FindNothingEffect DEF Becomes
  <2>6. CASE Admit(q)
    BY <1>1, <2>6, AdmitEffect DEF Becomes
  <2>7. CASE InsertDocument(q)
    BY <1>1, <2>7, InsertEffect DEF Becomes
  <2>8. CASE MoveSource(q)
    BY <1>1, <2>8, MoveEffect DEF Becomes
  <2>9. CASE ResolveNothing(q)
    BY <1>1, <2>9, ResolveNothingEffect DEF Becomes
  <2>10. CASE ResolveExisting(q)
    BY <1>1, <2>10, ResolveEffect DEF Becomes
  <2>11. CASE QueueRecovery(q)
    BY <1>1, <2>11, RecoveryEffect DEF Becomes
  <2>12. CASE LockDocument(q)
    BY <1>1, <2>12, LockEffect DEF Becomes
  <2>13. CASE LookUpResponse(q)
    BY <1>1, <2>13, LookUpEffect DEF Becomes
  <2>14. CASE Commit(q)
    BY <1>1, <2>14, CommitEffect DEF Becomes
  <2>15. CASE KeyReused(q)
    BY <1>1, <2>15, KeyReusedEffect DEF Becomes
  <2>16. CASE Abort(q)
    BY <1>1, <2>16, AbortEffect DEF Becomes
  <2>17. CASE Reply(q)
    BY <1>1, <2>17, ReplyEffect DEF Becomes
  <2> QED BY <2>1, <2>2, <2>3, <2>4, <2>5, <2>6, <2>7, <2>8, <2>9, <2>10, <2>11, <2>12,
             <2>13, <2>14, <2>15, <2>16, <2>17 DEF RequestStep, Progress
<1>3. DatabaseType' /\ RunsKept
  <2>1. CASE QueueRecovery(q)
    <3>1. PICK d \in Ids, r \in Runs : Queues(q, d, r, documents[d])
      BY <1>1, <2>1, RecoveryEffect
    <3> QED BY <3>1, QueuesKeepsRuns DEF Queues
  <2>2. CASE Commit(q)
    <3>1. DatabaseType' /\ \/ Queues(q, loaded[q].id, answer[q].run, loaded[q].row)
                           \/ UNCHANGED <<documents, runs, origin>>
      BY <1>1, <2>2, CommitEffect
    <3> QED BY <3>1, QueuesKeepsRuns DEF RunsKept, Exists
  <2>3. CASE ~QueueRecovery(q) /\ ~Commit(q)
    <3>1. UNCHANGED Rest /\ (sources' # sources => MoveSource(q) \/ Discard(q))
      BY <2>3, QuietSteps
    <3>2. sources' \subseteq Ids
      <4>1. CASE MoveSource(q)
        BY <1>1, <4>1, MoveEffect DEF DatabaseType
      <4>2. CASE ~MoveSource(q)
        BY <1>1, <3>1, <4>2 DEF Discard, DatabaseType
      <4> QED BY <4>1, <4>2
    <3> QED BY <1>1, <3>1, <3>2 DEF Rest, DatabaseType, RunsKept, Exists
  <2> QED BY <2>1, <2>2, <2>3
<1> QED BY <1>2, <1>3 DEF TypeOK, SessionType, DatabaseType

-------------------------------------------------------------------------------
LEMMA OthersSound ==
    ASSUME SessionType, RequestInv, RunsKept, NEW p \in Requests,
           pc'[p] = pc[p], request'[p] = request[p], loaded'[p] = loaded[p],
           answer'[p] = answer[p]
    PROVE  RequestSound(p)' /\ (Spending(p)' => Spending(p))
<1>1. RequestSound(p) /\ (request[p] # None => request[p] \in RequestType)
  BY RequestHolds DEF RequestInv
<1>2. pc[p] \in Answering => (Creates(p)' => Creates(p))
  <2>1. ASSUME pc[p] \in Answering PROVE answer[p].run \in Runs \cup {None}
    BY <1>1, <2>1, Committing, AnswerColumns
  <2> QED BY <2>1 DEF Creates, RunsKept, Exists
<1>3. Keyed(p)' = Keyed(p)
  BY DEF Keyed
<1> QED BY <1>1, <1>2, <1>3 DEF RequestSound, Spending

LEMMA DoneSound ==
    ASSUME NEW q \in Requests,
           \/ /\ Becomes(q, "replying", request[q], None, None, answer'[q])
              /\ request[q] # None
           \/ Becomes(q, "idle", None, None, lookup'[q], answer'[q])
    PROVE  RequestSound(q)' /\ ~Spending(q)'
BY LocationSets DEF Becomes, RequestSound, Spending, Serving, Answering, Creating, Resolving, Writing

LEMMA UnderWay ==
    ASSUME RequestInv, NEW q \in Requests, pc[q] # "idle"
    PROVE  request[q] # None
BY DEF RequestInv, RequestSound

LEMMA StepSound ==
    ASSUME SessionType, DatabaseType, RequestInv, NEW q \in Requests,
           Progress(q) \/ Abort(q) \/ Reply(q)
    PROVE  RequestSound(q)' /\ (Spending(q)' => Spending(q))
<1> DEFINE Goal == RequestSound(q)' /\ (Spending(q)' => Spending(q))
<1>0. RequestSound(q)
  BY DEF RequestInv
<1>1. CASE Replay(q)
  <2>1. request[q] # None
    BY <1>1, ReplayEffect, UnderWay
  <2> QED BY <1>1, <2>1, ReplayEffect, DoneSound DEF Becomes
<1>2. CASE StartOver(q)
  <2>1. request[q] \in RequestType /\ request[q] # None /\ pc[q] = "received"
    BY <1>2, StartOverEffect, UnderWay, RequestHolds
  <2>2. request[q].scope \in Scopes
    BY <2>1, RequestColumns
  <2>3. /\ Start(request[q]) \in {"finding", "locking"}
        /\ Start(request[q]) = "finding" => request[q].scope = "create"
        /\ Start(request[q]) = "locking" => request[q].scope = "reprocess"
    BY <2>2 DEF Start, Scopes
  <2>4. pc'[q] = Start(request[q]) /\ request'[q] = request[q] /\ loaded'[q] = loaded[q]
        /\ answer'[q] = answer[q]
    BY <1>2, StartOverEffect DEF Becomes
  <2>5. loaded[q] = None
    BY <1>0, <2>1 DEF RequestSound, Resolving, Writing
  <2> QED BY <2>1, <2>3, <2>4, <2>5, LocationSets DEF RequestSound, Spending, Serving
<1>3. CASE FindDocument(q) \/ InsertConflicts(q)
  <2>1. PICK d \in Ids, location \in Resolving :
             /\ pc[q] \in {"finding", "inserting"}
             /\ HasChecksum(d, request[q].target)
             /\ Becomes(q, location, request[q], [id |-> d, row |-> documents[d]],
                        lookup[q], answer[q])
    BY <1>3, FindEffect
  <2>2. request[q] # None /\ request[q].scope = "create"
    BY <1>0, <2>1, LocationSets, UnderWay DEF RequestSound
  <2>3. [id |-> d, row |-> documents[d]] # None
    BY <2>1, LoadedRecord, LoadedColumns DEF HasChecksum, DatabaseType
  <2>4. pc'[q] \in Resolving /\ request'[q] = request[q] /\ loaded'[q] # None
        /\ answer'[q] = answer[q]
    BY <2>1, <2>3 DEF Becomes
  <2> QED BY <2>1, <2>2, <2>4, LocationSets DEF RequestSound, Spending, Serving
<1>4. CASE FindNothing(q)
  <2>1. /\ pc[q] = "finding" /\ pc'[q] = "admitting" /\ request'[q] = request[q]
        /\ loaded'[q] = loaded[q]
    BY <1>4, FindNothingEffect DEF Becomes
  <2> QED BY <1>0, <2>1, LocationSets DEF RequestSound, Spending, Serving
<1>5. CASE Admit(q)
  <2>1. request[q] # None /\ pc[q] = "admitting"
    BY <1>5, AdmitEffect, UnderWay
  <2>2. CASE Becomes(q, "replying", request[q], None, None, Refused)
    BY <2>1, <2>2, DoneSound DEF Becomes
  <2>3. CASE Becomes(q, "inserting", request[q], loaded[q], lookup[q], answer[q])
    <3>1. pc'[q] = "inserting" /\ request'[q] = request[q] /\ loaded'[q] = loaded[q]
      BY <2>3 DEF Becomes
    <3> QED BY <1>0, <2>1, <3>1, LocationSets DEF RequestSound, Spending, Serving
  <2> QED BY <1>5, <2>2, <2>3, AdmitEffect
<1>6. CASE InsertDocument(q)
  <2>1. PICK d \in Ids :
             /\ pc[q] = "inserting"
             /\ request[q].target \in Checksums
             /\ Becomes(q, "moving", request[q],
                        [id |-> d, row |-> NewRow(request[q].target)], lookup[q], answer[q])
    BY <1>6, InsertEffect
  <2>2. [id |-> d, row |-> NewRow(request[q].target)] # None
    BY <2>1, NewRowColumns, LoadedRecord, LoadedColumns
  <2>3. pc'[q] = "moving" /\ request'[q] = request[q] /\ loaded'[q] # None
    BY <2>1, <2>2 DEF Becomes
  <2> QED BY <1>0, <2>1, <2>3, LocationSets DEF RequestSound, Spending, Serving
<1>7. CASE MoveSource(q)
  <2> DEFINE r == NextRun(loaded[q].id)
  <2>1. /\ pc[q] = "moving" /\ loaded[q] \in Loaded /\ Follows(r, loaded[q].id)
        /\ loaded[q].id \in Ids
        /\ Becomes(q, IF Keyed(q) THEN "storing" ELSE "committing", request[q],
                   loaded[q], lookup[q], Queued(r))
    BY <1>7, MoveEffect
  <2>2. r \in Runs
    BY <2>1, RunsAreNaturals DEF Follows
  <2>3. Queued(r) \in Answers \ {None, Refused} /\ loaded[q] # None
    BY <2>1, <2>2, AnswerRecords, LoadedColumns
  <2> HIDE DEF r
  <2>4. /\ pc'[q] \in Answering /\ request'[q] = request[q] /\ loaded'[q] # None
        /\ answer'[q] \notin {None, Refused} /\ answer'[q].run \in RunsOf(loaded'[q].id)
        /\ pc'[q] = "storing" => Keyed(q)'
    BY <2>1, <2>2, <2>3, AnswerRecords, LocationSets DEF Becomes, Keyed, Follows
  <2>5. Spending(q)
    BY <2>1, LocationSets DEF Spending, Serving, Writing
  <2> QED BY <1>0, <2>1, <2>4, <2>5, LocationSets DEF RequestSound, RunsOf
<1>8. CASE ResolveNothing(q)
  <2>1. request[q] # None
    BY <1>8, ResolveNothingEffect, UnderWay, LocationSets
  <2> QED BY <1>8, <2>1, ResolveNothingEffect, DoneSound DEF Becomes
<1>9. CASE ResolveExisting(q)
  <2>1. PICK a \in Answers \ {Refused} :
                /\ a.run # None => Exists(a.run)
                /\ \/ /\ pc[q] = "resolving" /\ Keyed(q)
                      /\ Becomes(q, "storing", request[q], loaded[q], lookup[q], a)
                   \/ Becomes(q, "replying", request[q], None, None, a)
    BY <1>9, ResolveEffect
  <2>2. request[q] # None /\ pc[q] \in Resolving /\ loaded[q] # None
    BY <1>0, <1>9, ResolveEffect, UnderWay, LocationSets DEF RequestSound
  <2>3. CASE Becomes(q, "replying", request[q], None, None, a)
    BY <2>2, <2>3, DoneSound DEF Becomes
  <2>4. CASE Keyed(q) /\ Becomes(q, "storing", request[q], loaded[q], lookup[q], a)
    <3>1. pc'[q] = "storing" /\ request'[q] = request[q] /\ loaded'[q] = loaded[q]
          /\ answer'[q] = a
      BY <2>4 DEF Becomes
    <3>2. runs' = runs
      BY <1>9 DEF ResolveExisting, database
    <3>3. ~Creates(q)'
      BY <2>1, <3>1, <3>2 DEF Creates, Exists
    <3>4. a # None /\ Keyed(q)'
      BY <2>4, <3>1, RowAssumption DEF Keyed
    <3> QED BY <2>1, <2>2, <3>1, <3>3, <3>4, LocationSets DEF RequestSound, Spending
  <2> QED BY <2>1, <2>3, <2>4
<1>10. CASE QueueRecovery(q)
  <2>1. PICK d \in Ids, r \in Runs :
             /\ pc[q] \in Resolving
             /\ Queues(q, d, r, documents[d])
             /\ \/ /\ pc[q] = "resolving" /\ Keyed(q)
                   /\ Becomes(q, "storing", request[q], None, lookup[q], Recovery(r))
                \/ Becomes(q, "replying", request[q], None, None, Recovery(r))
    BY <1>10, RecoveryEffect
  <2>2. request[q] # None
    BY <2>1, UnderWay, LocationSets
  <2>3. CASE Becomes(q, "replying", request[q], None, None, Recovery(r))
    BY <2>2, <2>3, DoneSound DEF Becomes
  <2>4. CASE Keyed(q) /\ Becomes(q, "storing", request[q], None, lookup[q], Recovery(r))
    <3>1. pc'[q] = "storing" /\ request'[q] = request[q] /\ loaded'[q] = None
          /\ answer'[q] = Recovery(r)
      BY <2>4 DEF Becomes
    <3>2. runs'[r] # "absent" /\ Recovery(r).run = r /\ Recovery(r) \notin {None, Refused}
      BY <2>1, AnswerRecords DEF Queues
    <3>3. ~Creates(q)' /\ Keyed(q)'
      BY <2>4, <3>1, <3>2 DEF Creates, Keyed
    <3> QED BY <2>2, <3>1, <3>2, <3>3, LocationSets DEF RequestSound, Spending
  <2> QED BY <2>1, <2>3, <2>4
<1>11. CASE LockDocument(q)
  <2>1. request[q] # None /\ pc[q] = "locking"
    BY <1>11, LockEffect, UnderWay
  <2>2. CASE Becomes(q, "replying", request[q], None, None, Refused)
    BY <2>1, <2>2, DoneSound DEF Becomes
  <2>3. ASSUME NEW d \in Ids, NEW r \in Runs, documents[d] # None, Follows(r, d),
               Becomes(q, IF Keyed(q) THEN "storing" ELSE "committing", request[q],
                       [id |-> d, row |-> documents[d]], lookup[q], Queued(r))
        PROVE  Goal
    <3>1. [id |-> d, row |-> documents[d]] # None
      BY <2>3, LoadedRecord, LoadedColumns DEF DatabaseType
    <3>2. Queued(r) \notin {None, Refused} /\ Queued(r).run = r
      BY AnswerRecords
    <3>3. /\ pc'[q] \in Answering /\ request'[q] = request[q] /\ loaded'[q] # None
          /\ answer'[q] \notin {None, Refused} /\ answer'[q].run = r /\ loaded'[q].id = d
          /\ pc'[q] = "storing" => Keyed(q)'
      BY <2>3, <3>1, <3>2, LocationSets DEF Becomes, Keyed
    <3>4. Spending(q)
      BY <2>1, LocationSets DEF Spending, Serving
    <3> QED BY <2>1, <2>3, <3>3, <3>4, LocationSets DEF RequestSound, Follows, RunsOf
  <2> QED BY <1>11, <2>2, <2>3, LockEffect
<1>12. CASE LookUpResponse(q)
  <2>1. /\ pc[q] = "storing" /\ pc'[q] = "committing" /\ request'[q] = request[q]
        /\ loaded'[q] = loaded[q] /\ answer'[q] = answer[q]
    BY <1>12, LookUpEffect DEF Becomes
  <2>2. runs' = runs
    BY <1>12 DEF LookUpResponse, database
  <2>3. Creates(q)' = Creates(q)
    BY <2>1, <2>2 DEF Creates
  <2> QED BY <1>0, <2>1, <2>3, LocationSets DEF RequestSound, Spending, Serving, Writing
<1>13. CASE Commit(q)
  <2>1. request[q] # None
    BY <1>13, CommitEffect, UnderWay
  <2> QED BY <1>13, <2>1, CommitEffect, DoneSound DEF Becomes
<1>14. CASE KeyReused(q)
  <2>1. request[q] # None
    BY <1>14, KeyReusedEffect, UnderWay, LocationSets
  <2> QED BY <1>14, <2>1, KeyReusedEffect, DoneSound DEF Becomes
<1>15. CASE Abort(q)
  BY <1>15, AbortEffect, DoneSound DEF Becomes
<1>16. CASE Reply(q)
  <2>1. pc[q] = "replying" /\ loaded[q] = None
    BY <1>0, <1>16, ReplyEffect, LocationSets DEF RequestSound
  <2> QED BY <1>16, <2>1, ReplyEffect, DoneSound DEF Becomes
<1> QED BY <1>1, <1>2, <1>3, <1>4, <1>5, <1>6, <1>7, <1>8, <1>9, <1>10, <1>11, <1>12,
           <1>13, <1>14, <1>15, <1>16 DEF Progress

LEMMA ReceiveSound ==
    ASSUME SessionType, RequestInv, NEW q \in Requests, NEW asked \in RequestType,
           Receive(q, asked)
    PROVE  RequestSound(q)'
<1>1. /\ pc[q] = "idle" /\ request'[q] = asked /\ loaded'[q] = loaded[q]
      /\ pc'[q] = IF asked.key # None THEN "received" ELSE Start(asked)
  BY ReceiveEffect DEF Becomes
<1>2. asked # None /\ asked.scope \in Scopes
  BY RequestColumns, RowAssumption
<1>3. /\ pc'[q] \in {"received", "finding", "locking"}
      /\ pc'[q] = "finding" => asked.scope = "create"
      /\ pc'[q] = "locking" => asked.scope = "reprocess"
  BY <1>1, <1>2 DEF Start, Scopes
<1>4. loaded[q] = None
  BY <1>1, LocationSets DEF RequestInv, RequestSound
<1> QED BY <1>1, <1>2, <1>3, <1>4, LocationSets DEF RequestSound

(* A run id is left for every request that may still queue a run.          *)
Room == \A d \in Ids : Cardinality(Spenders) <= Cardinality(Absent(d))

LEMMA SpendersFinite ==
    /\ Spenders \subseteq Requests /\ IsFiniteSet(Spenders) /\ Cardinality(Spenders) \in Nat
<1>1. Spenders \in SUBSET Requests /\ IsFiniteSet(Requests)
  BY FiniteAssumption DEF Spenders
<1>2. IsFiniteSet(Spenders)
  BY <1>1, FS_Subset
<1> QED BY <1>1, <1>2, FS_CardinalityType

LEMMA SpendersFiniteNext ==
    /\ Spenders' \subseteq Requests /\ IsFiniteSet(Spenders') /\ Cardinality(Spenders') \in Nat
<1>1. Spenders' \in SUBSET Requests /\ IsFiniteSet(Requests)
  BY FiniteAssumption DEF Spenders
<1>2. IsFiniteSet(Spenders')
  BY <1>1, FS_Subset
<1> QED BY <1>1, <1>2, FS_CardinalityType

LEMMA AbsentFiniteNext ==
    ASSUME NEW d \in Ids
    PROVE  IsFiniteSet(Absent(d)') /\ Cardinality(Absent(d)') \in Nat
<1>1. Absent(d)' \in SUBSET Runs /\ IsFiniteSet(Runs)
  BY FiniteAssumption DEF Absent, RunsOf
<1>2. IsFiniteSet(Absent(d)')
  BY <1>1, FS_Subset
<1> QED BY <1>2, FS_CardinalityType

LEMMA RoomKept ==
    ASSUME Room, \A p \in Requests : Spending(p)' => Spending(p),
           \A r \in Runs : ~Exists(r) => runs'[r] = "absent"
    PROVE  Room'
<1> SUFFICES ASSUME NEW d \in Ids
             PROVE  Cardinality(Spenders') <= Cardinality(Absent(d)')
  BY DEF Room
<1>1. Spenders' \in SUBSET Spenders
  BY DEF Spenders
<1>2. Cardinality(Spenders') <= Cardinality(Spenders)
  BY <1>1, SpendersFinite, FS_Subset
<1>3. Absent(d) \in SUBSET (Absent(d)')
  BY DEF Absent, RunsOf, Exists
<1>4. Cardinality(Absent(d)) <= Cardinality(Absent(d)')
  BY <1>3, AbsentFiniteNext, FS_Subset
<1>5. Cardinality(Spenders) <= Cardinality(Absent(d)) /\ Cardinality(Absent(d)) \in Nat
  BY RunsAreNaturals DEF Room
<1> QED BY <1>2, <1>4, <1>5, SpendersFinite, SpendersFiniteNext, AbsentFiniteNext

LEMMA RoomSpent ==
    ASSUME Room, NEW q \in Requests, Spending(q), ~Spending(q)',
           \A p \in Requests : Spending(p)' => Spending(p),
           NEW r \in Runs, \A s \in Runs \ {r} : ~Exists(s) => runs'[s] = "absent"
    PROVE  Room'
<1> SUFFICES ASSUME NEW d \in Ids
             PROVE  Cardinality(Spenders') <= Cardinality(Absent(d)')
  BY DEF Room
<1>1. Spenders' \in SUBSET (Spenders \ {q}) /\ q \in Spenders
  BY DEF Spenders
<1>2. /\ IsFiniteSet(Spenders \ {q})
      /\ Cardinality(Spenders \ {q}) = Cardinality(Spenders) - 1
  BY <1>1, SpendersFinite, FS_RemoveElement
<1>3. Cardinality(Spenders') <= Cardinality(Spenders) - 1
  BY <1>1, <1>2, FS_Subset
<1>4. Absent(d) \ {r} \in SUBSET (Absent(d)')
  BY DEF Absent, RunsOf, Exists
<1>5. Cardinality(Absent(d) \ {r}) <= Cardinality(Absent(d)')
  BY <1>4, AbsentFiniteNext, FS_Subset
<1>6. /\ Cardinality(Absent(d)) \in Nat /\ Cardinality(Spenders) <= Cardinality(Absent(d))
      /\ IsFiniteSet(Absent(d))
  BY RunsAreNaturals DEF Room
<1>7. Cardinality(Absent(d) \ {r}) \in {Cardinality(Absent(d)), Cardinality(Absent(d)) - 1}
  BY <1>6, FS_RemoveElement
<1> QED BY <1>3, <1>5, <1>6, <1>7, SpendersFinite, SpendersFiniteNext, AbsentFiniteNext

LEMMA RoomReceived ==
    ASSUME SessionType, NEW q \in Requests, NEW asked \in RequestType, Receive(q, asked),
           \A p \in Requests \ {q} : Spending(p)' => Spending(p)
    PROVE  Room'
<1> SUFFICES ASSUME NEW d \in Ids
             PROVE  Cardinality(Spenders') <= Cardinality(Absent(d)')
  BY DEF Room
<1> DEFINE Busy == {p \in Requests : pc[p] # "idle"}
<1>1. Busy \in SUBSET Requests /\ IsFiniteSet(Requests)
  BY FiniteAssumption
<1>2. IsFiniteSet(Busy) /\ Cardinality(Busy) \in Nat
  BY <1>1, FS_Subset, FS_CardinalityType
<1>3. Absent(d) = {r \in RunsOf(d) : runs[r] = "absent"} /\ Absent(d)' = Absent(d)
  BY DEF Absent, Exists, Receive, database
<1>4. Cardinality(Absent(d)) > 0 + Cardinality(Busy)
  BY <1>3 DEF Receive, RoomFor
<1>5. Spenders' \in SUBSET (Busy \cup {q})
  BY LocationSets DEF Spenders, Spending
<1> HIDE DEF Busy
<1>6. /\ IsFiniteSet(Busy \cup {q})
      /\ Cardinality(Busy \cup {q}) \in {Cardinality(Busy), Cardinality(Busy) + 1}
  BY <1>2, FS_AddElement
<1>7. Cardinality(Spenders') <= Cardinality(Busy \cup {q})
  BY <1>5, <1>6, FS_Subset
<1>8. Cardinality(Absent(d)') = Cardinality(Absent(d)) /\ Cardinality(Absent(d)) \in Nat
  BY <1>3, RunsAreNaturals
<1> QED BY <1>2, <1>4, <1>6, <1>7, <1>8, SpendersFiniteNext

LEMMA RequestStepInv ==
    ASSUME TypeOK, RequestInv, NEW q \in Requests, RequestStep(q)
    PROVE  RequestInv'
<1>0. SessionType /\ DatabaseType /\ OnlyFor(q) /\ RunsKept /\ Room
  BY TypeParts, RequestStepType DEF RequestInv, Room
<1>1. \A p \in Requests \ {q} : RequestSound(p)' /\ (Spending(p)' => Spending(p))
  BY <1>0, OthersSound DEF OnlyFor
<1>2. ASSUME NEW asked \in RequestType, Receive(q, asked)
      PROVE  RequestInv'
  <2>1. \A p \in Requests : RequestSound(p)'
    BY <1>0, <1>1, <1>2, ReceiveSound
  <2>2. Room'
    BY <1>0, <1>1, <1>2, RoomReceived
  <2>3. UNCHANGED <<documents, runs>>
    BY <1>2 DEF Receive, database
  <2> QED BY <2>1, <2>2, <2>3 DEF RequestInv, Room, NoOrphans
<1>3. CASE Progress(q) \/ Abort(q) \/ Reply(q)
  <2>1. \A p \in Requests : RequestSound(p)' /\ (Spending(p)' => Spending(p))
    BY <1>0, <1>1, <1>3, StepSound
  <2>2. ASSUME NEW d, NEW r, NEW row, Queues(q, d, r, row), DocumentOf[r] = d,
               Spending(q), ~Spending(q)'
        PROVE  Room' /\ NoOrphans'
    <3>1. r \in Runs /\ \A s \in Runs \ {r} : ~Exists(s) => runs'[s] = "absent"
      BY <2>2 DEF Queues, Exists
    <3>2. Room'
      BY <1>0, <2>1, <2>2, <3>1, RoomSpent
    <3>3. NoOrphans'
      BY <2>2, DocumentColumns, DocumentOfIdAssumption DEF RequestInv, NoOrphans, Queues
    <3> QED BY <3>2, <3>3
  <2>3. ASSUME QueueRecovery(q)
        PROVE  Room' /\ NoOrphans'
    <3>1. PICK d \in Ids, r \in Runs :
               /\ pc[q] \in Resolving /\ Queues(q, d, r, documents[d]) /\ DocumentOf[r] = d
               /\ \/ Becomes(q, "storing", request[q], None, lookup[q], Recovery(r))
                  \/ Becomes(q, "replying", request[q], None, None, Recovery(r))
      BY <1>0, <2>3, RecoveryEffect
    <3>2. runs'[r] # "absent" /\ Recovery(r).run = r
      BY <3>1, AnswerRecords DEF Queues
    <3>3. pc'[q] \in {"storing", "replying"} /\ answer'[q] = Recovery(r)
      BY <3>1 DEF Becomes
    <3>4. Spending(q) /\ ~Spending(q)'
      BY <3>1, <3>2, <3>3, LocationSets DEF Spending, Serving, Creates
    <3> QED BY <2>2, <3>1, <3>4
  <2>4. ASSUME Commit(q) /\ Creates(q)
        PROVE  Room' /\ NoOrphans'
    <3>1. Spending(q)
      BY <1>0, <2>4, Committing, CommitEffect, LocationSets
    <3>2. /\ ~Spending(q)' /\ Queues(q, loaded[q].id, answer[q].run, loaded[q].row)
          /\ DocumentOf[answer[q].run] = loaded[q].id
      BY <1>0, <2>4, CommitEffect, LocationSets DEF Becomes, Spending
    <3> QED BY <2>2, <3>1, <3>2
  <2>5. ASSUME ~QueueRecovery(q) /\ ~(Commit(q) /\ Creates(q))
        PROVE  Room' /\ NoOrphans'
    <3>1. UNCHANGED <<documents, runs>>
      BY <1>0, <1>3, <2>5, QuietSteps, CommitEffect DEF Rest, RequestStep
    <3> QED BY <1>0, <2>1, <3>1, RoomKept DEF Exists, RequestInv, NoOrphans
  <2>6. Room' /\ NoOrphans'
    BY <2>3, <2>4, <2>5
  <2> QED BY <2>1, <2>6 DEF RequestInv, Room
<1> QED BY <1>2, <1>3 DEF RequestStep

-------------------------------------------------------------------------------
(* The steps of the worker                                                 *)

LEMMA WorkerEffect ==
    ASSUME DatabaseType, NEW r \in Runs, RunSucceeds(r) \/ RunFails(r)
    PROVE  /\ UNCHANGED <<sources, responses, origin, pc, session>>
           /\ runs[r] = "inflight"
           /\ runs'[r] \in {"completed", "failed"}
           /\ \A s \in Runs \ {r} : runs'[s] = runs[s]
           /\ runs' \in [Runs -> RunStatuses]
BY DEF RunSucceeds, RunFails, InFlight, DatabaseType, RunStatuses

LEMMA SucceedEffect ==
    ASSUME DatabaseType, NEW r \in Runs, RunSucceeds(r), documents[DocumentOf[r]] # None
    PROVE  LET d == DocumentOf[r]
           IN  /\ runs[r] = "inflight" /\ runs'[r] = "completed" /\ ~Locked(d)
               /\ d \in Ids /\ documents'[d] \in DocumentRow
               /\ documents'[d].sha256 = documents[d].sha256
               /\ documents'[d].active_run_id = r /\ documents'[d].latest_run_id = r
               /\ \A e \in Ids \ {d} : documents'[e] = documents[e]
               /\ documents' \in [Ids -> DocumentRow \cup {None}]
<1> DEFINE d == DocumentOf[r]
           new == [documents[d] EXCEPT !.active_run_id = r, !.latest_run_id = r]
<1>1. d \in Ids /\ documents[d] \in DocumentRow
  BY DocumentOfIdAssumption DEF DatabaseType
<1>2. /\ new \in DocumentRow /\ new.active_run_id = r /\ new.latest_run_id = r
      /\ new.sha256 = documents[d].sha256
  BY <1>1 DEF DocumentRow
<1>3. documents' = [documents EXCEPT ![d] = new]
  BY <1>1 DEF RunSucceeds, DatabaseType
<1>4. runs[r] = "inflight" /\ runs'[r] = "completed" /\ ~Locked(d)
  BY DEF RunSucceeds, InFlight, DatabaseType
<1> HIDE DEF new
<1>5. documents'[d] = new /\ \A e \in Ids \ {d} : documents'[e] = documents[e]
  BY <1>1, <1>3 DEF DatabaseType
<1>6. documents' \in [Ids -> DocumentRow \cup {None}]
  BY <1>1, <1>2, <1>3 DEF DatabaseType
<1> QED BY <1>1, <1>2, <1>4, <1>5, <1>6

LEMMA SessionsKept ==
    ASSUME SessionType, DatabaseType', RequestInv, RunsKept, NoOrphans', UNCHANGED <<pc, session>>,
           \A r \in Runs : ~Exists(r) => runs'[r] = "absent"
    PROVE  SessionType' /\ RequestInv'
<1>1. \A p \in Requests : RequestSound(p)' /\ (Spending(p)' => Spending(p))
  BY OthersSound DEF session
<1>2. Room'
  BY <1>1, RoomKept DEF RequestInv, Room
<1>3. SessionType'
  BY DEF SessionType, session
<1> QED BY <1>1, <1>2, <1>3 DEF RequestInv, Room

LEMMA WorkerStepInv ==
    ASSUME TypeOK, RequestInv, WorkerStep
    PROVE  TypeOK' /\ RequestInv'
<1>1. PICK r \in Runs : RunSucceeds(r) \/ RunFails(r)
  BY DEF WorkerStep
<1>2. SessionType /\ DatabaseType /\ DocumentOf[r] \in Ids
  BY TypeParts, DocumentOfIdAssumption
<1>3. documents[DocumentOf[r]] # None
  BY <1>1, <1>2, WorkerEffect DEF RequestInv, NoOrphans
<1>4. /\ documents' \in [Ids -> DocumentRow \cup {None}]
      /\ \A d \in Ids : documents[d] # None => documents'[d] # None
  <2>1. CASE RunSucceeds(r)
    BY <1>2, <1>3, <2>1, SucceedEffect, DocumentColumns
  <2>2. CASE RunFails(r)
    BY <1>2, <2>2 DEF RunFails, DatabaseType
  <2> QED BY <1>1, <2>1, <2>2
<1>5. /\ UNCHANGED <<sources, responses, origin, pc, session>>
      /\ runs[r] = "inflight"
      /\ runs'[r] \in {"completed", "failed"}
      /\ \A s \in Runs \ {r} : runs'[s] = runs[s]
      /\ runs' \in [Runs -> RunStatuses]
  BY <1>1, <1>2, WorkerEffect
<1>6. DatabaseType' /\ RunsKept /\ \A s \in Runs : ~Exists(s) => runs'[s] = "absent"
  BY <1>2, <1>4, <1>5 DEF DatabaseType, RunsKept, Exists
<1>7. NoOrphans'
  BY <1>3, <1>4, <1>5, DocumentOfIdAssumption DEF RequestInv, NoOrphans
<1>8. SessionType' /\ RequestInv'
  BY <1>2, <1>5, <1>6, <1>7, SessionsKept
<1> QED BY <1>6, <1>8 DEF TypeOK, SessionType, DatabaseType

LEMMA RequestKeepsRuns ==
    ASSUME TypeOK, RequestInv, NEW q \in Requests, RequestStep(q)
    PROVE  \A r \in Runs : Exists(r) => runs'[r] = runs[r]
<1>1. SessionType /\ DatabaseType
  BY TypeParts
<1>2. ASSUME NEW d, NEW r, NEW row, Queues(q, d, r, row)
      PROVE  \A s \in Runs : Exists(s) => runs'[s] = runs[s]
  BY <1>2 DEF Queues
<1>3. CASE QueueRecovery(q)
  BY <1>1, <1>2, <1>3, RecoveryEffect
<1>4. CASE Commit(q)
  BY <1>1, <1>2, <1>4, CommitEffect
<1>5. CASE ~QueueRecovery(q) /\ ~Commit(q)
  BY <1>5, QuietSteps DEF Rest
<1> QED BY <1>3, <1>4, <1>5

(* What a request takes hold of was nobody else's.                         *)
Modest(q) ==
    /\ loaded'[q] # None =>
         \/ loaded'[q] = loaded[q]
         \/ documents[loaded'[q].id] # None
         \/ Unused(loaded'[q].id)
    /\ pc'[q] \in Writing /\ loaded'[q] # None =>
         \/ pc[q] \in Writing /\ loaded'[q] = loaded[q]
         \/ ~Locked(loaded'[q].id)
    /\ pc'[q] \in Writing /\ loaded'[q] # None /\ documents[loaded'[q].id] = None =>
         \/ Inserting(q) /\ loaded'[q] = loaded[q]
         \/ IndexFree(q) /\ loaded'[q].row.sha256 = request[q].target

SourcesKept(q) ==
    \A d \in sources : d \in sources' \/ (Inserting(q) /\ d = loaded[q].id)

LEMMA StepKeepsSources ==
    ASSUME NEW q \in Requests, RequestStep(q)
    PROVE  SourcesKept(q)
<1>1. CASE QueueRecovery(q) \/ Commit(q)
  BY <1>1 DEF QueueRecovery, Commit, SourcesKept
<1>2. CASE MoveSource(q)
  BY <1>2 DEF MoveSource, SourcesKept
<1>3. CASE ~QueueRecovery(q) /\ ~Commit(q) /\ ~MoveSource(q)
  BY <1>3, QuietSteps DEF Discard, SourcesKept
<1> QED BY <1>1, <1>2, <1>3

LEMMA StepKinds ==
    ASSUME Next
    PROVE  (\E q \in Requests : RequestStep(q)) \/ WorkerStep
BY DEF Next, RequestStep

LEMMA BaseInit == Init => TypeOK /\ RequestInv
<1> SUFFICES ASSUME Init PROVE TypeOK /\ RequestInv
  OBVIOUS
<1>1. TypeOK
  BY DEF Init, TypeOK, RunStatuses, Locations
<1>2. \A q \in Requests : RequestSound(q) /\ ~Spending(q)
  BY LocationSets DEF Init, RequestSound, Spending
<1>3. Cardinality(Spenders) = 0
  BY <1>2, FS_EmptySet DEF Spenders
<1> QED BY <1>1, <1>2, <1>3, RunsAreNaturals DEF RequestInv, NoOrphans, Init

LEMMA BaseStutter ==
    ASSUME TypeOK, RequestInv, UNCHANGED vars
    PROVE  TypeOK' /\ RequestInv'
<1> USE DEF vars, database, session
<1>1. TypeOK'
  BY DEF TypeOK
<1>2. \A q \in Requests : RequestSound(q)' = RequestSound(q)
  BY DEF RequestSound, Keyed, Creates
<1>3. Spenders' = Spenders /\ \A d \in Ids : Absent(d)' = Absent(d)
  BY DEF Spenders, Spending, Creates, Absent, Exists
<1>4. NoOrphans' = NoOrphans
  BY DEF NoOrphans
<1> QED BY <1>1, <1>2, <1>3, <1>4 DEF RequestInv

LEMMA BaseNext ==
    ASSUME TypeOK, RequestInv, [Next]_vars
    PROVE  TypeOK' /\ RequestInv'
BY StepKinds, RequestStepType, RequestStepInv, WorkerStepInv, BaseStutter

(* Every variable of DocumentIngest has its type, and there is a run id    *)
(* for whoever needs one, in any deployment.                               *)
THEOREM RequestTypeCorrect == Spec => []TypeOK
<1>1. Init => TypeOK /\ RequestInv
  BY BaseInit
<1>2. TypeOK /\ RequestInv /\ [Next]_vars => (TypeOK /\ RequestInv)'
  BY BaseNext
<1> QED BY <1>1, <1>2, PTL DEF Spec

-------------------------------------------------------------------------------
(* The limit on runs in flight                                             *)

Counted == {r \in Runs : InFlight(r) /\ ~origin[r].recovery}

Awaited == {q \in Requests : Admitted(q)}

LEMMA CountsFinite ==
    /\ Cardinality(Counted) \in Nat /\ IsFiniteSet(Counted)
    /\ Cardinality(Awaited) \in Nat /\ IsFiniteSet(Awaited)
    /\ Cardinality(Awaited) <= Cardinality(Requests) /\ Cardinality(Requests) \in Nat
<1>1. Counted \in SUBSET Runs /\ Awaited \in SUBSET Requests
  BY DEF Counted, Awaited
<1>2. IsFiniteSet(Runs) /\ IsFiniteSet(Requests)
  BY FiniteAssumption
<1> QED BY <1>1, <1>2, FS_Subset, FS_CardinalityType

LEMMA CountsFiniteNext ==
    /\ Cardinality(Counted') \in Nat /\ IsFiniteSet(Counted')
    /\ Cardinality(Awaited') \in Nat /\ IsFiniteSet(Awaited')
    /\ Cardinality(Awaited') <= Cardinality(Requests) /\ Cardinality(Requests) \in Nat
<1>1. Counted' \in SUBSET Runs /\ Awaited' \in SUBSET Requests
  BY DEF Counted, Awaited
<1>2. IsFiniteSet(Runs) /\ IsFiniteSet(Requests)
  BY FiniteAssumption
<1> QED BY <1>1, <1>2, FS_Subset, FS_CardinalityType

LEMMA CapacityShrinks ==
    ASSUME WithinCapacity, Counted' \subseteq Counted, Awaited' \subseteq Awaited
    PROVE  WithinCapacity'
<1>1. Counted' \in SUBSET Counted /\ Awaited' \in SUBSET Awaited
  OBVIOUS
<1>2. /\ Cardinality(Counted') <= Cardinality(Counted)
      /\ Cardinality(Awaited') <= Cardinality(Awaited)
  BY <1>1, CountsFinite, FS_Subset
<1> QED BY <1>2, CountsFinite, CountsFiniteNext, LimitAssumption
        DEF WithinCapacity, Counted, Awaited

(* An admitted request queues its run.                                     *)
LEMMA CapacityMoves ==
    ASSUME WithinCapacity, NEW r \in Runs, Counted' \subseteq Counted \cup {r},
           NEW q \in Awaited, Awaited' \subseteq Awaited \ {q}
    PROVE  WithinCapacity'
<1>1. Counted' \in SUBSET (Counted \cup {r}) /\ Awaited' \in SUBSET (Awaited \ {q})
  OBVIOUS
<1>2. /\ IsFiniteSet(Counted \cup {r})
      /\ Cardinality(Counted \cup {r}) \in {Cardinality(Counted), Cardinality(Counted) + 1}
  BY CountsFinite, FS_AddElement
<1>3. /\ IsFiniteSet(Awaited \ {q})
      /\ Cardinality(Awaited \ {q}) = Cardinality(Awaited) - 1
  BY CountsFinite, FS_RemoveElement
<1>4. /\ Cardinality(Counted') <= Cardinality(Counted \cup {r})
      /\ Cardinality(Awaited') <= Cardinality(Awaited \ {q})
  BY <1>1, <1>2, <1>3, FS_Subset
<1> QED BY <1>2, <1>3, <1>4, CountsFinite, CountsFiniteNext, LimitAssumption
        DEF WithinCapacity, Counted, Awaited

(* A request is admitted: however many there were, they are no more than   *)
(* all requests.                                                           *)
LEMMA CapacityEntered ==
    ASSUME ~AtCapacity, UNCHANGED <<runs, origin>>
    PROVE  WithinCapacity'
<1> DEFINE Flying == {r \in Runs : InFlight(r)}
<1>1. Flying \in SUBSET Runs /\ IsFiniteSet(Runs)
  BY FiniteAssumption
<1>2. IsFiniteSet(Flying) /\ Cardinality(Flying) \in Nat
  BY <1>1, FS_Subset, FS_CardinalityType
<1>3. Counted' \in SUBSET Flying
  BY DEF Counted, InFlight
<1>4. Cardinality(Counted') <= Cardinality(Flying)
  BY <1>2, <1>3, FS_Subset
<1>5. InflightLimit > 0 => ~(Cardinality(Flying) >= InflightLimit)
  BY DEF AtCapacity
<1> HIDE DEF Flying
<1> QED BY <1>2, <1>4, <1>5, CountsFiniteNext, LimitAssumption
        DEF WithinCapacity, Counted, Awaited

LEMMA AwaitedOthers ==
    ASSUME SessionType, RequestInv, RunsKept, NEW p \in Requests,
           pc'[p] = pc[p], answer'[p] = answer[p], Admitted(p)'
    PROVE  Admitted(p)
<1>1. ASSUME pc[p] \in Answering PROVE answer[p].run \in Runs \cup {None}
  BY <1>1, Committing, AnswerColumns
<1>2. ASSUME pc[p] \in Answering, Creates(p)' PROVE Creates(p)
  BY <1>1, <1>2 DEF Creates, RunsKept, Exists
<1> QED BY <1>2, LocationSets DEF Admitted

LEMMA AdmittedStep ==
    ASSUME TypeOK, RequestInv, NEW q \in Requests, RequestStep(q), Admitted(q)'
    PROVE  Admitted(q) \/ ((Admit(q) \/ LockDocument(q)) /\ ~AtCapacity)
<1> DEFINE Goal == Admitted(q) \/ ((Admit(q) \/ LockDocument(q)) /\ ~AtCapacity)
<1>0. SessionType /\ DatabaseType
  BY TypeParts
<1>1. pc'[q] \in {"inserting", "moving", "storing", "committing"}
      /\ (pc'[q] \in Answering => Creates(q)')
  BY LocationSets DEF Admitted
<1>2. ASSUME NEW asked \in RequestType, Receive(q, asked) PROVE Goal
  BY <1>0, <1>1, <1>2, ReceiveEffect DEF Becomes, Start
<1>3. CASE Replay(q)
  BY <1>0, <1>1, <1>3, ReplayEffect DEF Becomes
<1>4. CASE StartOver(q)
  BY <1>0, <1>1, <1>4, StartOverEffect DEF Becomes, Start
<1>5. CASE FindDocument(q) \/ InsertConflicts(q)
  BY <1>0, <1>1, <1>5, FindEffect, LocationSets DEF Becomes
<1>6. CASE FindNothing(q)
  BY <1>0, <1>1, <1>6, FindNothingEffect DEF Becomes
<1>7. CASE Admit(q)
  BY <1>0, <1>1, <1>7, AdmitEffect DEF Becomes, Admit, Return, Goto, SessionType
<1>8. CASE InsertDocument(q)
  BY <1>0, <1>8, InsertEffect DEF Admitted
<1>9. CASE MoveSource(q)
  BY <1>9 DEF Admitted, MoveSource
<1>10. CASE ResolveNothing(q)
  BY <1>0, <1>1, <1>10, ResolveNothingEffect DEF Becomes
<1>11. CASE ResolveExisting(q)
  <2>1. PICK a \in Answers \ {Refused} :
           /\ a.run # None => Exists(a.run)
           /\ pc'[q] \in {"storing", "replying"} /\ answer'[q] = a
    BY <1>0, <1>11, ResolveEffect DEF Becomes
  <2>2. runs' = runs
    BY <1>11 DEF ResolveExisting, database
  <2> QED BY <1>1, <2>1, <2>2, LocationSets DEF Creates, Exists
<1>12. CASE QueueRecovery(q)
  <2>1. PICK d \in Ids, r \in Runs :
           /\ Queues(q, d, r, documents[d])
           /\ pc'[q] \in {"storing", "replying"} /\ answer'[q] = Recovery(r)
    BY <1>0, <1>12, RecoveryEffect DEF Becomes
  <2>2. runs'[r] # "absent" /\ Recovery(r).run = r
    BY <2>1, AnswerRecords DEF Queues
  <2> QED BY <1>1, <2>1, <2>2, LocationSets DEF Creates
<1>13. CASE LockDocument(q)
  BY <1>0, <1>1, <1>13 DEF LockDocument, Return, Goto, SessionType
<1>14. CASE LookUpResponse(q)
  <2>1. pc[q] = "storing" /\ pc'[q] = "committing" /\ answer'[q] = answer[q]
    BY <1>0, <1>14, LookUpEffect DEF Becomes
  <2>2. runs' = runs
    BY <1>14 DEF LookUpResponse, database
  <2> QED BY <1>1, <2>1, <2>2, LocationSets DEF Admitted, Creates
<1>15. CASE Commit(q)
  BY <1>0, <1>1, <1>15, CommitEffect DEF Becomes
<1>16. CASE KeyReused(q)
  BY <1>0, <1>1, <1>16, KeyReusedEffect DEF Becomes
<1>17. CASE Abort(q)
  BY <1>0, <1>1, <1>17, AbortEffect DEF Becomes
<1>18. CASE Reply(q)
  BY <1>0, <1>1, <1>18, ReplyEffect DEF Becomes
<1> QED BY <1>2, <1>3, <1>4, <1>5, <1>6, <1>7, <1>8, <1>9, <1>10, <1>11, <1>12, <1>13,
           <1>14, <1>15, <1>16, <1>17, <1>18 DEF RequestStep, Progress

LEMMA CapacityRequest ==
    ASSUME TypeOK, RequestInv, WithinCapacity, NEW q \in Requests, RequestStep(q)
    PROVE  WithinCapacity'
<1>0. SessionType /\ DatabaseType /\ OnlyFor(q) /\ RunsKept
  BY TypeParts, RequestStepType
<1>1. \A p \in Requests \ {q} : Admitted(p)' => Admitted(p)
  BY <1>0, AwaitedOthers DEF OnlyFor
<1>2. CASE (Admit(q) \/ LockDocument(q)) /\ ~AtCapacity
  <2>1. UNCHANGED <<runs, origin>>
    BY <1>2 DEF Admit, LockDocument, database
  <2> QED BY <1>2, <2>1, CapacityEntered
<1>3. CASE ~((Admit(q) \/ LockDocument(q)) /\ ~AtCapacity)
  <2>1. Awaited' \subseteq Awaited
    BY <1>1, <1>3, AdmittedStep DEF Awaited
  <2>2. CASE QueueRecovery(q)
    <3>1. PICK d \in Ids, r \in Runs :
             pc[q] \in Resolving /\ Queues(q, d, r, documents[d])
      BY <1>0, <2>2, RecoveryEffect
    <3>2. Counted' \subseteq Counted
      BY <3>1 DEF Queues, Counted, InFlight
    <3> QED BY <2>1, <3>2, CapacityShrinks
  <2>3. CASE Commit(q) /\ Creates(q)
    <3>1. /\ pc[q] = "committing" /\ pc'[q] = "replying"
          /\ Queues(q, loaded[q].id, answer[q].run, loaded[q].row)
      BY <1>0, <2>3, CommitEffect DEF Becomes
    <3>2. PICK r \in Runs : r = answer[q].run
      BY <3>1 DEF Queues
    <3>3. Counted' \subseteq Counted \cup {r}
      BY <3>1, <3>2 DEF Queues, Counted, InFlight
    <3>4. q \in Awaited /\ q \notin Awaited'
      BY <2>3, <3>1 DEF Awaited, Admitted
    <3>5. Awaited' \subseteq Awaited \ {q}
      BY <2>1, <3>4
    <3> QED BY <3>3, <3>4, <3>5, CapacityMoves
  <2>4. CASE ~QueueRecovery(q) /\ ~(Commit(q) /\ Creates(q))
    <3>1. UNCHANGED <<runs, origin>>
      BY <1>0, <2>4, QuietSteps, CommitEffect DEF Rest
    <3>2. Counted' \subseteq Counted
      BY <3>1 DEF Counted, InFlight
    <3> QED BY <2>1, <3>2, CapacityShrinks
  <2> QED BY <2>2, <2>3, <2>4
<1> QED BY <1>2, <1>3

(* Nobody but requests queues runs.                                        *)
LEMMA CapacityKept ==
    ASSUME SessionType, RequestInv, WithinCapacity, UNCHANGED <<origin, pc, session>>, RunsKept,
           \A r \in Runs : runs'[r] = "inflight" => runs[r] = "inflight"
    PROVE  WithinCapacity'
<1>1. Counted' \subseteq Counted
  BY DEF Counted, InFlight
<1>2. Awaited' \subseteq Awaited
  BY AwaitedOthers DEF Awaited, session
<1> QED BY <1>1, <1>2, CapacityShrinks

LEMMA CapacityEnds ==
    ASSUME TypeOK, RequestInv, WithinCapacity, WorkerStep \/ UNCHANGED vars
    PROVE  WithinCapacity'
<1>0. SessionType /\ DatabaseType
  BY TypeParts
<1>1. CASE UNCHANGED vars
  BY <1>0, <1>1, CapacityKept DEF vars, database, RunsKept, Exists
<1>2. ASSUME NEW r \in Runs, RunSucceeds(r) \/ RunFails(r)
      PROVE  WithinCapacity'
  <2>1. /\ UNCHANGED <<origin, pc, session>> /\ RunsKept
        /\ \A s \in Runs : runs'[s] = "inflight" => runs[s] = "inflight"
    BY <1>0, <1>2, WorkerEffect DEF RunsKept, Exists
  <2> QED BY <1>0, <2>1, CapacityKept
<1> QED BY <1>1, <1>2 DEF WorkerStep

LEMMA CapacityInit == Init => WithinCapacity
<1> SUFFICES ASSUME Init PROVE WithinCapacity
  OBVIOUS
<1>1. Counted = {} /\ Awaited = {}
  BY DEF Init, Counted, Awaited, InFlight, Admitted
<1>2. Cardinality(Counted) = 0 /\ Cardinality(Awaited) = 0
  BY <1>1, FS_EmptySet
<1> QED BY <1>2, CountsFinite, LimitAssumption DEF WithinCapacity, Counted, Awaited

(* The limit on runs in flight may be exceeded by the requests that were   *)
(* counted together, and by no more, however many there are and whatever   *)
(* the limit: _enforce_remote_document_run_backpressure.                   *)
THEOREM CapacityCorrect == Spec => []WithinCapacity
<1> DEFINE Inv == TypeOK /\ RequestInv /\ WithinCapacity
<1>1. Init => Inv
  BY BaseInit, CapacityInit
<1>2. Inv /\ [Next]_vars => Inv'
  BY BaseNext, StepKinds, CapacityRequest, CapacityEnds
<1>3. Inv => WithinCapacity
  OBVIOUS
<1> QED BY <1>1, <1>2, <1>3, PTL DEF Spec

===============================================================================
