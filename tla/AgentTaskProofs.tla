--------------------------- MODULE AgentTaskProofs ----------------------------
(***************************************************************************)
(* Proofs about AgentTasks, for any tasks, dependencies, workers, requests *)
(* and attempt limit: what holds in every deployment, however late leases, *)
(* sweeps and decisions are; and that the verdicts of operators last where *)
(* decisions and unblock passes do not overlap (DecisionsPrompt).          *)
(***************************************************************************)
EXTENDS AgentTaskInvariant, SequenceTheorems, TLAPS

-------------------------------------------------------------------------------
(* Rows                                                                    *)

LEMMA FlushTaskType ==
    ASSUME NEW row \in TaskRow, NEW old, NEW new \in TaskRow
    PROVE  FlushTask(row, old, new) \in TaskRow
BY DEF FlushTask, Flush, TaskRow

LEMMA StatusesListed ==
    {"absent", "blocked", "awaiting_approval", "queued", "processing",
     "retry_wait", "completed", "failed", "rejected"} = Statuses
BY DEF Statuses, Ended

LEMMA RequeuedType ==
    ASSUME NEW row \in TaskRow, NEW old \in TaskRow
    PROVE  Requeued(row, old) \in TaskRow
<1> DEFINE new(s) == [old EXCEPT !.locked_by = None, !.last_heartbeat_at = None,
                                 !.status = s]
<1>1. new("failed") \in TaskRow /\ new("retry_wait") \in TaskRow
  BY StatusesListed DEF TaskRow
<1>2. FlushTask(row, old, new("failed")) \in TaskRow
      /\ FlushTask(row, old, new("retry_wait")) \in TaskRow
  BY <1>1, FlushTaskType
<1>3. /\ Requeued(row, old) =
           IF old.attempts >= MaxAttempts
           THEN [FlushTask(row, old, new("failed")) EXCEPT !.checkpointed = old.checkpointed]
           ELSE [FlushTask(row, old, new("retry_wait")) EXCEPT
                   !.next_attempt_at = "due", !.checkpointed = old.checkpointed]
  BY <1>2 DEF Requeued, TaskRow
<1> HIDE DEF new
<1> QED BY <1>2, <1>3 DEF TaskRow

LEMMA FailedType ==
    ASSUME NEW row \in TaskRow, NEW old \in TaskRow, NEW kind
    PROVE  Failed(row, old, kind) \in TaskRow
<1> DEFINE new(s) == [old EXCEPT !.status = s, !.locked_by = None,
                                 !.last_heartbeat_at = None]
<1>1. new("failed") \in TaskRow /\ new("retry_wait") \in TaskRow
  BY StatusesListed DEF TaskRow
<1>2. FlushTask(row, old, new("failed")) \in TaskRow
      /\ FlushTask(row, old, new("retry_wait")) \in TaskRow
  BY <1>1, FlushTaskType
<1>3. /\ Failed(row, old, kind) =
           IF kind = "retryable" /\ old.attempts < MaxAttempts
           THEN [FlushTask(row, old, new("retry_wait")) EXCEPT
                   !.next_attempt_at = "later", !.checkpointed = old.checkpointed]
           ELSE [FlushTask(row, old, new("failed")) EXCEPT !.checkpointed = old.checkpointed]
  BY <1>2 DEF Failed, TaskRow
<1> HIDE DEF new
<1> QED BY <1>2, <1>3 DEF TaskRow

LEMMA DecidedType ==
    ASSUME NEW row \in TaskRow, NEW old \in TaskRow,
           NEW status \in {"blocked", "queued", "rejected"}
    PROVE  Decided(row, old, status) \in TaskRow
<1>1. /\ [old EXCEPT !.status = "rejected", !.rejected_at = TRUE,
                     !.next_attempt_at = None] \in TaskRow
      /\ [old EXCEPT !.status = status, !.approved_at = TRUE] \in TaskRow
  BY StatusesListed DEF TaskRow
<1> QED BY <1>1, FlushTaskType DEF Decided

(* The attempts of a task: opened, closed and abandoned, never reordered.  *)
LEMMA EndedAttemptsType ==
    ASSUME NEW attempts \in Seq(AttemptStatuses), NEW k, NEW s \in AttemptStatuses
    PROVE  [n \in DOMAIN attempts |-> IF n = k THEN s ELSE attempts[n]]
             \in Seq(AttemptStatuses)
<1>1. /\ DOMAIN attempts = 1 .. Len(attempts) /\ Len(attempts) \in Nat
      /\ \A n \in 1 .. Len(attempts) : attempts[n] \in AttemptStatuses
  BY ElementOfSeq
<1>2. [n \in 1 .. Len(attempts) |-> IF n = k THEN s ELSE attempts[n]]
        \in [1 .. Len(attempts) -> AttemptStatuses]
  BY <1>1
<1> QED BY <1>1, <1>2, SeqDef

LEMMA AbandonedType ==
    ASSUME NEW attempts \in Seq(AttemptStatuses), NEW k
    PROVE  Abandoned(attempts, k) \in Seq(AttemptStatuses)
<1>1. CASE k \in DOMAIN attempts /\ attempts[k] = "processing"
  <2>1. DOMAIN attempts = 1 .. Len(attempts)
    OBVIOUS
  <2>2. [attempts EXCEPT ![k] = "abandoned"] \in Seq(AttemptStatuses)
    BY <1>1, <2>1, ExceptSeq DEF AttemptStatuses
  <2> QED BY <1>1, <2>2 DEF Abandoned
<1>2. CASE ~(k \in DOMAIN attempts /\ attempts[k] = "processing")
  BY <1>2 DEF Abandoned
<1> QED BY <1>1, <1>2

-------------------------------------------------------------------------------
(* Type correctness                                                        *)

(* What a session has loaded when it needs it.                             *)
WorkerOK(w) ==
    /\ pc[w] \in Working => job[w] \in Tasks
    /\ pc[w] \in {"completing", "failing"} => loaded[w][job[w]] \in TaskRow

OperatorOK(o) ==
    decision[o] # None => job[o] \in Tasks /\ loaded[o][job[o]] \in TaskRow

SessionsOK ==
    /\ \A w \in Workers : WorkerOK(w)
    /\ \A o \in Operators : OperatorOK(o)

TypeInv == TypeOK /\ SessionsOK

DatabaseType ==
    /\ tasks \in [Tasks -> TaskRow]
    /\ ledger \in [Tasks -> Seq(AttemptStatuses)]
    /\ effects \in [Tasks -> Nat]

SessionType ==
    /\ pc \in [Workers -> Locations]
    /\ error \in [Workers -> {None, "retryable", "fatal"}]
    /\ decision \in [Operators -> {None, "blocked", "queued", "rejected"}]
    /\ job \in [Sessions -> Tasks \cup {None}]
    /\ loaded \in [Sessions -> [Tasks -> TaskRow \cup {None}]]

LEMMA TypeParts == TypeOK <=> DatabaseType /\ SessionType
BY DEF TypeOK, DatabaseType, SessionType

LEMMA LocationsDistinct ==
    /\ {"polling", "unblocking", "sweeping", "down"} \subseteq Locations
    /\ Working \subseteq Locations
    /\ Working \cap {"polling", "unblocking", "sweeping", "down"} = {}
    /\ "failing" \in Working /\ "completing" \in Working
BY DEF Locations, Working

LEMMA TypeInit == Init => TypeInv
<1> SUFFICES ASSUME Init PROVE TypeInv
  OBVIOUS
<1>1. absentTask \in TaskRow
  BY StatusesListed DEF absentTask, TaskRow
<1>2. DatabaseType
  BY <1>1, EmptySeq DEF Init, DatabaseType
<1>3. SessionType
  BY LocationsDistinct DEF Init, SessionType, Nothing
<1>4. SessionsOK
  BY LocationsDistinct DEF Init, SessionsOK, WorkerOK, OperatorOK
<1> QED BY <1>2, <1>3, <1>4, TypeParts DEF TypeInv

(* Steps that only write a row.                                            *)
LEMMA TypeRowWritten ==
    ASSUME TypeInv, NEW t \in Tasks, NEW row \in TaskRow, SetTask(t, row),
           UNCHANGED <<ledger, effects, error, decision, job, loaded>>
    PROVE  DatabaseType' /\ (UNCHANGED pc => TypeInv')
<1>1. DatabaseType'
  BY TypeParts DEF TypeInv, DatabaseType, SetTask
<1>2. ASSUME UNCHANGED pc PROVE SessionType' /\ SessionsOK'
  BY <1>2, TypeParts DEF TypeInv, SessionType, SessionsOK, WorkerOK, OperatorOK
<1> QED BY <1>1, <1>2, TypeParts DEF TypeInv, TypeOK, DatabaseType, SessionType

(* A session that is closed.                                               *)
LEMMA TypeLeave ==
    ASSUME TypeInv, NEW w \in Workers, NEW location \in {"polling", "down"},
           Leave(w, location), UNCHANGED decision
    PROVE  SessionType' /\ SessionsOK'
<1>1. w \in Sessions /\ Nothing \in [Tasks -> TaskRow \cup {None}]
  BY DEF Sessions, Nothing
<1>2. SessionType'
  BY <1>1, LocationsDistinct, TypeParts
  DEF TypeInv, SessionType, Leave, Goto, Close
<1>3. ASSUME NEW v \in Workers PROVE WorkerOK(v)'
  BY <1>1, LocationsDistinct, TypeParts
  DEF TypeInv, SessionType, SessionsOK, WorkerOK, Leave, Goto, Close, Sessions
<1>4. ASSUME NEW o \in Operators PROVE OperatorOK(o)'
  BY <1>1, SessionsAssumption, TypeParts
  DEF TypeInv, SessionType, SessionsOK, OperatorOK, Leave, Close, Sessions
<1> QED BY <1>2, <1>3, <1>4 DEF SessionsOK

(* A worker that moves on with the task it has.                            *)
LEMMA TypeGoto ==
    ASSUME TypeInv, NEW w \in Workers, NEW location \in Locations,
           Goto(w, location), UNCHANGED <<error, decision, job, loaded>>,
           location \in Working => job[w] \in Tasks,
           location \notin {"completing", "failing"}
    PROVE  SessionType' /\ SessionsOK'
<1>1. SessionType'
  BY TypeParts DEF TypeInv, SessionType, Goto
<1>2. ASSUME NEW v \in Workers PROVE WorkerOK(v)'
  BY TypeParts DEF TypeInv, SessionType, SessionsOK, WorkerOK, Goto
<1>3. ASSUME NEW o \in Operators PROVE OperatorOK(o)'
  BY DEF TypeInv, SessionsOK, OperatorOK
<1> QED BY <1>1, <1>2, <1>3 DEF SessionsOK

(* A worker that loads its task.                                           *)
LEMMA TypeLoad ==
    ASSUME TypeInv, NEW w \in Workers, pc[w] \in Working, Load(w, job[w]),
           NEW location \in Working, Goto(w, location), UNCHANGED <<decision, job>>,
           error' \in [Workers -> {None, "retryable", "fatal"}]
    PROVE  SessionType' /\ SessionsOK'
<1>1. w \in Sessions /\ job[w] \in Tasks /\ tasks[job[w]] \in TaskRow
  BY DEF TypeInv, TypeOK, SessionsOK, WorkerOK, Sessions
<1>2. [Nothing EXCEPT ![job[w]] = tasks[job[w]]] \in [Tasks -> TaskRow \cup {None}]
  BY <1>1 DEF Nothing
<1>3. SessionType'
  BY <1>1, <1>2, LocationsDistinct, TypeParts DEF TypeInv, SessionType, Load, Goto
<1>4. loaded'[w][job[w]] = tasks[job[w]]
  BY <1>1, TypeParts DEF TypeInv, SessionType, Load, Nothing
<1>5. ASSUME NEW v \in Workers PROVE WorkerOK(v)'
  <2>1. CASE v = w
    BY <1>1, <1>4, <2>1 DEF WorkerOK
  <2>2. CASE v # w
    BY <1>1, <2>2, TypeParts
    DEF TypeInv, SessionType, SessionsOK, WorkerOK, Load, Goto, Sessions
  <2> QED BY <2>1, <2>2
<1>6. ASSUME NEW o \in Operators PROVE OperatorOK(o)'
  BY <1>1, SessionsAssumption, TypeParts
  DEF TypeInv, SessionType, SessionsOK, OperatorOK, Load, Sessions
<1> QED BY <1>3, <1>5, <1>6 DEF SessionsOK

LEMMA TypeTasks ==
    ASSUME TypeInv, NEW t \in Tasks,
           Create(t) \/ LeaseExpires(t) \/ BackoffElapses(t)
    PROVE  TypeInv'
<1>1. tasks[t] \in TaskRow
  BY DEF TypeInv, TypeOK
<1>2. CASE Create(t)
  <2>1. [absentTask EXCEPT !.status = InitialStatus(t)] \in TaskRow
    BY StatusesListed DEF absentTask, TaskRow, InitialStatus
  <2> QED BY <1>2, <2>1, TypeRowWritten DEF Create
<1>3. CASE LeaseExpires(t)
  <2>1. [tasks[t] EXCEPT !.last_heartbeat_at = "stale"] \in TaskRow
    BY <1>1 DEF TaskRow
  <2> QED BY <1>3, <2>1, TypeRowWritten DEF LeaseExpires
<1>4. CASE BackoffElapses(t)
  <2>1. [tasks[t] EXCEPT !.next_attempt_at = "due"] \in TaskRow
    BY <1>1 DEF TaskRow
  <2> QED BY <1>4, <2>1, TypeRowWritten DEF BackoffElapses
<1> QED BY <1>2, <1>3, <1>4

(* A request of an operator reads the task and judges it.                  *)
LEMMA TypeDecisionRead ==
    ASSUME TypeInv, NEW o \in Operators, NEW t \in Tasks,
           ApproveRead(o, t) \/ RejectRead(o, t)
    PROVE  TypeInv'
<1>1. /\ o \in Sessions /\ tasks[t] \in TaskRow /\ UNCHANGED <<database, pc, error>>
      /\ job' = [job EXCEPT ![o] = t] /\ Load(o, t)
      /\ \E s \in {"blocked", "queued", "rejected"} : decision' = [decision EXCEPT ![o] = s]
  BY DEF TypeInv, TypeOK, Sessions, ApproveRead, RejectRead, ApprovedStatus
<1>2. [Nothing EXCEPT ![t] = tasks[t]] \in [Tasks -> TaskRow \cup {None}]
  BY <1>1 DEF Nothing
<1>3. DatabaseType' /\ SessionType'
  BY <1>1, <1>2, TypeParts DEF TypeInv, DatabaseType, SessionType, Load, database
<1>4. loaded'[o][t] = tasks[t]
  BY <1>1, TypeParts DEF TypeInv, SessionType, Load, Nothing
<1>5. ASSUME NEW p \in Operators PROVE OperatorOK(p)'
  <2>1. CASE p = o
    BY <1>1, <1>4, <2>1, TypeParts DEF TypeInv, SessionType, OperatorOK
  <2>2. CASE p # o
    BY <1>1, <2>2, TypeParts
    DEF TypeInv, SessionType, SessionsOK, OperatorOK, Load, Sessions
  <2> QED BY <2>1, <2>2
<1>6. ASSUME NEW w \in Workers PROVE WorkerOK(w)'
  BY <1>1, SessionsAssumption, TypeParts
  DEF TypeInv, SessionType, SessionsOK, WorkerOK, Load, Sessions
<1> QED BY <1>3, <1>5, <1>6, TypeParts DEF TypeInv, TypeOK, DatabaseType, SessionType, SessionsOK

LEMMA TypeDecisionEnds ==
    ASSUME TypeInv, NEW o \in Operators, DecisionCommit(o) \/ DecisionLost(o)
    PROVE  TypeInv'
<1>1. /\ o \in Sessions /\ decision[o] \in {"blocked", "queued", "rejected"}
      /\ job[o] \in Tasks /\ tasks[job[o]] \in TaskRow /\ loaded[o][job[o]] \in TaskRow
      /\ decision' = [decision EXCEPT ![o] = None] /\ Close(o) /\ UNCHANGED <<pc, error>>
  BY DEF TypeInv, TypeOK, SessionsOK, OperatorOK, Sessions, DecisionCommit, DecisionLost
<1>2. DatabaseType'
  <2>1. CASE DecisionLost(o)
    BY <2>1, TypeParts DEF TypeInv, DatabaseType, DecisionLost, database
  <2>2. CASE DecisionCommit(o)
    BY <1>1, <2>2, DecidedType, TypeParts DEF TypeInv, DatabaseType, DecisionCommit, SetTask
  <2> QED BY <2>1, <2>2
<1>3. Nothing \in [Tasks -> TaskRow \cup {None}]
  BY DEF Nothing
<1>4. SessionType'
  BY <1>1, <1>3, TypeParts DEF TypeInv, SessionType, Close
<1>5. ASSUME NEW p \in Operators PROVE OperatorOK(p)'
  BY <1>1, TypeParts DEF TypeInv, SessionType, SessionsOK, OperatorOK, Close, Sessions
<1>6. ASSUME NEW w \in Workers PROVE WorkerOK(w)'
  BY <1>1, SessionsAssumption, TypeParts
  DEF TypeInv, SessionType, SessionsOK, WorkerOK, Close, Sessions
<1> QED BY <1>2, <1>4, <1>5, <1>6, TypeParts
  DEF TypeInv, TypeOK, DatabaseType, SessionType, SessionsOK

(* The worker loop: what an unblock pass or a sweep reads and writes.      *)
LEMMA TypePassRead ==
    ASSUME TypeInv, NEW w \in Workers, UnblockRead(w) \/ SweepRead(w)
    PROVE  TypeInv'
<1>1. /\ UNCHANGED <<database, error, decision, job>>
      /\ \E location \in {"unblocking", "sweeping"} : Goto(w, location)
      /\ \E view \in [Tasks -> TaskRow \cup {None}] : loaded' = [loaded EXCEPT ![w] = view]
  BY TypeParts DEF TypeInv, DatabaseType, UnblockRead, SweepRead, LoadAll
<1>2. DatabaseType' /\ SessionType'
  BY <1>1, LocationsDistinct, TypeParts
  DEF TypeInv, DatabaseType, SessionType, database, Goto, Sessions
<1>3. ASSUME NEW v \in Workers PROVE WorkerOK(v)'
  BY <1>1, LocationsDistinct, TypeParts
  DEF TypeInv, SessionType, SessionsOK, WorkerOK, Goto, Sessions
<1>4. ASSUME NEW o \in Operators PROVE OperatorOK(o)'
  BY <1>1, SessionsAssumption, TypeParts
  DEF TypeInv, SessionType, SessionsOK, OperatorOK, Sessions
<1> QED BY <1>2, <1>3, <1>4, TypeParts DEF TypeInv, TypeOK, DatabaseType, SessionType, SessionsOK

LEMMA TypePassCommit ==
    ASSUME TypeInv, NEW w \in Workers, UnblockCommit(w) \/ SweepCommit(w)
    PROVE  TypeInv'
<1>1. w \in Sessions /\ "polling" \in {"polling", "down"}
  BY DEF Sessions
<1>2. SessionType' /\ SessionsOK'
  BY <1>1, TypeLeave DEF UnblockCommit, SweepCommit
<1>3. ASSUME NEW t \in Tasks
      PROVE  tasks[t] \in TaskRow /\ ledger[t] \in Seq(AttemptStatuses)
             /\ loaded[w][t] \in TaskRow \cup {None}
  BY <1>1, TypeParts DEF TypeInv, DatabaseType, SessionType
<1>4. CASE UnblockCommit(w)
  <2>1. ASSUME NEW t \in Tasks, loaded[w][t] # None
        PROVE  [loaded[w][t] EXCEPT !.status = Unblocked(t, loaded[w][t])] \in TaskRow
    BY <1>3, <2>1, StatusesListed DEF Unblocked, TaskRow
  <2>2. ASSUME NEW t \in Tasks PROVE tasks'[t] \in TaskRow
    BY <1>3, <1>4, <2>1, FlushTaskType DEF UnblockCommit
  <2>3. tasks' \in [Tasks -> TaskRow]
    BY <1>4, <2>2 DEF UnblockCommit
  <2> QED BY <1>2, <1>4, <2>3, TypeParts
    DEF TypeInv, UnblockCommit, TypeOK, DatabaseType, SessionType
<1>5. CASE SweepCommit(w)
  <2>1. ASSUME NEW t \in Tasks
        PROVE  tasks'[t] \in TaskRow /\ ledger'[t] \in Seq(AttemptStatuses)
    BY <1>3, <1>5, RequeuedType, AbandonedType DEF SweepCommit
  <2>2. tasks' \in [Tasks -> TaskRow] /\ ledger' \in [Tasks -> Seq(AttemptStatuses)]
    BY <1>5, <2>1 DEF SweepCommit
  <2> QED BY <1>2, <1>5, <2>2, TypeParts
    DEF TypeInv, SweepCommit, TypeOK, DatabaseType, SessionType
<1> QED BY <1>4, <1>5

LEMMA TypeClaim ==
    ASSUME TypeInv, NEW w \in Workers, NEW t \in Tasks, Claim(w, t)
    PROVE  TypeInv'
<1> DEFINE row == [tasks[t] EXCEPT !.status = "processing",
                                   !.locked_by = w,
                                   !.last_heartbeat_at = "fresh",
                                   !.next_attempt_at = None,
                                   !.attempts = @ + 1]
<1>1. tasks[t] \in TaskRow /\ tasks[t].attempts + 1 \in Nat
  BY DEF TypeInv, TypeOK, TaskRow
<1>2. row \in TaskRow
  BY <1>1, StatusesListed DEF TaskRow
<1>3. ledger' \in [Tasks -> Seq(AttemptStatuses)]
  BY TypeParts DEF TypeInv, DatabaseType, Claim, AttemptStatuses
<1>4. DatabaseType'
  BY <1>2, <1>3, TypeParts DEF TypeInv, DatabaseType, Claim, SetTask
<1>5. w \in Sessions /\ "claimed" \in Working /\ "claimed" \notin {"completing", "failing"}
  BY DEF Sessions, Working
<1>6. /\ job' = [job EXCEPT ![w] = t] /\ Goto(w, "claimed")
      /\ UNCHANGED <<error, decision, loaded>>
  BY DEF Claim
<1>7. SessionType'
  BY <1>5, <1>6, LocationsDistinct, TypeParts DEF TypeInv, SessionType, Goto
<1>8. ASSUME NEW v \in Workers PROVE WorkerOK(v)'
  BY <1>5, <1>6, TypeParts DEF TypeInv, SessionType, SessionsOK, WorkerOK, Goto
<1>9. ASSUME NEW o \in Operators PROVE OperatorOK(o)'
  BY <1>5, <1>6, SessionsAssumption, TypeParts
  DEF TypeInv, SessionType, SessionsOK, OperatorOK
<1> QED BY <1>4, <1>7, <1>8, <1>9, TypeParts
  DEF TypeInv, TypeOK, DatabaseType, SessionType, SessionsOK

(* process_agent_task, up to what ends the attempt.                        *)
LEMMA TypeProgress ==
    ASSUME TypeInv, NEW w \in Workers,
           \/ Heartbeat(w) \/ RefreshLease(w) \/ ReuseCheckpoint(w)
           \/ Execute(w) \/ Checkpoint(w)
    PROVE  TypeInv'
<1>1. pc[w] \in Working /\ job[w] \in Tasks /\ tasks[job[w]] \in TaskRow
  BY DEF TypeInv, TypeOK, SessionsOK, WorkerOK, Working,
         Heartbeat, RefreshLease, ReuseCheckpoint, Execute, Checkpoint
<1>2. [tasks[job[w]] EXCEPT !.last_heartbeat_at = "fresh"] \in TaskRow
  BY <1>1 DEF TaskRow
<1>3. [tasks[job[w]] EXCEPT !.checkpointed = TRUE] \in TaskRow
  BY <1>1 DEF TaskRow
<1>4. CASE RefreshLease(w)
  BY <1>1, <1>2, <1>4, TypeRowWritten DEF RefreshLease
<1>5. CASE ~RefreshLease(w)
  <2>1. DatabaseType'
    <3>1. UNCHANGED tasks \/ \E row \in TaskRow : SetTask(job[w], row)
      BY <1>2, <1>3, <1>5 DEF database, Heartbeat, ReuseCheckpoint, Execute, Checkpoint
    <3>2. tasks' \in [Tasks -> TaskRow]
      BY <1>1, <3>1, TypeParts DEF TypeInv, DatabaseType, SetTask
    <3>3. UNCHANGED effects \/ effects' = [effects EXCEPT ![job[w]] = @ + 1]
      BY <1>5 DEF database, Heartbeat, ReuseCheckpoint, Execute, Checkpoint
    <3>4. effects' \in [Tasks -> Nat]
      <4>1. effects \in [Tasks -> Nat] /\ job[w] \in Tasks
        BY <1>1, TypeParts DEF TypeInv, DatabaseType
      <4>2. effects[job[w]] + 1 \in Nat
        BY <4>1
      <4>3. [effects EXCEPT ![job[w]] = effects[job[w]] + 1] \in [Tasks -> Nat]
        BY <4>1, <4>2
      <4> QED BY <3>3, <4>1, <4>3
    <3>5. UNCHANGED ledger
      BY <1>5 DEF database, Heartbeat, ReuseCheckpoint, Execute, Checkpoint
    <3> QED BY <3>2, <3>4, <3>5, TypeParts DEF TypeInv, DatabaseType
  <2>2. PICK location \in {"executing", "finishing", "applied", "executed"} :
          Goto(w, location)
    BY <1>5 DEF Heartbeat, ReuseCheckpoint, Execute, Checkpoint
  <2>3. location \in Working /\ location \notin {"completing", "failing"}
    BY DEF Working
  <2>4. UNCHANGED <<error, decision, job, loaded>>
    BY <1>5 DEF Heartbeat, ReuseCheckpoint, Execute, Checkpoint
  <2>5. SessionType' /\ SessionsOK'
    BY <1>1, <2>2, <2>3, <2>4, LocationsDistinct, TypeGoto
  <2> QED BY <2>1, <2>5, TypeParts DEF TypeInv, TypeOK, DatabaseType, SessionType
<1> QED BY <1>4, <1>5

LEMMA TypeLoaded ==
    ASSUME TypeInv, NEW w \in Workers, WriteContext(w) \/ StepFails(w)
    PROVE  TypeInv'
<1>1. /\ pc[w] \in Working /\ Load(w, job[w]) /\ UNCHANGED <<database, decision, job>>
      /\ \E location \in Working : Goto(w, location)
  BY LocationsDistinct DEF WriteContext, StepFails, Working
<1>2. error' \in [Workers -> {None, "retryable", "fatal"}]
  BY TypeParts DEF TypeInv, SessionType, WriteContext, StepFails
<1>3. SessionType' /\ SessionsOK'
  BY <1>1, <1>2, TypeLoad
<1>4. DatabaseType'
  BY <1>1, TypeParts DEF TypeInv, DatabaseType, database
<1> QED BY <1>3, <1>4, TypeParts DEF TypeInv, TypeOK, DatabaseType, SessionType

(* What ends an attempt.                                                   *)
LEMMA TypeFinalized ==
    ASSUME TypeInv, NEW w \in Workers, Complete(w) \/ FinalizeFailure(w) \/ Crash(w)
    PROVE  TypeInv'
<1>1. SessionType' /\ SessionsOK'
  BY TypeLeave DEF Complete, FinalizeFailure, Crash
<1>2. CASE Crash(w)
  BY <1>1, <1>2, TypeParts
  DEF TypeInv, TypeOK, DatabaseType, SessionType, Crash, database
<1>3. CASE Complete(w) \/ FinalizeFailure(w)
  <2> DEFINE t == job[w]
             old == loaded[w][t]
             new == [old EXCEPT !.status = "completed", !.locked_by = None,
                                !.last_heartbeat_at = None, !.next_attempt_at = None]
  <2>1. t \in Tasks /\ tasks[t] \in TaskRow /\ old \in TaskRow
        /\ ledger[t] \in Seq(AttemptStatuses)
    BY <1>3 DEF TypeInv, TypeOK, SessionsOK, WorkerOK, Working, Complete, FinalizeFailure
  <2>2. ASSUME NEW s \in AttemptStatuses, EndAttempt(t, old, s)
        PROVE  ledger' \in [Tasks -> Seq(AttemptStatuses)]
    BY <2>1, <2>2, EndedAttemptsType, TypeParts DEF TypeInv, DatabaseType, EndAttempt
  <2>3. new \in TaskRow
    BY <2>1, StatusesListed DEF TaskRow
  <2>4. FlushTask(tasks[t], old, new) \in TaskRow
    BY <2>1, <2>3, FlushTaskType
  <2>5. [FlushTask(tasks[t], old, new) EXCEPT !.checkpointed = FALSE] \in TaskRow
    BY <2>4 DEF TaskRow
  <2>6. \E row \in TaskRow : SetTask(t, row)
    BY <1>3, <2>1, <2>5, FailedType DEF Complete, FinalizeFailure
  <2>7. ledger' \in [Tasks -> Seq(AttemptStatuses)] /\ UNCHANGED effects
    BY <1>3, <2>2 DEF Complete, FinalizeFailure, AttemptStatuses
  <2>8. DatabaseType'
    BY <2>6, <2>7, TypeParts DEF TypeInv, DatabaseType, SetTask
  <2> QED BY <1>1, <2>8, TypeParts DEF TypeInv, TypeOK, DatabaseType, SessionType
<1> QED BY <1>2, <1>3

LEMMA TypeRestart ==
    ASSUME TypeInv, NEW w \in Workers, Restart(w)
    PROVE  TypeInv'
<1>1. SessionType' /\ SessionsOK'
  BY LocationsDistinct, TypeGoto DEF Restart
<1> QED BY <1>1, TypeParts
  DEF TypeInv, TypeOK, DatabaseType, SessionType, Restart, database

LEMMA TypeStep == TypeInv /\ [Next]_vars => TypeInv'
<1> SUFFICES ASSUME TypeInv, [Next]_vars PROVE TypeInv'
  OBVIOUS
<1>1. CASE UNCHANGED vars
  BY <1>1 DEF vars, database, TypeInv, TypeOK, SessionsOK, WorkerOK, OperatorOK
<1>2. ASSUME NEW t \in Tasks, Create(t) \/ LeaseExpires(t) \/ BackoffElapses(t)
      PROVE  TypeInv'
  BY <1>2, TypeTasks
<1>3. ASSUME NEW w \in Workers, WorkerStep(w) PROVE TypeInv'
  BY <1>3, TypePassRead, TypePassCommit, TypeClaim, TypeProgress, TypeLoaded, TypeFinalized
  DEF WorkerStep, Proceed
<1>4. ASSUME NEW o \in Operators, OperatorStep(o) \/ DecisionLost(o) PROVE TypeInv'
  BY <1>4, TypeDecisionRead, TypeDecisionEnds DEF OperatorStep
<1>5. ASSUME NEW w \in Workers, Crash(w) \/ Restart(w) PROVE TypeInv'
  BY <1>5, TypeFinalized, TypeRestart
<1> QED BY <1>1, <1>2, <1>3, <1>4, <1>5 DEF Next

(* TypeOK holds of every reachable state, in every deployment.             *)
THEOREM TypeCorrect == Spec => []TypeOK
<1>1. TypeInv => TypeOK
  BY DEF TypeInv
<1> QED BY <1>1, TypeInit, TypeStep, PTL DEF Spec

-------------------------------------------------------------------------------
(* The approval gate                                                       *)

ApprovalIInv == TypeInv /\ ApprovalInv

(* What every step does to a row: a task is never uncreated, its approval  *)
(* never withdrawn, and without one it is not moved past the gate.         *)
RowStep(t) ==
    /\ tasks[t].status # "absent" => tasks'[t].status # "absent"
    /\ tasks[t].approved_at => tasks'[t].approved_at
    /\ tasks'[t].status = "absent" => UNCHANGED tasks[t]
    /\ t \in NeedsApproval /\ Untouched(t) =>
         \/ tasks'[t].approved_at
         \/ /\ tasks'[t].status \in {"absent", "blocked", "awaiting_approval", "rejected"}
            /\ tasks'[t].attempts = 0

(* What a session has is what it had, or less.                             *)
NothingTaken ==
    /\ \A s \in Sessions : job'[s] \in {job[s], None}
    /\ \A s \in Sessions, t \in Tasks : loaded'[s][t] \in {loaded[s][t], None}
    /\ \A w \in Workers :
         /\ pc'[w] \in Working => pc[w] \in Working /\ job'[w] = job[w]
         /\ pc'[w] = "sweeping" => pc[w] = "sweeping"

LEMMA GateRows ==
    ASSUME ApprovalIInv, NothingTaken, \A t \in Tasks : RowStep(t)
    PROVE  ApprovalInv'
<1> SUFFICES ASSUME NEW t \in Tasks PROVE Gate(t)'
  BY DEF ApprovalInv
<1>1. Gate(t) /\ RowStep(t) /\ Workers \subseteq Sessions
  BY DEF ApprovalIInv, ApprovalInv, Sessions
<1>2. Known(t)'
  BY <1>1, NoneAssumption DEF Gate, Known, RowStep, NothingTaken
<1>3. ASSUME Untouched(t), ~tasks'[t].approved_at, t \in NeedsApproval
      PROVE  Untouched(t)'
  BY <1>1, <1>3 DEF Untouched, RowStep, NothingTaken, Holds
<1> QED BY <1>1, <1>2, <1>3 DEF Gate, RowStep

(* A commit of a row keeps the approval that is stored.                    *)
LEMMA FlushKeepsApproval ==
    ASSUME NEW row \in TaskRow, NEW old \in TaskRow, NEW new \in TaskRow,
           new.approved_at = old.approved_at \/ new.approved_at = TRUE
    PROVE  /\ row.approved_at => FlushTask(row, old, new).approved_at
           /\ FlushTask(row, old, new).status \in {row.status, new.status}
           /\ FlushTask(row, old, new).attempts = row.attempts
BY DEF FlushTask, Flush, TaskRow

(* One that assigns neither verdict keeps both, whatever it loaded.        *)
LEMMA FlushKeepsVerdict ==
    ASSUME NEW row \in TaskRow, NEW old \in TaskRow, NEW new \in TaskRow,
           new.approved_at = old.approved_at, new.rejected_at = old.rejected_at
    PROVE  /\ FlushTask(row, old, new).approved_at = row.approved_at
           /\ FlushTask(row, old, new).rejected_at = row.rejected_at
           /\ FlushTask(row, old, new).status \in {row.status, new.status}
           /\ FlushTask(row, old, new).attempts = row.attempts
BY DEF FlushTask, Flush, TaskRow

(* A session that gives its task back, failed or to be retried, writes the *)
(* verdict that is stored, whatever it had loaded.                         *)
Released(old, s) ==
    [old EXCEPT !.locked_by = None, !.last_heartbeat_at = None, !.status = s]

LEMMA ReleasedRow ==
    ASSUME NEW old \in TaskRow, NEW s \in {"failed", "retry_wait"}
    PROVE  /\ Released(old, s) \in TaskRow
           /\ Released(old, s).approved_at = old.approved_at
           /\ Released(old, s).rejected_at = old.rejected_at
           /\ Released(old, s).status = s
<1>1. s \in Statuses
  BY StatusesListed
<1> QED BY <1>1 DEF Released, TaskRow

LEMMA ReleasedKeepsVerdict ==
    ASSUME NEW row \in TaskRow, NEW old \in TaskRow,
           NEW s \in {"failed", "retry_wait"}
    PROVE  /\ FlushTask(row, old, Released(old, s)) \in TaskRow
           /\ FlushTask(row, old, Released(old, s)).approved_at = row.approved_at
           /\ FlushTask(row, old, Released(old, s)).rejected_at = row.rejected_at
           /\ FlushTask(row, old, Released(old, s)).status \in {row.status, s}
<1> DEFINE new == Released(old, s)
<1>1. /\ new \in TaskRow /\ new.approved_at = old.approved_at
      /\ new.rejected_at = old.rejected_at /\ new.status = s
  BY ReleasedRow
<1> HIDE DEF new
<1>2. FlushTask(row, old, new) \in TaskRow
  BY <1>1, FlushTaskType
<1>3. /\ FlushTask(row, old, new).approved_at = row.approved_at
      /\ FlushTask(row, old, new).rejected_at = row.rejected_at
      /\ FlushTask(row, old, new).status \in {row.status, new.status}
  BY <1>1, FlushKeepsVerdict
<1> QED BY <1>1, <1>2, <1>3 DEF new

LEMMA RequeuedKeepsVerdict ==
    ASSUME NEW row \in TaskRow, NEW old \in TaskRow
    PROVE  /\ Requeued(row, old).approved_at = row.approved_at
           /\ Requeued(row, old).rejected_at = row.rejected_at
           /\ Requeued(row, old).status \in {row.status, "failed", "retry_wait"}
<1> DEFINE flushed(s) == FlushTask(row, old, Released(old, s))
<1>1. ASSUME NEW s \in {"failed", "retry_wait"}
      PROVE  /\ flushed(s) \in TaskRow
             /\ flushed(s).approved_at = row.approved_at
             /\ flushed(s).rejected_at = row.rejected_at
             /\ flushed(s).status \in {row.status, s}
  BY ReleasedKeepsVerdict
<1>2. \A s \in {"failed", "retry_wait"} : /\ flushed(s) \in TaskRow
                                          /\ flushed(s).approved_at = row.approved_at
                                          /\ flushed(s).rejected_at = row.rejected_at
                                          /\ flushed(s).status \in {row.status, s}
  BY <1>1
<1> HIDE DEF flushed
<1>3. \E s \in {"failed", "retry_wait"} : \E due \in {"due", flushed(s).next_attempt_at} :
        Requeued(row, old) =
          [flushed(s) EXCEPT !.next_attempt_at = due, !.checkpointed = old.checkpointed]
  <2>1. CASE old.attempts >= MaxAttempts
    BY <1>2, <2>1 DEF Requeued, flushed, Released, TaskRow
  <2>2. CASE ~(old.attempts >= MaxAttempts)
    BY <1>2, <2>2 DEF Requeued, flushed, Released, TaskRow
  <2> QED BY <2>1, <2>2
<1> QED BY <1>2, <1>3 DEF TaskRow

LEMMA FailedKeepsVerdict ==
    ASSUME NEW row \in TaskRow, NEW old \in TaskRow, NEW kind
    PROVE  /\ Failed(row, old, kind).approved_at = row.approved_at
           /\ Failed(row, old, kind).rejected_at = row.rejected_at
           /\ Failed(row, old, kind).status \in {row.status, "failed", "retry_wait"}
<1> DEFINE flushed(s) == FlushTask(row, old, Released(old, s))
<1>1. ASSUME NEW s \in {"failed", "retry_wait"}
      PROVE  /\ flushed(s) \in TaskRow
             /\ flushed(s).approved_at = row.approved_at
             /\ flushed(s).rejected_at = row.rejected_at
             /\ flushed(s).status \in {row.status, s}
  BY ReleasedKeepsVerdict
<1>2. \A s \in {"failed", "retry_wait"} : /\ flushed(s) \in TaskRow
                                          /\ flushed(s).approved_at = row.approved_at
                                          /\ flushed(s).rejected_at = row.rejected_at
                                          /\ flushed(s).status \in {row.status, s}
  BY <1>1
<1> HIDE DEF flushed
<1>3. \E s \in {"failed", "retry_wait"} : \E due \in {"later", flushed(s).next_attempt_at} :
        Failed(row, old, kind) =
          [flushed(s) EXCEPT !.next_attempt_at = due, !.checkpointed = old.checkpointed]
  <2>1. CASE kind = "retryable" /\ old.attempts < MaxAttempts
    BY <1>2, <2>1 DEF Failed, flushed, Released, TaskRow
  <2>2. CASE ~(kind = "retryable" /\ old.attempts < MaxAttempts)
    BY <1>2, <2>2 DEF Failed, flushed, Released, TaskRow
  <2> QED BY <2>1, <2>2
<1> QED BY <1>2, <1>3 DEF TaskRow

LEMMA GateTasks ==
    ASSUME ApprovalIInv, NEW t \in Tasks,
           Create(t) \/ LeaseExpires(t) \/ BackoffElapses(t)
    PROVE  ApprovalInv'
<1>1. NothingTaken
  BY DEF NothingTaken, Create, LeaseExpires, BackoffElapses
<1>2. ASSUME NEW u \in Tasks PROVE RowStep(u)
  <2>1. tasks \in [Tasks -> TaskRow] /\ Gate(u)
    BY DEF ApprovalIInv, ApprovalInv, TypeInv, TypeOK
  <2>2. CASE u # t
    BY <2>1, <2>2 DEF RowStep, Untouched, Create, LeaseExpires, BackoffElapses, SetTask
  <2>3. CASE u = t /\ Create(t)
    <3>1. tasks'[t] = [absentTask EXCEPT !.status = InitialStatus(t)]
      BY <2>1, <2>3 DEF Create, SetTask
    <3>2. ~tasks[t].approved_at /\ tasks[t].status = "absent"
      BY <2>1, <2>3 DEF Create, Gate, Known
    <3>3. /\ InitialStatus(t) # "absent"
          /\ t \in NeedsApproval => InitialStatus(t) \in {"blocked", "awaiting_approval"}
      BY DEF InitialStatus
    <3> QED BY <2>3, <3>1, <3>2, <3>3 DEF RowStep, absentTask
  <2>4. CASE u = t /\ LeaseExpires(t)
    BY <2>1, <2>4 DEF RowStep, Untouched, LeaseExpires, SetTask, TaskRow
  <2>5. CASE u = t /\ BackoffElapses(t)
    BY <2>1, <2>5 DEF RowStep, Untouched, BackoffElapses, SetTask, TaskRow
  <2> QED BY <2>2, <2>3, <2>4, <2>5
<1> QED BY <1>1, <1>2, GateRows

(* A closed session has nothing.                                           *)
LEMMA LeaveTakesNothing ==
    ASSUME TypeInv, NEW w \in Workers, NEW location \in {"polling", "down"},
           Leave(w, location)
    PROVE  NothingTaken
<1>1. w \in Sessions /\ location \notin Working /\ location # "sweeping"
  BY LocationsDistinct DEF Sessions
<1>2. /\ pc \in [Workers -> Locations] /\ job \in [Sessions -> Tasks \cup {None}]
      /\ loaded \in [Sessions -> [Tasks -> TaskRow \cup {None}]]
  BY DEF TypeInv, TypeOK
<1>3. \A s \in Sessions : job'[s] \in {job[s], None}
  BY <1>1, <1>2 DEF Leave, Close
<1>4. \A s \in Sessions, t \in Tasks : loaded'[s][t] \in {loaded[s][t], None}
  BY <1>1, <1>2 DEF Leave, Close, Nothing
<1>5. ASSUME NEW v \in Workers
      PROVE  /\ pc'[v] \in Working => pc[v] \in Working /\ job'[v] = job[v]
             /\ pc'[v] = "sweeping" => pc[v] = "sweeping"
  BY <1>1, <1>2 DEF Leave, Goto, Close, Sessions
<1> QED BY <1>3, <1>4, <1>5 DEF NothingTaken

LEMMA GateDecisionEnds ==
    ASSUME ApprovalIInv, NEW o \in Operators, DecisionCommit(o) \/ DecisionLost(o)
    PROVE  ApprovalInv'
<1> DEFINE t == job[o]
           old == loaded[o][t]
           new == IF decision[o] = "rejected"
                  THEN [old EXCEPT !.status = "rejected", !.rejected_at = TRUE,
                                   !.next_attempt_at = None]
                  ELSE [old EXCEPT !.status = decision[o], !.approved_at = TRUE]
<1>1. /\ o \in Sessions /\ t \in Tasks /\ old \in TaskRow
      /\ tasks \in [Tasks -> TaskRow] /\ pc \in [Workers -> Locations]
      /\ job \in [Sessions -> Tasks \cup {None}]
      /\ loaded \in [Sessions -> [Tasks -> TaskRow \cup {None}]]
      /\ decision[o] \in {"blocked", "queued", "rejected"}
      /\ Close(o) /\ UNCHANGED pc
  BY DEF ApprovalIInv, TypeInv, TypeOK, SessionsOK, OperatorOK, Sessions,
         DecisionCommit, DecisionLost
<1>2. NothingTaken
  BY <1>1, SessionsAssumption DEF NothingTaken, Close, Nothing, Sessions
<1>3. CASE DecisionLost(o)
  <2>1. \A u \in Tasks : RowStep(u)
    BY <1>3 DEF RowStep, Untouched, DecisionLost, database
  <2> QED BY <1>2, <2>1, GateRows
<1>4. CASE DecisionCommit(o)
  <2>1. tasks' = [tasks EXCEPT ![t] = FlushTask(tasks[t], old, new)]
    BY <1>4 DEF DecisionCommit, SetTask, Decided
  <2>2. /\ new \in TaskRow
        /\ new.status \in {"blocked", "queued", "rejected"}
        /\ decision[o] # "rejected" => new.approved_at = TRUE
        /\ decision[o] = "rejected" => new.approved_at = old.approved_at
                                       /\ new.status = "rejected"
    BY <1>1, StatusesListed DEF TaskRow
  <2>3. /\ tasks[t].approved_at => FlushTask(tasks[t], old, new).approved_at
        /\ FlushTask(tasks[t], old, new).status \in {tasks[t].status, new.status}
        /\ FlushTask(tasks[t], old, new).attempts = tasks[t].attempts
    <3>1. tasks[t] \in TaskRow /\ (new.approved_at = old.approved_at \/ new.approved_at = TRUE)
      BY <1>1, <2>2
    <3> HIDE DEF new, old, t
    <3> QED BY <1>1, <2>2, <3>1, FlushKeepsApproval
  <2>4. ASSUME Untouched(t), t \in NeedsApproval, decision[o] # "rejected", old # None
        PROVE  FlushTask(tasks[t], old, new).approved_at
    BY <1>1, <2>2, <2>4 DEF Untouched, FlushTask, Flush, TaskRow
  <2>5. Gate(t)
    BY <1>1 DEF ApprovalIInv, ApprovalInv
  <2>6. tasks[t].status # "absent" /\ old # None
    <3>1. old # None
      BY <1>1, RowAssumption
    <3> QED BY <1>1, <2>5, <3>1 DEF Gate, Known
  <2>7. ASSUME NEW u \in Tasks PROVE RowStep(u)
    <3>1. CASE u # t
      BY <1>1, <2>1, <3>1 DEF RowStep, Untouched
    <3>2. CASE u = t
      <4>1. tasks'[t] = FlushTask(tasks[t], old, new)
        BY <1>1, <2>1
      <4> HIDE DEF new, old, t
      <4> QED BY <2>2, <2>3, <2>4, <2>6, <3>2, <4>1 DEF RowStep, Untouched
    <3> QED BY <3>1, <3>2
  <2> QED BY <1>2, <2>7, GateRows
<1> QED BY <1>3, <1>4

LEMMA GatePassCommit ==
    ASSUME ApprovalIInv, NEW w \in Workers, UnblockCommit(w) \/ SweepCommit(w)
    PROVE  ApprovalInv'
<1>1. /\ w \in Sessions /\ tasks \in [Tasks -> TaskRow]
      /\ loaded \in [Sessions -> [Tasks -> TaskRow \cup {None}]]
  BY DEF ApprovalIInv, TypeInv, TypeOK, Sessions
<1>2. NothingTaken
  BY LeaveTakesNothing DEF ApprovalIInv, UnblockCommit, SweepCommit
<1>3. ASSUME NEW t \in Tasks PROVE RowStep(t)
  <2> DEFINE old == loaded[w][t]
  <2>1. Gate(t) /\ tasks[t] \in TaskRow
    BY <1>1 DEF ApprovalIInv, ApprovalInv
  <2>2. CASE old = None
    <3>1. UNCHANGED tasks[t]
      BY <2>2 DEF UnblockCommit, SweepCommit
    <3> QED BY <3>1 DEF RowStep, Untouched
  <2>3. CASE old # None /\ UnblockCommit(w)
    <3> DEFINE new == [old EXCEPT !.status = Unblocked(t, old)]
    <3>1. tasks[t].status # "absent" /\ old \in TaskRow
      BY <1>1, <2>1, <2>3 DEF Gate, Known
    <3>2. /\ new \in TaskRow /\ new.approved_at = old.approved_at
          /\ new.status \in {"awaiting_approval", "queued"}
          /\ t \in NeedsApproval /\ ~old.approved_at => new.status = "awaiting_approval"
      BY <3>1, StatusesListed DEF Unblocked, TaskRow
    <3>3. tasks'[t] = tasks[t] \/ tasks'[t] = FlushTask(tasks[t], old, new)
      BY <2>3 DEF UnblockCommit
    <3>4. Untouched(t) => ~old.approved_at
      BY <1>1, <2>3 DEF Untouched
    <3> HIDE DEF new, old
    <3>5. CASE tasks'[t] = tasks[t]
      BY <3>5 DEF RowStep, Untouched
    <3>6. CASE tasks'[t] = FlushTask(tasks[t], old, new)
      <4>1. /\ tasks[t].approved_at => tasks'[t].approved_at
            /\ tasks'[t].status \in {tasks[t].status, new.status}
            /\ tasks'[t].attempts = tasks[t].attempts
        <5>1. /\ tasks[t].approved_at => FlushTask(tasks[t], old, new).approved_at
              /\ FlushTask(tasks[t], old, new).status \in {tasks[t].status, new.status}
              /\ FlushTask(tasks[t], old, new).attempts = tasks[t].attempts
          BY <2>1, <3>1, <3>2, FlushKeepsApproval
        <5> QED BY <3>6, <5>1
      <4> QED BY <3>1, <3>2, <3>4, <4>1 DEF RowStep, Untouched
    <3> QED BY <3>3, <3>5, <3>6
  <2>4. CASE old # None /\ SweepCommit(w)
    <3>1. tasks[t].status # "absent" /\ old \in TaskRow /\ pc[w] = "sweeping"
      BY <1>1, <2>1, <2>4 DEF Gate, Known, SweepCommit
    <3>2. tasks'[t] = Requeued(tasks[t], old)
      BY <2>4 DEF SweepCommit
    <3>3. ~Untouched(t)
      BY <2>4, <3>1 DEF Untouched
    <3>4. /\ tasks[t].approved_at => tasks'[t].approved_at
          /\ tasks'[t].status \in {tasks[t].status, "failed", "retry_wait"}
      <4> HIDE DEF old
      <4>1. /\ tasks[t].approved_at => Requeued(tasks[t], old).approved_at
            /\ Requeued(tasks[t], old).status \in {tasks[t].status, "failed", "retry_wait"}
        BY <2>1, <3>1, RequeuedKeepsVerdict
      <4> QED BY <3>2, <4>1
    <3> QED BY <3>1, <3>3, <3>4 DEF RowStep
  <2> QED BY <2>2, <2>3, <2>4
<1> QED BY <1>2, <1>3, GateRows

(* A worker's own row: the gate was passed when it was claimed.            *)
LEMMA HeldRowStep ==
    ASSUME ApprovalIInv, NEW w \in Workers, pc[w] \in Working, NEW row,
           SetTask(job[w], row),
           tasks[job[w]].approved_at => row.approved_at,
           row.status \in {tasks[job[w]].status, "completed", "failed", "retry_wait"},
           NEW t \in Tasks
    PROVE  RowStep(t)
<1>1. /\ job[w] \in Tasks /\ w \in Sessions /\ tasks \in [Tasks -> TaskRow]
      /\ Gate(job[w])
  BY DEF ApprovalIInv, ApprovalInv, TypeInv, TypeOK, SessionsOK, WorkerOK, Sessions
<1>2. tasks[job[w]].status # "absent" /\ ~Untouched(job[w])
  BY <1>1 DEF Gate, Known, Untouched, Holds
<1>3. CASE t = job[w]
  BY <1>1, <1>2, <1>3 DEF RowStep, SetTask
<1>4. CASE t # job[w]
  BY <1>1, <1>4 DEF RowStep, SetTask, Untouched
<1> QED BY <1>3, <1>4

LEMMA GateProgress ==
    ASSUME ApprovalIInv, NEW w \in Workers,
           \/ Heartbeat(w) \/ RefreshLease(w) \/ ReuseCheckpoint(w)
           \/ Execute(w) \/ Checkpoint(w)
    PROVE  ApprovalInv'
<1>1. /\ pc[w] \in Working /\ job[w] \in Tasks /\ tasks[job[w]] \in TaskRow
      /\ pc \in [Workers -> Locations]
  BY DEF ApprovalIInv, TypeInv, TypeOK, SessionsOK, WorkerOK, Working,
         Heartbeat, RefreshLease, ReuseCheckpoint, Execute, Checkpoint
<1>2. /\ UNCHANGED <<job, loaded>>
      /\ UNCHANGED pc \/ \E location \in Working : Goto(w, location)
  BY DEF Heartbeat, RefreshLease, ReuseCheckpoint, Execute, Checkpoint, Working
<1>3. NothingTaken
  BY <1>1, <1>2, LocationsDistinct DEF NothingTaken, Goto
<1>4. UNCHANGED tasks \/ \E row \in TaskRow : /\ SetTask(job[w], row)
                                              /\ row.approved_at = tasks[job[w]].approved_at
                                              /\ row.status = tasks[job[w]].status
  <2>1. /\ [tasks[job[w]] EXCEPT !.last_heartbeat_at = "fresh"] \in TaskRow
        /\ [tasks[job[w]] EXCEPT !.checkpointed = TRUE] \in TaskRow
    BY <1>1 DEF TaskRow
  <2>2. CASE Heartbeat(w) \/ RefreshLease(w)
    BY <1>1, <2>1, <2>2 DEF Heartbeat, RefreshLease, TaskRow
  <2>3. CASE Checkpoint(w)
    BY <1>1, <2>1, <2>3 DEF Checkpoint, TaskRow
  <2>4. CASE ReuseCheckpoint(w) \/ Execute(w)
    BY <2>4 DEF ReuseCheckpoint, Execute, database
  <2> QED BY <2>2, <2>3, <2>4
<1>5. ASSUME UNCHANGED tasks, NEW t \in Tasks PROVE RowStep(t)
  BY <1>5 DEF RowStep, Untouched
<1>6. \A t \in Tasks : RowStep(t)
  BY <1>1, <1>4, <1>5, HeldRowStep
<1> QED BY <1>3, <1>6, GateRows

LEMMA GateFinalized ==
    ASSUME ApprovalIInv, NEW w \in Workers, Complete(w) \/ FinalizeFailure(w) \/ Crash(w)
    PROVE  ApprovalInv'
<1>1. NothingTaken
  BY LeaveTakesNothing DEF ApprovalIInv, Complete, FinalizeFailure, Crash
<1>2. CASE Crash(w)
  <2>1. \A t \in Tasks : RowStep(t)
    BY <1>2 DEF RowStep, Untouched, Crash, database
  <2> QED BY <1>1, <2>1, GateRows
<1>3. CASE Complete(w) \/ FinalizeFailure(w)
  <2>1. /\ pc[w] \in Working /\ job[w] \in Tasks /\ tasks[job[w]] \in TaskRow
        /\ loaded[w][job[w]] \in TaskRow
    BY <1>3 DEF ApprovalIInv, TypeInv, TypeOK, SessionsOK, WorkerOK, Working,
                Complete, FinalizeFailure
  <2>2. PICK row : /\ SetTask(job[w], row)
                   /\ tasks[job[w]].approved_at => row.approved_at
                   /\ row.status \in {tasks[job[w]].status, "completed", "failed", "retry_wait"}
    <3>1. CASE Complete(w)
      <4> DEFINE old == loaded[w][job[w]]
                 new == [old EXCEPT !.status = "completed", !.locked_by = None,
                                    !.last_heartbeat_at = None, !.next_attempt_at = None]
                 flushed == FlushTask(tasks[job[w]], old, new)
      <4>1. new \in TaskRow /\ new.approved_at = old.approved_at /\ new.status = "completed"
        BY <2>1, StatusesListed DEF TaskRow
      <4>2. SetTask(job[w], [flushed EXCEPT !.checkpointed = FALSE])
        BY <3>1 DEF Complete
      <4> HIDE DEF new
      <4>3. /\ flushed \in TaskRow
            /\ tasks[job[w]].approved_at => flushed.approved_at
            /\ flushed.status \in {tasks[job[w]].status, "completed"}
        BY <2>1, <4>1, FlushTaskType, FlushKeepsApproval
      <4> HIDE DEF flushed
      <4> QED BY <4>2, <4>3 DEF TaskRow
    <3>2. CASE FinalizeFailure(w)
      BY <2>1, <3>2, FailedKeepsVerdict DEF FinalizeFailure
    <3> QED BY <1>3, <3>1, <3>2
  <2>3. \A t \in Tasks : RowStep(t)
    BY <2>1, <2>2, HeldRowStep
  <2> QED BY <1>1, <2>3, GateRows
<1> QED BY <1>2, <1>3

(* What a session has is what it had, or the row that is there now of a    *)
(* task that was created; a worker or a sweep takes no task that is still  *)
(* waiting for its approval.                                               *)
LEMMA GateTaken ==
    ASSUME ApprovalIInv,
           NEW t \in Tasks,
           tasks'[t].status # "absent" \/ UNCHANGED tasks[t],
           tasks[t].status # "absent" => tasks'[t].status # "absent",
           tasks[t].approved_at => tasks'[t].approved_at,
           \A s \in Sessions :
             /\ job'[s] = t => job[s] = t \/ tasks'[t].status # "absent"
             /\ loaded'[s][t] \in {loaded[s][t], None}
                \/ (loaded'[s][t] = tasks[t] /\ tasks[t].status # "absent"),
           (t \in NeedsApproval /\ Untouched(t)) =>
             /\ UNCHANGED tasks[t]
             /\ \A w \in Workers : /\ ~Holds(w, t)'
                                   /\ pc'[w] = "sweeping" => loaded'[w][t] = None
    PROVE  Gate(t)'
<1>1. Gate(t)
  BY DEF ApprovalIInv, ApprovalInv
<1>2. Known(t)'
  BY <1>1 DEF Gate, Known
<1>3. ASSUME t \in NeedsApproval, ~tasks'[t].approved_at PROVE Untouched(t)'
  <2>1. ~tasks[t].approved_at /\ Untouched(t) /\ UNCHANGED tasks[t]
    BY <1>1, <1>3 DEF Gate
  <2>2. ASSUME NEW s \in Sessions, loaded'[s][t] # None PROVE ~loaded'[s][t].approved_at
    BY <2>1, <2>2 DEF Untouched
  <2>3. ASSUME NEW w \in Workers
        PROVE  ~Holds(w, t)' /\ (pc'[w] = "sweeping" => loaded'[w][t] = None)
    BY <1>3, <2>1
  <2>4. /\ tasks'[t].status \in {"absent", "blocked", "awaiting_approval", "rejected"}
        /\ tasks'[t].attempts = 0
    BY <2>1 DEF Untouched
  <2> QED BY <2>2, <2>3, <2>4 DEF Untouched
<1> QED BY <1>2, <1>3 DEF Gate

LEMMA GateDecisionRead ==
    ASSUME ApprovalIInv, NEW o \in Operators, NEW t \in Tasks,
           ApproveRead(o, t) \/ RejectRead(o, t)
    PROVE  ApprovalInv'
<1>1. /\ o \in Sessions /\ tasks[t].status # "absent"
      /\ job \in [Sessions -> Tasks \cup {None}]
      /\ loaded \in [Sessions -> [Tasks -> TaskRow \cup {None}]]
      /\ job' = [job EXCEPT ![o] = t] /\ Load(o, t) /\ UNCHANGED <<tasks, pc>>
  BY DEF ApprovalIInv, TypeInv, TypeOK, Sessions, ApproveRead, RejectRead,
         MayApprove, MayReject, database
<1>2. ASSUME NEW u \in Tasks, NEW s \in Sessions
      PROVE  /\ job'[s] = u => job[s] = u \/ tasks[u].status # "absent"
             /\ loaded'[s][u] \in {loaded[s][u], None}
                \/ (loaded'[s][u] = tasks[u] /\ tasks[u].status # "absent")
  BY <1>1 DEF Load, Nothing
<1>3. \A w \in Workers : job'[w] = job[w] /\ loaded'[w] = loaded[w]
  BY <1>1, SessionsAssumption DEF Load, Sessions
<1>4. ASSUME NEW u \in Tasks PROVE Gate(u)'
  BY <1>1, <1>2, <1>3, GateTaken DEF Untouched, Holds
<1> QED BY <1>4 DEF ApprovalInv

LEMMA GatePassRead ==
    ASSUME ApprovalIInv, NEW w \in Workers, UnblockRead(w) \/ SweepRead(w)
    PROVE  ApprovalInv'
<1>1. /\ w \in Sessions /\ pc \in [Workers -> Locations]
      /\ loaded \in [Sessions -> [Tasks -> TaskRow \cup {None}]]
      /\ UNCHANGED <<tasks, job>>
  BY DEF ApprovalIInv, TypeInv, TypeOK, Sessions, UnblockRead, SweepRead, database
<1>2. ASSUME NEW u \in Tasks, NEW s \in Sessions
      PROVE  loaded'[s][u] \in {loaded[s][u], None}
             \/ (loaded'[s][u] = tasks[u] /\ tasks[u].status # "absent")
  BY <1>1 DEF UnblockRead, SweepRead, LoadAll, Stale
<1>3. ASSUME NEW u \in Tasks, Untouched(u), NEW v \in Workers
      PROVE  /\ ~Holds(v, u)'
             /\ pc'[v] = "sweeping" => loaded'[v][u] = None
  <2>1. v \in Sessions /\ ~Holds(v, u)
    BY <1>3 DEF Untouched, Sessions
  <2>2. CASE v # w
    BY <1>1, <1>3, <2>1, <2>2 DEF UnblockRead, SweepRead, LoadAll, Goto, Holds, Untouched
  <2>3. CASE v = w
    BY <1>1, <1>3, <2>1, <2>3, LocationsDistinct
    DEF UnblockRead, SweepRead, Goto, Holds, Untouched, Stale
  <2> QED BY <2>2, <2>3
<1>4. ASSUME NEW u \in Tasks PROVE Gate(u)'
  BY <1>1, <1>2, <1>3, <1>4, GateTaken
<1> QED BY <1>4 DEF ApprovalInv

LEMMA GateClaim ==
    ASSUME ApprovalIInv, NEW w \in Workers, NEW t \in Tasks, Claim(w, t)
    PROVE  ApprovalInv'
<1>1. /\ w \in Sessions /\ pc \in [Workers -> Locations]
      /\ tasks \in [Tasks -> TaskRow] /\ job \in [Sessions -> Tasks \cup {None}]
      /\ tasks[t].status \in {"queued", "retry_wait"}
      /\ job' = [job EXCEPT ![w] = t] /\ Goto(w, "claimed") /\ UNCHANGED loaded
  BY DEF ApprovalIInv, TypeInv, TypeOK, Sessions, Claim, Claimable
<1>2. /\ \A u \in Tasks \ {t} : UNCHANGED tasks[u]
      /\ tasks'[t].status = "processing"
      /\ tasks'[t].approved_at = tasks[t].approved_at
  BY <1>1 DEF Claim, SetTask, TaskRow
<1>3. ASSUME NEW u \in Tasks, Untouched(u)
      PROVE  /\ UNCHANGED tasks[u]
             /\ \A v \in Workers : /\ ~Holds(v, u)'
                                   /\ pc'[v] = "sweeping" => loaded'[v][u] = None
  <2>1. u # t
    BY <1>1, <1>3 DEF Untouched
  <2> QED BY <1>1, <1>2, <1>3, <2>1 DEF Untouched, Holds, Goto
<1>4. ASSUME NEW u \in Tasks PROVE Gate(u)'
  <2>1. \A s \in Sessions : job'[s] = u => job[s] = u \/ tasks'[u].status # "absent"
    BY <1>1, <1>2
  <2>2. /\ tasks'[u].status # "absent" \/ UNCHANGED tasks[u]
        /\ tasks[u].status # "absent" => tasks'[u].status # "absent"
        /\ tasks[u].approved_at => tasks'[u].approved_at
    BY <1>2
  <2>3. \A s \in Sessions : loaded'[s][u] \in {loaded[s][u], None}
    BY <1>1
  <2> QED BY <1>3, <2>1, <2>2, <2>3, GateTaken
<1> QED BY <1>4 DEF ApprovalInv

(* A worker that loads its task.                                           *)
LEMMA GateLoaded ==
    ASSUME ApprovalIInv, NEW w \in Workers, WriteContext(w) \/ StepFails(w)
    PROVE  ApprovalInv'
<1>1. /\ w \in Sessions /\ pc[w] \in Working /\ job[w] \in Tasks
      /\ pc \in [Workers -> Locations]
      /\ loaded \in [Sessions -> [Tasks -> TaskRow \cup {None}]]
      /\ Load(w, job[w]) /\ UNCHANGED <<tasks, job>>
      /\ \E location \in Working : Goto(w, location)
  BY LocationsDistinct DEF ApprovalIInv, TypeInv, TypeOK, SessionsOK, WorkerOK, Sessions,
     WriteContext, StepFails, Working, database
<1>2. tasks[job[w]].status # "absent"
  BY <1>1 DEF ApprovalIInv, ApprovalInv, Gate, Known
<1>3. ASSUME NEW u \in Tasks, NEW s \in Sessions
      PROVE  loaded'[s][u] \in {loaded[s][u], None}
             \/ (loaded'[s][u] = tasks[u] /\ tasks[u].status # "absent")
  BY <1>1, <1>2 DEF Load, Nothing
<1>4. ASSUME NEW u \in Tasks, Untouched(u), NEW v \in Workers
      PROVE  /\ ~Holds(v, u)'
             /\ pc'[v] = "sweeping" => loaded'[v][u] = None
  BY <1>1, <1>4, LocationsDistinct DEF Untouched, Holds, Goto, Load, Sessions
<1>5. ASSUME NEW u \in Tasks PROVE Gate(u)'
  BY <1>1, <1>3, <1>4, GateTaken
<1> QED BY <1>5 DEF ApprovalInv

LEMMA GateRestart ==
    ASSUME ApprovalIInv, NEW w \in Workers, Restart(w)
    PROVE  ApprovalInv'
<1>1. NothingTaken
  BY LocationsDistinct
  DEF ApprovalIInv, TypeInv, TypeOK, NothingTaken, Restart, Goto
<1>2. \A t \in Tasks : RowStep(t)
  BY DEF RowStep, Untouched, Restart, database
<1> QED BY <1>1, <1>2, GateRows

LEMMA GateInit == Init => ApprovalInv
BY LocationsDistinct, NoneAssumption
DEF Init, ApprovalInv, Gate, Known, Untouched, Holds, absentTask, Nothing, Sessions

LEMMA GateStep == ApprovalIInv /\ [Next]_vars => ApprovalInv'
<1> SUFFICES ASSUME ApprovalIInv, [Next]_vars PROVE ApprovalInv'
  OBVIOUS
<1>1. CASE UNCHANGED vars
  BY <1>1 DEF vars, database, ApprovalIInv, ApprovalInv, Gate, Known, Untouched, Holds
<1>2. ASSUME NEW t \in Tasks, Create(t) \/ LeaseExpires(t) \/ BackoffElapses(t)
      PROVE  ApprovalInv'
  BY <1>2, GateTasks
<1>3. ASSUME NEW w \in Workers, WorkerStep(w) PROVE ApprovalInv'
  BY <1>3, GatePassRead, GatePassCommit, GateClaim, GateProgress, GateLoaded, GateFinalized
  DEF WorkerStep, Proceed
<1>4. ASSUME NEW o \in Operators, OperatorStep(o) \/ DecisionLost(o) PROVE ApprovalInv'
  BY <1>4, GateDecisionRead, GateDecisionEnds DEF OperatorStep
<1>5. ASSUME NEW w \in Workers, Crash(w) \/ Restart(w) PROVE ApprovalInv'
  BY <1>5, GateFinalized, GateRestart
<1> QED BY <1>1, <1>2, <1>3, <1>4, <1>5 DEF Next

(* However decisions, unblock passes, sweeps and workers overlap, a task   *)
(* that needs approval is approved for good or nobody has touched it.      *)
THEOREM ApprovalCorrect == Spec => []ApprovalInv
<1>1. ApprovalIInv /\ [Next]_vars => ApprovalIInv'
  BY TypeStep, GateStep DEF ApprovalIInv
<1>2. Init => ApprovalIInv
  BY TypeInit, GateInit DEF ApprovalIInv
<1>3. ApprovalIInv => ApprovalInv
  BY DEF ApprovalIInv
<1> QED BY <1>1, <1>2, <1>3, PTL DEF Spec

(* No attempt is ever made at a task that needs approval and has none.     *)
THEOREM GateCorrect == Spec => []NoWorkWithoutApproval
<1>1. ApprovalInv => NoWorkWithoutApproval
  BY KindsAssumption DEF ApprovalInv, Gate, Untouched, NoWorkWithoutApproval
<1> QED BY <1>1, ApprovalCorrect, PTL

-------------------------------------------------------------------------------
(* Verdicts that last, where decisions and unblock passes do not overlap   *)

VerdictIInv == ApprovalIInv /\ DecisionInv

-------------------------------------------------------------------------------
(* Rows                                                                    *)

(* What a step may do to a verdict: rejected tasks stay as they are, and   *)
(* nothing goes back to waiting for an approval it has.                    *)
VerdictStep(t) ==
    /\ tasks[t].rejected_at =>
         /\ tasks'[t].rejected_at
         /\ tasks'[t].status = "rejected"
         /\ tasks'[t].attempts = tasks[t].attempts
         /\ ~tasks'[t].approved_at
    /\ Verdict(t)'

LEMMA Booleans ==
    ASSUME TypeInv, NEW t \in Tasks
    PROVE  /\ tasks[t] \in TaskRow
           /\ tasks[t].approved_at \in BOOLEAN /\ tasks[t].rejected_at \in BOOLEAN
BY DEF TypeInv, TypeOK, TaskRow

(* A row that keeps its verdict columns keeps its verdict.                 *)
LEMMA VerdictKept ==
    ASSUME NEW t \in Tasks, Verdict(t),
           tasks'[t].approved_at = tasks[t].approved_at,
           tasks'[t].rejected_at = tasks[t].rejected_at,
           \/ tasks'[t].status = tasks[t].status /\ tasks'[t].attempts = tasks[t].attempts
           \/ ~tasks[t].rejected_at /\ tasks'[t].status # "awaiting_approval"
           \/ ~tasks[t].rejected_at /\ ~tasks[t].approved_at
    PROVE  VerdictStep(t)
BY DEF Verdict, VerdictStep

(* A task that some worker or sweep has is not a rejected one.             *)
LEMMA HeldNotRejected ==
    ASSUME ApprovalIInv, NEW t \in Tasks, Verdict(t), NEW w \in Workers,
           Holds(w, t) \/ (pc[w] = "sweeping" /\ loaded[w][t] # None)
    PROVE  ~tasks[t].rejected_at
BY DEF ApprovalIInv, ApprovalInv, Gate, Untouched, Verdict

-------------------------------------------------------------------------------
(* Steps that respect what is being decided                                *)

(* Rows change, but no column that a decision or an unblock pass judges.   *)
LEMMA SoundKept ==
    ASSUME VerdictIInv, UNCHANGED <<pc, decision, job, loaded>>,
           \A t \in Tasks : \/ tasks[t].status = "absent"
                            \/ /\ tasks'[t].status = tasks[t].status
                               /\ tasks'[t].approved_at = tasks[t].approved_at
                               /\ tasks'[t].rejected_at = tasks[t].rejected_at
    PROVE  /\ \A o \in Operators : DecisionSound(o)'
           /\ \A w \in Workers : UnblockSound(w)'
<1>1. ASSUME NEW o \in Operators PROVE DecisionSound(o)'
  <2>1. DecisionSound(o) /\ o \in Sessions
    BY DEF VerdictIInv, DecisionInv, Sessions
  <2>2. CASE decision[o] # None
    <3>1. job[o] \in Tasks /\ tasks[job[o]].status # "absent"
      BY <2>1, <2>2, KindsAssumption
      DEF VerdictIInv, ApprovalIInv, ApprovalInv, Gate, Known, DecisionSound
    <3> QED BY <2>1, <2>2, <3>1 DEF DecisionSound, Current
  <2>3. CASE decision[o] = None
    BY <2>3 DEF DecisionSound
  <2> QED BY <2>2, <2>3
<1>2. ASSUME NEW w \in Workers PROVE UnblockSound(w)'
  <2>1. UnblockSound(w) /\ w \in Sessions
    BY DEF VerdictIInv, DecisionInv, Sessions
  <2>2. ASSUME NEW t \in Tasks, loaded[w][t] # None PROVE tasks[t].status # "absent"
    BY <2>1, <2>2 DEF VerdictIInv, ApprovalIInv, ApprovalInv, Gate, Known
  <2> QED BY <2>1, <2>2 DEF UnblockSound, Current
<1> QED BY <1>1, <1>2

LEMMA VerdictTasks ==
    ASSUME VerdictIInv, NEW t \in Tasks,
           Create(t) \/ LeaseExpires(t) \/ BackoffElapses(t)
    PROVE  DecisionInv' /\ \A u \in Tasks : VerdictStep(u)
<1>1. tasks \in [Tasks -> TaskRow] /\ \A u \in Tasks : Verdict(u) /\ Gate(u)
  BY DEF VerdictIInv, ApprovalIInv, ApprovalInv, TypeInv, TypeOK, DecisionInv
<1>2. CASE Create(t)
  <2>1. /\ tasks'[t].status = InitialStatus(t)
        /\ ~tasks'[t].rejected_at /\ ~tasks'[t].approved_at
        /\ \A u \in Tasks \ {t} : UNCHANGED tasks[u]
    BY <1>1, <1>2 DEF Create, SetTask, absentTask
  <2>2. tasks[t].status = "absent" /\ ~tasks[t].rejected_at
    BY <1>1, <1>2 DEF Create, Verdict
  <2>3. VerdictStep(t)
    BY <2>1, <2>2 DEF VerdictStep, Verdict
  <2>4. ASSUME NEW u \in Tasks \ {t} PROVE VerdictStep(u)
    BY <1>1, <2>1, VerdictKept
  <2>5. \A o \in Operators : DecisionSound(o)'
    BY <1>2, <2>1, <2>2, SoundKept DEF Create
  <2>6. \A w \in Workers : UnblockSound(w)'
    BY <1>2, <2>1, <2>2, SoundKept DEF Create
  <2> QED BY <2>3, <2>4, <2>5, <2>6 DEF DecisionInv, VerdictStep
<1>3. CASE LeaseExpires(t) \/ BackoffElapses(t)
  <2>1. ASSUME NEW u \in Tasks
        PROVE  /\ tasks'[u].status = tasks[u].status
               /\ tasks'[u].attempts = tasks[u].attempts
               /\ tasks'[u].approved_at = tasks[u].approved_at
               /\ tasks'[u].rejected_at = tasks[u].rejected_at
    BY <1>1, <1>3 DEF LeaseExpires, BackoffElapses, SetTask, TaskRow
  <2>2. ASSUME NEW u \in Tasks PROVE VerdictStep(u)
    BY <1>1, <2>1, VerdictKept
  <2>3. UNCHANGED <<pc, decision, job, loaded>>
    BY <1>3 DEF LeaseExpires, BackoffElapses
  <2>4. /\ \A o \in Operators : DecisionSound(o)'
        /\ \A w \in Workers : UnblockSound(w)'
    BY <2>1, <2>3, SoundKept
  <2> QED BY <2>2, <2>4 DEF DecisionInv, VerdictStep
<1> QED BY <1>2, <1>3

(* Sessions that end without a commit.                                     *)
LEMMA VerdictLost ==
    ASSUME VerdictIInv,
           \/ \E o \in Operators : DecisionLost(o)
           \/ \E w \in Workers : Crash(w) \/ Restart(w)
    PROVE  DecisionInv' /\ \A u \in Tasks : VerdictStep(u)
<1>1. /\ UNCHANGED tasks /\ \A u \in Tasks : Verdict(u)
      /\ pc \in [Workers -> Locations] /\ job \in [Sessions -> Tasks \cup {None}]
      /\ decision \in [Operators -> {None, "blocked", "queued", "rejected"}]
      /\ loaded \in [Sessions -> [Tasks -> TaskRow \cup {None}]]
  BY DEF VerdictIInv, ApprovalIInv, TypeInv, TypeOK, DecisionInv,
         DecisionLost, Crash, Restart, database
<1>2. ASSUME NEW u \in Tasks PROVE VerdictStep(u)
  BY <1>1, VerdictKept
<1>3. ASSUME NEW o \in Operators PROVE DecisionSound(o)'
  <2>1. DecisionSound(o) /\ o \in Sessions
    BY DEF VerdictIInv, DecisionInv, Sessions
  <2>2. \/ decision'[o] = None
        \/ /\ decision'[o] = decision[o] /\ job'[o] = job[o] /\ loaded'[o] = loaded[o]
           /\ \A p \in Operators : decision'[p] \in {decision[p], None}
           /\ \A w \in Workers : pc'[w] \in {pc[w], "down", "polling"}
    BY <1>1, <2>1, SessionsAssumption
    DEF DecisionLost, Crash, Restart, Leave, Close, Goto, Sessions
  <2> QED BY <1>1, <2>1, <2>2 DEF DecisionSound, Current
<1>4. ASSUME NEW w \in Workers PROVE UnblockSound(w)'
  <2>1. UnblockSound(w) /\ w \in Sessions
    BY DEF VerdictIInv, DecisionInv, Sessions
  <2>2. \/ pc'[w] \in {"down", "polling"}
        \/ /\ pc'[w] = pc[w] /\ loaded'[w] = loaded[w]
           /\ \A v \in Workers : pc'[v] \in {pc[v], "down", "polling"}
    BY <1>1, <2>1, SessionsAssumption
    DEF DecisionLost, Crash, Restart, Leave, Close, Goto, Sessions
  <2> QED BY <1>1, <2>1, <2>2 DEF UnblockSound, Current
<1> QED BY <1>2, <1>3, <1>4 DEF DecisionInv, VerdictStep

-------------------------------------------------------------------------------
(* Operators                                                               *)

(* Nobody else is deciding or unblocking.                                  *)
LEMMA Alone ==
    ASSUME DecisionsPrompt, NEW s \in Sessions, Undisturbed(s)
    PROVE  /\ \A o \in Operators \ {s} : decision[o] = None
           /\ \A w \in Workers \ {s} : pc[w] # "unblocking"
BY DEF Undisturbed

LEMMA VerdictDecisionRead ==
    ASSUME VerdictIInv, DecisionsPrompt, NEW o \in Operators, Undisturbed(o),
           NEW t \in Tasks, ApproveRead(o, t) \/ RejectRead(o, t)
    PROVE  DecisionInv' /\ \A u \in Tasks : VerdictStep(u)
<1>1. /\ UNCHANGED <<tasks, pc>> /\ \A u \in Tasks : Verdict(u)
      /\ o \in Sessions /\ t \in NeedsApproval
      /\ ~tasks[t].approved_at /\ ~tasks[t].rejected_at
      /\ job' = [job EXCEPT ![o] = t] /\ Load(o, t)
      /\ \/ decision' = [decision EXCEPT ![o] = ApprovedStatus(t)]
         \/ /\ decision' = [decision EXCEPT ![o] = "rejected"]
            /\ tasks[t].status \in {"blocked", "awaiting_approval"}
      /\ job \in [Sessions -> Tasks \cup {None}]
      /\ decision \in [Operators -> {None, "blocked", "queued", "rejected"}]
      /\ loaded \in [Sessions -> [Tasks -> TaskRow \cup {None}]]
  BY DEF VerdictIInv, ApprovalIInv, TypeInv, TypeOK, DecisionInv, Sessions,
         ApproveRead, RejectRead, MayApprove, MayReject, database
<1>2. ASSUME NEW u \in Tasks PROVE VerdictStep(u)
  BY <1>1, VerdictKept
<1>3. /\ \A p \in Operators \ {o} : decision[p] = None
      /\ \A w \in Workers : pc[w] # "unblocking"
  BY <1>1, SessionsAssumption, Alone
<1>4. loaded'[o][t] = tasks[t]
  BY <1>1 DEF Load, Nothing
<1>5. ASSUME NEW p \in Operators PROVE DecisionSound(p)'
  <2>1. CASE p # o
    BY <1>1, <1>3, <2>1 DEF DecisionSound
  <2>2. CASE p = o
    <3>1. job'[o] = t /\ \A q \in Operators \ {o} : decision'[q] = None
      BY <1>1, <1>3
    <3>2. decision'[o] = "rejected" => tasks[t].status \in {"blocked", "awaiting_approval"}
      BY <1>1 DEF ApprovedStatus
    <3> QED BY <1>1, <1>3, <1>4, <2>2, <3>1, <3>2 DEF DecisionSound, Current
  <2> QED BY <2>1, <2>2
<1>6. ASSUME NEW w \in Workers PROVE UnblockSound(w)'
  BY <1>1, <1>3 DEF UnblockSound
<1> QED BY <1>2, <1>5, <1>6 DEF DecisionInv, VerdictStep

(* The commit finds the row as the request read it.                        *)
LEMMA VerdictDecisionCommit ==
    ASSUME VerdictIInv, DecisionsPrompt, NEW o \in Operators, Undisturbed(o),
           DecisionCommit(o)
    PROVE  DecisionInv' /\ \A u \in Tasks : VerdictStep(u)
<1>0. PICK t \in Tasks : t = job[o]
  BY DEF VerdictIInv, ApprovalIInv, TypeInv, SessionsOK, OperatorOK, DecisionCommit
<1> DEFINE old == loaded[o][t]
<1>1. /\ \A u \in Tasks : Verdict(u)
      /\ o \in Sessions /\ old \in TaskRow /\ old # None
      /\ tasks \in [Tasks -> TaskRow]
      /\ decision \in [Operators -> {None, "blocked", "queued", "rejected"}]
      /\ decision[o] # None /\ UNCHANGED pc
      /\ decision' = [decision EXCEPT ![o] = None]
      /\ tasks' = [tasks EXCEPT ![t] = Decided(tasks[t], old, decision[o])]
  BY <1>0, RowAssumption
  DEF VerdictIInv, ApprovalIInv, TypeInv, TypeOK, SessionsOK, OperatorOK, DecisionInv,
      Sessions, DecisionCommit, SetTask
<1>2. /\ \A p \in Operators \ {o} : decision[p] = None
      /\ \A w \in Workers : pc[w] # "unblocking"
  BY <1>1, SessionsAssumption, Alone
<1>3. /\ t \in NeedsApproval
      /\ old.status = tasks[t].status /\ old.approved_at = tasks[t].approved_at
      /\ ~tasks[t].approved_at /\ ~tasks[t].rejected_at
      /\ decision[o] = "rejected" => tasks[t].status \in {"blocked", "awaiting_approval"}
  BY <1>0, <1>1 DEF VerdictIInv, DecisionInv, DecisionSound, Current
<1>4. tasks'[t] = Decided(tasks[t], old, decision[o]) /\ tasks[t] \in TaskRow
  BY <1>1
<1>5. ASSUME decision[o] = "rejected" PROVE VerdictStep(t)
  <2> HIDE DEF old
  <2>1. tasks'[t].status = "rejected" /\ ~tasks'[t].approved_at
    BY <1>1, <1>3, <1>4, <1>5 DEF Decided, FlushTask, Flush, TaskRow
  <2> QED BY <1>3, <2>1 DEF VerdictStep, Verdict
<1>6. ASSUME decision[o] # "rejected" PROVE VerdictStep(t)
  <2>1. decision[o] \in {"blocked", "queued"}
    BY <1>1, <1>6
  <2> HIDE DEF old
  <2>2. tasks'[t].status = decision[o] /\ tasks'[t].rejected_at = tasks[t].rejected_at
    BY <1>1, <1>3, <1>4, <1>6 DEF Decided, FlushTask, Flush, TaskRow
  <2> QED BY <1>3, <2>1, <2>2 DEF VerdictStep, Verdict
<1>7. VerdictStep(t)
  BY <1>5, <1>6
<1>8. ASSUME NEW u \in Tasks \ {t} PROVE VerdictStep(u)
  BY <1>1, VerdictKept
<1>9. \A u \in Tasks : VerdictStep(u)
  BY <1>7, <1>8
<1>10. ASSUME NEW p \in Operators PROVE DecisionSound(p)'
  BY <1>1, <1>2 DEF DecisionSound
<1>11. ASSUME NEW w \in Workers PROVE UnblockSound(w)'
  BY <1>1, <1>2 DEF UnblockSound
<1> QED BY <1>9, <1>10, <1>11 DEF DecisionInv, VerdictStep

-------------------------------------------------------------------------------
(* Workers                                                                 *)

(* While a worker steps, no decision is pending and no other unblock pass. *)
LEMMA WorkerSound ==
    ASSUME VerdictIInv, DecisionsPrompt, NEW w \in Workers, Undisturbed(w),
           UNCHANGED decision,
           \A v \in Workers \ {w} : pc'[v] = pc[v],
           pc'[w] # "unblocking"
    PROVE  /\ \A o \in Operators : DecisionSound(o)'
           /\ \A v \in Workers : UnblockSound(v)'
<1>1. w \in Sessions
  BY DEF Sessions
<1>2. \A o \in Operators : decision[o] = None
  BY <1>1, SessionsAssumption, Alone
<1>3. \A v \in Workers \ {w} : pc[v] # "unblocking"
  BY <1>1, Alone
<1> QED BY <1>2, <1>3 DEF DecisionSound, UnblockSound

LEMMA VerdictUnblockRead ==
    ASSUME VerdictIInv, DecisionsPrompt, NEW w \in Workers, Undisturbed(w), UnblockRead(w)
    PROVE  DecisionInv' /\ \A u \in Tasks : VerdictStep(u)
<1>1. /\ UNCHANGED <<tasks, decision>> /\ \A u \in Tasks : Verdict(u)
      /\ w \in Sessions /\ pc \in [Workers -> Locations]
      /\ loaded \in [Sessions -> [Tasks -> TaskRow \cup {None}]]
      /\ Goto(w, "unblocking") /\ LoadAll(w, {"blocked"})
  BY DEF VerdictIInv, ApprovalIInv, TypeInv, TypeOK, DecisionInv, Sessions,
         UnblockRead, database
<1>2. ASSUME NEW u \in Tasks PROVE VerdictStep(u)
  BY <1>1, VerdictKept
<1>3. /\ \A o \in Operators : decision[o] = None
      /\ \A v \in Workers \ {w} : pc[v] # "unblocking"
  BY <1>1, SessionsAssumption, Alone
<1>4. ASSUME NEW o \in Operators PROVE DecisionSound(o)'
  BY <1>1, <1>3 DEF DecisionSound
<1>5. ASSUME NEW v \in Workers PROVE UnblockSound(v)'
  BY <1>1, <1>3 DEF UnblockSound, Goto, LoadAll, Current
<1> QED BY <1>2, <1>4, <1>5 DEF DecisionInv, VerdictStep

LEMMA VerdictUnblockCommit ==
    ASSUME VerdictIInv, NEW w \in Workers, UnblockCommit(w), NEW t \in Tasks
    PROVE  VerdictStep(t)
<1> DEFINE old == loaded[w][t]
           new == [old EXCEPT !.status = Unblocked(t, old)]
<1>1. /\ Verdict(t) /\ tasks[t] \in TaskRow /\ old \in TaskRow \cup {None}
      /\ tasks' = [u \in Tasks |-> IF loaded[w][u] # None /\ DependenciesDone(u)
                     THEN FlushTask(tasks[u], loaded[w][u],
                            [loaded[w][u] EXCEPT !.status = Unblocked(u, loaded[w][u])])
                     ELSE tasks[u]]
  BY DEF VerdictIInv, ApprovalIInv, TypeInv, TypeOK, DecisionInv, Sessions, UnblockCommit
<1>2. CASE ~(old # None /\ DependenciesDone(t))
  BY <1>1, <1>2, VerdictKept
<1>3. CASE old # None /\ DependenciesDone(t)
  <2>1. tasks[t].status = "blocked" /\ old.approved_at = tasks[t].approved_at
    BY <1>3 DEF VerdictIInv, DecisionInv, UnblockSound, UnblockCommit, Current
  <2>2. /\ new \in TaskRow /\ new.approved_at = old.approved_at
        /\ new.rejected_at = old.rejected_at
        /\ new.status \in {"queued", "awaiting_approval"}
        /\ new.status = "awaiting_approval" => ~old.approved_at
    BY <1>1, <1>3, StatusesListed DEF Unblocked, TaskRow
  <2>3. tasks'[t] = FlushTask(tasks[t], old, new)
    BY <1>1, <1>3
  <2> HIDE DEF new, old
  <2>4. /\ tasks'[t].approved_at = tasks[t].approved_at
        /\ tasks'[t].rejected_at = tasks[t].rejected_at
        /\ tasks'[t].status \in {tasks[t].status, new.status}
    <3>1. old \in TaskRow
      BY <1>1, <1>3
    <3>2. /\ FlushTask(tasks[t], old, new).approved_at = tasks[t].approved_at
          /\ FlushTask(tasks[t], old, new).rejected_at = tasks[t].rejected_at
          /\ FlushTask(tasks[t], old, new).status \in {tasks[t].status, new.status}
      BY <1>1, <2>2, <3>1, FlushKeepsVerdict
    <3> QED BY <2>3, <3>2
  <2>5. ~tasks[t].rejected_at
    BY <1>1, <2>1 DEF Verdict
  <2> QED BY <1>1, <2>1, <2>2, <2>4, <2>5, VerdictKept
<1> QED BY <1>2, <1>3

LEMMA VerdictSweepCommit ==
    ASSUME VerdictIInv, NEW w \in Workers, SweepCommit(w), NEW t \in Tasks
    PROVE  VerdictStep(t)
<1> DEFINE old == loaded[w][t]
<1>1. /\ Verdict(t) /\ tasks[t] \in TaskRow /\ old \in TaskRow \cup {None}
      /\ tasks'[t] = IF old = None THEN tasks[t] ELSE Requeued(tasks[t], old)
  BY DEF VerdictIInv, ApprovalIInv, TypeInv, TypeOK, DecisionInv, Sessions, SweepCommit
<1>2. CASE old = None
  BY <1>1, <1>2, VerdictKept
<1>3. CASE old # None
  <2>1. ~tasks[t].rejected_at
    BY <1>1, <1>3, HeldNotRejected DEF VerdictIInv, SweepCommit
  <2>2. old \in TaskRow /\ tasks'[t] = Requeued(tasks[t], old)
    BY <1>1, <1>3
  <2> HIDE DEF old
  <2>3. /\ Requeued(tasks[t], old).approved_at = tasks[t].approved_at
        /\ Requeued(tasks[t], old).rejected_at = tasks[t].rejected_at
        /\ Requeued(tasks[t], old).status \in {tasks[t].status, "failed", "retry_wait"}
    BY <1>1, <2>2, RequeuedKeepsVerdict
  <2>4. tasks[t].approved_at => tasks[t].status # "awaiting_approval"
    BY <1>1 DEF Verdict
  <2> QED BY <1>1, <2>1, <2>2, <2>3, <2>4, VerdictKept
<1> QED BY <1>2, <1>3

LEMMA VerdictClaim ==
    ASSUME VerdictIInv, NEW w \in Workers, NEW u \in Tasks, Claim(w, u), NEW t \in Tasks
    PROVE  VerdictStep(t)
<1>1. Verdict(t) /\ tasks \in [Tasks -> TaskRow]
  BY DEF VerdictIInv, ApprovalIInv, TypeInv, TypeOK, DecisionInv
<1>2. CASE t # u
  BY <1>1, <1>2, VerdictKept DEF Claim, SetTask
<1>3. CASE t = u
  <2>1. /\ tasks'[t].status = "processing"
        /\ tasks'[t].approved_at = tasks[t].approved_at
        /\ tasks'[t].rejected_at = tasks[t].rejected_at
    BY <1>1, <1>3 DEF Claim, SetTask, TaskRow
  <2>2. ~tasks[t].rejected_at
    BY <1>1, <1>3 DEF Verdict, Claim, Claimable
  <2> QED BY <1>1, <2>1, <2>2, VerdictKept
<1> QED BY <1>2, <1>3

(* The row of the task a worker holds, whatever it commits.                *)
LEMMA VerdictHeld ==
    ASSUME VerdictIInv, NEW w \in Workers, pc[w] \in Working, NEW row,
           SetTask(job[w], row),
           row.approved_at = tasks[job[w]].approved_at,
           row.rejected_at = tasks[job[w]].rejected_at,
           row.status \in {tasks[job[w]].status, "completed", "failed", "retry_wait"},
           NEW t \in Tasks
    PROVE  VerdictStep(t)
<1>1. Verdict(t) /\ tasks \in [Tasks -> TaskRow] /\ job[w] \in Tasks
  BY DEF VerdictIInv, ApprovalIInv, TypeInv, TypeOK, SessionsOK, WorkerOK, DecisionInv
<1>2. CASE t # job[w]
  BY <1>1, <1>2, VerdictKept DEF SetTask
<1>3. CASE t = job[w]
  <2>1. ~tasks[t].rejected_at
    BY <1>1, <1>3, HeldNotRejected DEF VerdictIInv, Holds
  <2>2. tasks[t].approved_at => tasks[t].status # "awaiting_approval"
    BY <1>1 DEF Verdict
  <2>3. tasks'[t] = row
    BY <1>1, <1>3 DEF SetTask
  <2> QED BY <1>1, <1>3, <2>1, <2>2, <2>3, VerdictKept
<1> QED BY <1>2, <1>3

LEMMA VerdictProgress ==
    ASSUME VerdictIInv, NEW w \in Workers,
           \/ Heartbeat(w) \/ RefreshLease(w) \/ Checkpoint(w)
           \/ Complete(w) \/ FinalizeFailure(w),
           NEW t \in Tasks
    PROVE  VerdictStep(t)
<1>1. /\ pc[w] \in Working /\ job[w] \in Tasks /\ tasks[job[w]] \in TaskRow
      /\ pc[w] \in {"completing", "failing"} => loaded[w][job[w]] \in TaskRow
  BY DEF VerdictIInv, ApprovalIInv, TypeInv, TypeOK, SessionsOK, WorkerOK, Working,
         Heartbeat, RefreshLease, Checkpoint, Complete, FinalizeFailure
<1>2. PICK row : /\ SetTask(job[w], row)
                 /\ row.approved_at = tasks[job[w]].approved_at
                 /\ row.rejected_at = tasks[job[w]].rejected_at
                 /\ row.status \in {tasks[job[w]].status, "completed", "failed", "retry_wait"}
  <2>1. CASE Heartbeat(w) \/ RefreshLease(w)
    <3>1. SetTask(job[w], [tasks[job[w]] EXCEPT !.last_heartbeat_at = "fresh"])
      BY <2>1 DEF Heartbeat, RefreshLease
    <3> QED BY <1>1, <3>1 DEF TaskRow
  <2>2. CASE Checkpoint(w)
    <3>1. SetTask(job[w], [tasks[job[w]] EXCEPT !.checkpointed = TRUE])
      BY <2>2 DEF Checkpoint
    <3> QED BY <1>1, <3>1 DEF TaskRow
  <2>3. CASE Complete(w)
    <3> DEFINE old == loaded[w][job[w]]
               new == [old EXCEPT !.status = "completed", !.locked_by = None,
                                  !.last_heartbeat_at = None, !.next_attempt_at = None]
               flushed == FlushTask(tasks[job[w]], old, new)
    <3>1. /\ new \in TaskRow /\ new.approved_at = old.approved_at
          /\ new.rejected_at = old.rejected_at /\ new.status = "completed"
      BY <1>1, <2>3, StatusesListed DEF Complete, TaskRow
    <3>2. SetTask(job[w], [flushed EXCEPT !.checkpointed = FALSE]) /\ old \in TaskRow
      BY <1>1, <2>3 DEF Complete
    <3> HIDE DEF new, old
    <3>3a. flushed \in TaskRow
      BY <1>1, <3>1, <3>2, FlushTaskType
    <3>3b. /\ flushed.approved_at = tasks[job[w]].approved_at
           /\ flushed.rejected_at = tasks[job[w]].rejected_at
           /\ flushed.status \in {tasks[job[w]].status, new.status}
      BY <1>1, <3>1, <3>2, FlushKeepsVerdict
    <3>3. /\ flushed \in TaskRow
          /\ flushed.approved_at = tasks[job[w]].approved_at
          /\ flushed.rejected_at = tasks[job[w]].rejected_at
          /\ flushed.status \in {tasks[job[w]].status, "completed"}
      BY <3>1, <3>3a, <3>3b
    <3> HIDE DEF flushed
    <3> QED BY <3>2, <3>3 DEF TaskRow
  <2>4. CASE FinalizeFailure(w)
    BY <1>1, <2>4, FailedKeepsVerdict DEF FinalizeFailure
  <2> QED BY <2>1, <2>2, <2>3, <2>4
<1> QED BY <1>1, <1>2, VerdictHeld

LEMMA VerdictWorker ==
    ASSUME VerdictIInv, DecisionsPrompt, NEW w \in Workers, Undisturbed(w), WorkerStep(w)
    PROVE  DecisionInv' /\ \A t \in Tasks : VerdictStep(t)
<1>1. CASE UnblockRead(w)
  BY <1>1, VerdictUnblockRead
<1>2. CASE ~UnblockRead(w)
  <2>1. /\ UNCHANGED decision
        /\ \A v \in Workers \ {w} : pc'[v] = pc[v]
        /\ pc'[w] # "unblocking"
    <3>1. pc \in [Workers -> Locations] /\ (pc[w] \in Working => pc[w] # "unblocking")
      BY LocationsDistinct DEF VerdictIInv, ApprovalIInv, TypeInv, TypeOK
    <3>2. UNCHANGED decision
      BY <1>2 DEF WorkerStep, Proceed, UnblockCommit, SweepRead, SweepCommit, Claim,
         Heartbeat, RefreshLease, ReuseCheckpoint, Execute, Checkpoint, WriteContext,
         Complete, StepFails, FinalizeFailure
    <3>3. \/ UNCHANGED pc /\ pc[w] \in Working
          \/ \E location \in Locations \ {"unblocking"} : Goto(w, location)
      BY <1>2 DEF WorkerStep, Proceed, UnblockCommit, SweepRead, SweepCommit, Claim,
         Heartbeat, RefreshLease, ReuseCheckpoint, Execute, Checkpoint, WriteContext,
         Complete, StepFails, FinalizeFailure, Leave, Locations, Working
    <3> QED BY <3>1, <3>2, <3>3 DEF Goto
  <2>2. /\ \A o \in Operators : DecisionSound(o)'
        /\ \A v \in Workers : UnblockSound(v)'
    BY <2>1, WorkerSound
  <2>3. ASSUME NEW t \in Tasks PROVE VerdictStep(t)
    <3>1. CASE UNCHANGED tasks
      BY <3>1, VerdictKept DEF VerdictIInv, DecisionInv
    <3>2. CASE ~UNCHANGED tasks
      <4>1. \/ UnblockCommit(w) \/ SweepCommit(w) \/ \E u \in Tasks : Claim(w, u)
            \/ Heartbeat(w) \/ RefreshLease(w) \/ Checkpoint(w)
            \/ Complete(w) \/ FinalizeFailure(w)
        BY <1>2, <3>2 DEF WorkerStep, Proceed, SweepRead, ReuseCheckpoint, Execute,
           WriteContext, StepFails, database
      <4> QED BY <4>1, VerdictUnblockCommit, VerdictSweepCommit, VerdictClaim,
                 VerdictProgress
    <3> QED BY <3>1, <3>2
  <2> QED BY <2>2, <2>3 DEF DecisionInv, VerdictStep
<1> QED BY <1>1, <1>2

-------------------------------------------------------------------------------
(* Theorems                                                                *)

LEMMA VerdictInit == Init => DecisionInv
BY LocationsDistinct
DEF Init, DecisionInv, DecisionSound, UnblockSound, Verdict, absentTask

LEMMA VerdictNext ==
    ASSUME DecisionsPrompt, VerdictIInv, Next
    PROVE  DecisionInv' /\ \A t \in Tasks : VerdictStep(t)
<1>1. ASSUME NEW t \in Tasks, Create(t) \/ LeaseExpires(t) \/ BackoffElapses(t)
      PROVE  DecisionInv' /\ \A u \in Tasks : VerdictStep(u)
  BY <1>1, VerdictTasks
<1>2. ASSUME NEW w \in Workers, Undisturbed(w), WorkerStep(w)
      PROVE  DecisionInv' /\ \A u \in Tasks : VerdictStep(u)
  BY <1>2, VerdictWorker
<1>3. ASSUME NEW o \in Operators, Undisturbed(o), OperatorStep(o)
      PROVE  DecisionInv' /\ \A u \in Tasks : VerdictStep(u)
  BY <1>3, VerdictDecisionRead, VerdictDecisionCommit DEF OperatorStep
<1>4. ASSUME \/ \E o \in Operators : DecisionLost(o)
             \/ \E w \in Workers : Crash(w) \/ Restart(w)
      PROVE  DecisionInv' /\ \A u \in Tasks : VerdictStep(u)
  BY <1>4, VerdictLost
<1> QED BY <1>1, <1>2, <1>3, <1>4 DEF Next

LEMMA VerdictInductive ==
    ASSUME DecisionsPrompt PROVE Spec => []VerdictIInv
<1>1. VerdictIInv /\ [Next]_vars => VerdictIInv'
  <2> SUFFICES ASSUME VerdictIInv, [Next]_vars PROVE VerdictIInv'
    OBVIOUS
  <2>1. ApprovalIInv'
    BY TypeStep, GateStep DEF VerdictIInv, ApprovalIInv
  <2>2. CASE Next
    BY <2>1, <2>2, VerdictNext DEF VerdictIInv
  <2>3. CASE UNCHANGED vars
    BY <2>1, <2>3 DEF VerdictIInv, DecisionInv, DecisionSound, UnblockSound, Verdict,
       Current, vars, database
  <2> QED BY <2>2, <2>3
<1>2. Init => VerdictIInv
  BY TypeInit, GateInit, VerdictInit DEF VerdictIInv, ApprovalIInv
<1> QED BY <1>1, <1>2, PTL DEF Spec

(* Where decisions do not overlap, they never leave a verdict half there.  *)
THEOREM DecisionCorrect ==
    ASSUME DecisionsPrompt PROVE Spec => []DecisionInv
<1>1. VerdictIInv => DecisionInv
  BY DEF VerdictIInv
<1> QED BY <1>1, VerdictInductive, PTL

(* Where decisions do not overlap, an approved task never waits for one.   *)
THEOREM ApprovalKept ==
    ASSUME DecisionsPrompt PROVE Spec => []ApprovalIsKept
<1>1. VerdictIInv => ApprovalIsKept
  BY DEF VerdictIInv, DecisionInv, Verdict, ApprovalIsKept
<1> QED BY <1>1, VerdictInductive, PTL

(* Where decisions do not overlap, a rejected task is never touched again. *)
THEOREM RejectionFinal ==
    ASSUME DecisionsPrompt PROVE Spec => RejectionIsFinal
<1> DEFINE Final == \A t \in Tasks : tasks[t].rejected_at =>
                      /\ tasks'[t].status = "rejected"
                      /\ tasks'[t].attempts = tasks[t].attempts
                      /\ ~tasks'[t].approved_at
<1>1. VerdictIInv /\ [Next]_vars => [Final]_vars
  BY VerdictNext DEF VerdictStep
<1> QED BY <1>1, VerdictInductive, PTL DEF Spec, RejectionIsFinal

===============================================================================
