------------------------- MODULE AgentTaskLeaseProofs -------------------------
(***************************************************************************)
(* Proofs that attempts, effects and dependencies of agent tasks are       *)
(* accounted for, for any tasks, workers and requests, in a prompt         *)
(* deployment.                                                             *)
(***************************************************************************)
EXTENDS AgentTaskProofs

LeaseIInv == VerdictIInv /\ LeaseInv

-------------------------------------------------------------------------------
(* Rows and their attempt rows                                             *)

LEMMA RowColumns ==
    ASSUME NEW row \in TaskRow
    PROVE  /\ row.status \in Statuses /\ row.attempts \in Nat
           /\ row.checkpointed \in BOOLEAN /\ row.approved_at \in BOOLEAN
BY DEF TaskRow

LEMMA StatusesSplit ==
    /\ Statuses = Unbegun \cup Ready
    /\ Unbegun \cap Ready = {"queued"}
    /\ {"processing", "completed", "retry_wait", "failed"} \cap Unbegun = {}
BY DEF Statuses, Ended, Unbegun, Ready

(* A task that is being processed has an open attempt, its last one.       *)
LEMMA OpenAttempt ==
    ASSUME NEW row \in TaskRow, NEW attempts \in Seq(AttemptStatuses),
           AttemptsSound(row, attempts), row.status = "processing"
    PROVE  /\ row.attempts \in 1 .. Len(attempts) /\ Len(attempts) = row.attempts
           /\ attempts[row.attempts] = "processing"
<1>1. PICK n \in 1 .. Len(attempts) : attempts[n] = "processing"
  BY DEF AttemptsSound
<1>2. Len(attempts) \in Nat /\ Len(attempts) = row.attempts
  BY LenProperties DEF AttemptsSound
<1>3. n = Len(attempts)
  BY <1>1, <1>2 DEF AttemptsSound
<1> QED BY <1>1, <1>2, <1>3

LEMMA SameAttempts ==
    ASSUME NEW row \in TaskRow, NEW new \in TaskRow, NEW attempts,
           AttemptsSound(row, attempts),
           new.status = row.status, new.attempts = row.attempts,
           row.status \in Unbegun => new.checkpointed = row.checkpointed
    PROVE  AttemptsSound(new, attempts)
BY DEF AttemptsSound

LEMMA NoAttempts ==
    ASSUME NEW row \in TaskRow, NEW new \in TaskRow, NEW attempts,
           AttemptsSound(row, attempts), row.status \in Unbegun, new.status \in Unbegun,
           new.attempts = 0, ~new.checkpointed
    PROVE  AttemptsSound(new, attempts)
<1>1. Len(attempts) = 0 /\ row.status \notin {"processing", "completed"}
      /\ new.status \notin {"processing", "completed", "retry_wait"}
  BY StatusesSplit DEF AttemptsSound
<1> QED BY <1>1, MaxAttemptsAssumption DEF AttemptsSound

LEMMA AttemptOpened ==
    ASSUME NEW row \in TaskRow, NEW new \in TaskRow,
           NEW attempts \in Seq(AttemptStatuses), AttemptsSound(row, attempts),
           row.status \in {"queued", "retry_wait"}, new.status = "processing",
           new.attempts = row.attempts + 1
    PROVE  AttemptsSound(new, Append(attempts, "processing"))
<1> DEFINE more == Append(attempts, "processing")
<1>1. Len(attempts) \in Nat /\ Len(attempts) = row.attempts /\ row.attempts < MaxAttempts
  BY LenProperties, MaxAttemptsAssumption DEF AttemptsSound, Unbegun
<1>2. /\ Len(more) = Len(attempts) + 1 /\ more[Len(attempts) + 1] = "processing"
      /\ \A n \in 1 .. Len(attempts) : more[n] = attempts[n]
  BY AppendProperties DEF AttemptStatuses
<1>3. \A n \in 1 .. Len(attempts) : attempts[n] \in {"failed", "abandoned"}
  <2>1. \A n \in 1 .. Len(attempts) : attempts[n] \in AttemptStatuses
    BY ElementOfSeq
  <2>2. \A n \in 1 .. Len(attempts) : attempts[n] \notin {"processing", "completed"}
    BY DEF AttemptsSound
  <2> QED BY <2>1, <2>2 DEF AttemptStatuses
<1> HIDE DEF more
<1>4. \A n \in 1 .. Len(more) : n = Len(attempts) + 1 \/ more[n] \in {"failed", "abandoned"}
  BY <1>1, <1>2, <1>3
<1>5. \A n \in 1 .. Len(more) - 1 : more[n] \in {"failed", "abandoned"}
  BY <1>1, <1>2, <1>4
<1>6. \E n \in 1 .. Len(more) : more[n] = "processing"
  BY <1>1, <1>2
<1>7. \A n \in 1 .. Len(more) : more[n] # "completed"
  BY <1>1, <1>2, <1>4
<1>8. Len(more) = new.attempts /\ new.attempts <= MaxAttempts
  BY <1>1, <1>2, MaxAttemptsAssumption
<1>9. AttemptsSound(new, more)
  BY <1>5, <1>6, <1>7, <1>8, StatusesSplit DEF AttemptsSound
<1> QED BY <1>9 DEF more

(* What EndAttempt and a sweep make of the attempt rows.                   *)
ClosedAs(closed, attempts, k, s) ==
    /\ Len(closed) = Len(attempts)
    /\ \A n \in 1 .. Len(attempts) : closed[n] = IF n = k THEN s ELSE attempts[n]

LEMMA AttemptClosed ==
    ASSUME NEW row \in TaskRow, NEW new \in TaskRow, NEW attempts \in Seq(AttemptStatuses),
           AttemptsSound(row, attempts), row.status = "processing",
           NEW s \in {"completed", "failed", "abandoned"}, NEW closed,
           ClosedAs(closed, attempts, row.attempts, s),
           new.attempts = row.attempts,
           new.status \in {"completed", "failed", "retry_wait"},
           new.status = "completed" <=> s = "completed",
           new.status = "retry_wait" => row.attempts < MaxAttempts
    PROVE  AttemptsSound(new, closed)
<1>0. Len(closed) = Len(attempts)
      /\ \A n \in 1 .. Len(attempts) : closed[n] = IF n = row.attempts THEN s ELSE attempts[n]
  BY DEF ClosedAs
<1>1. /\ row.attempts \in 1 .. Len(attempts) /\ Len(attempts) = row.attempts
      /\ row.attempts <= MaxAttempts
  BY OpenAttempt DEF AttemptsSound
<1>2. \A n \in 1 .. Len(attempts) - 1 : closed[n] \in {"failed", "abandoned"}
  BY <1>0, <1>1 DEF AttemptsSound
<1>3. closed[row.attempts] = s
  BY <1>0, <1>1
<1>4. \A n \in 1 .. Len(attempts) : n = row.attempts \/ n \in 1 .. Len(attempts) - 1
  BY <1>1
<1>5. \A n \in 1 .. Len(closed) : closed[n] # "processing"
  BY <1>0, <1>2, <1>3, <1>4
<1>6. (\E n \in 1 .. Len(closed) : closed[n] = "completed") <=> s = "completed"
  BY <1>0, <1>1, <1>2, <1>3, <1>4
<1>7. new.status \notin Unbegun /\ new.status # "processing"
  BY StatusesSplit
<1> QED BY <1>0, <1>1, <1>2, <1>5, <1>6, <1>7 DEF AttemptsSound

LEMMA EndedAttempts ==
    ASSUME NEW attempts \in Seq(AttemptStatuses), NEW k, NEW s \in AttemptStatuses
    PROVE  LET ended == [n \in DOMAIN attempts |-> IF n = k THEN s ELSE attempts[n]]
           IN  ClosedAs(ended, attempts, k, s)
<1> DEFINE ended == [n \in DOMAIN attempts |-> IF n = k THEN s ELSE attempts[n]]
<1>1. ended \in Seq(AttemptStatuses)
  BY EndedAttemptsType
<1>2. /\ Len(attempts) \in Nat /\ DOMAIN attempts = 1 .. Len(attempts)
      /\ Len(ended) \in Nat /\ DOMAIN ended = 1 .. Len(ended)
  BY <1>1, LenProperties
<1>3. DOMAIN ended = DOMAIN attempts
  OBVIOUS
<1>4. \A n \in DOMAIN attempts : ended[n] = IF n = k THEN s ELSE attempts[n]
  OBVIOUS
<1> HIDE DEF ended
<1>5. Len(ended) = Len(attempts)
  <2>1. 1 .. Len(ended) = 1 .. Len(attempts)
    BY <1>2, <1>3
  <2>2. ASSUME NEW m \in Nat, NEW n \in Nat, 1 .. m = 1 .. n PROVE m = n
    <3>1. m \in 1 .. m \/ m = 0
      OBVIOUS
    <3>2. n \in 1 .. n \/ n = 0
      OBVIOUS
    <3>3. (m \in 1 .. n \/ m = 0) /\ (n \in 1 .. m \/ n = 0)
      BY <2>2, <3>1, <3>2
    <3> QED BY <3>3
  <2> QED BY <1>2, <2>1, <2>2, Zenon
<1>6. /\ Len(ended) = Len(attempts)
      /\ \A n \in 1 .. Len(attempts) : ended[n] = IF n = k THEN s ELSE attempts[n]
  BY <1>2, <1>4, <1>5
<1>7. ClosedAs(ended, attempts, k, s)
  BY <1>6 DEF ClosedAs
<1> QED BY <1>7 DEF ended

LEMMA AbandonedAttempts ==
    ASSUME NEW attempts \in Seq(AttemptStatuses), NEW k \in 1 .. Len(attempts),
           attempts[k] = "processing"
    PROVE  ClosedAs(Abandoned(attempts, k), attempts, k, "abandoned")
<1>1. DOMAIN attempts = 1 .. Len(attempts)
  BY LenProperties
<1>2. Abandoned(attempts, k) = [attempts EXCEPT ![k] = "abandoned"]
  BY <1>1 DEF Abandoned
<1>3. [attempts EXCEPT ![k] = "abandoned"]
        = [n \in DOMAIN attempts |-> IF n = k THEN "abandoned" ELSE attempts[n]]
  BY <1>1
<1>4. "abandoned" \in AttemptStatuses
  BY DEF AttemptStatuses
<1>5. LET ended == [n \in DOMAIN attempts |-> IF n = k THEN "abandoned" ELSE attempts[n]]
      IN  ClosedAs(ended, attempts, k, "abandoned")
  BY <1>4, EndedAttempts
<1> QED BY <1>2, <1>3, <1>5

(* The rows that are written, where they were judged on what is stored.    *)
LEMMA FlushedStatus ==
    ASSUME NEW row \in TaskRow, NEW old \in TaskRow, NEW new, old.status = row.status
    PROVE  /\ FlushTask(row, old, new).status = new.status
           /\ FlushTask(row, old, new).attempts = row.attempts
           /\ FlushTask(row, old, new).checkpointed = row.checkpointed
BY DEF FlushTask, Flush

LEMMA DecidedColumns ==
    ASSUME NEW row \in TaskRow, NEW old \in TaskRow, old.status = row.status,
           NEW status \in {"blocked", "queued", "rejected"}
    PROVE  /\ Decided(row, old, status).status = status
           /\ Decided(row, old, status).attempts = row.attempts
           /\ Decided(row, old, status).checkpointed = row.checkpointed
<1> DEFINE rejected == [old EXCEPT !.status = "rejected", !.rejected_at = TRUE,
                                   !.next_attempt_at = None]
           approved == [old EXCEPT !.status = status, !.approved_at = TRUE]
<1>1. rejected.status = "rejected" /\ approved.status = status
  BY DEF TaskRow
<1>2. Decided(row, old, status) =
        IF status = "rejected" THEN FlushTask(row, old, rejected)
        ELSE FlushTask(row, old, approved)
  BY DEF Decided
<1> HIDE DEF rejected, approved
<1>3. /\ FlushTask(row, old, rejected).status = "rejected"
      /\ FlushTask(row, old, rejected).attempts = row.attempts
      /\ FlushTask(row, old, rejected).checkpointed = row.checkpointed
  BY <1>1, FlushedStatus
<1>4. /\ FlushTask(row, old, approved).status = status
      /\ FlushTask(row, old, approved).attempts = row.attempts
      /\ FlushTask(row, old, approved).checkpointed = row.checkpointed
  BY <1>1, FlushedStatus
<1> QED BY <1>2, <1>3, <1>4

LEMMA RequeuedColumns ==
    ASSUME NEW row \in TaskRow
    PROVE  /\ Requeued(row, row).status =
                IF row.attempts >= MaxAttempts THEN "failed" ELSE "retry_wait"
           /\ Requeued(row, row).attempts = row.attempts
           /\ Requeued(row, row).checkpointed = row.checkpointed
<1> DEFINE status == IF row.attempts >= MaxAttempts THEN "failed" ELSE "retry_wait"
           new    == [[row EXCEPT !.locked_by = None, !.last_heartbeat_at = None]
                        EXCEPT !.status = status]
           swept  == FlushTask(row, row, new)
<1>1. new.status = status
  BY DEF TaskRow
<1> HIDE DEF new
<1>2. swept.status = status /\ swept.attempts = row.attempts
  BY <1>1, FlushedStatus
<1>3. DOMAIN swept = {"status", "approved_at", "rejected_at", "attempts", "locked_by",
                      "last_heartbeat_at", "next_attempt_at", "checkpointed"}
  BY DEF FlushTask
<1>4. Requeued(row, row) =
        [swept EXCEPT !.next_attempt_at = IF row.attempts >= MaxAttempts THEN @ ELSE "due",
                      !.checkpointed = row.checkpointed]
  BY DEF Requeued, new
<1> HIDE DEF swept
<1> QED BY <1>2, <1>3, <1>4

LEMMA FailedColumns ==
    ASSUME NEW row \in TaskRow, NEW kind
    PROVE  /\ Failed(row, row, kind).status =
                IF kind = "retryable" /\ row.attempts < MaxAttempts
                THEN "retry_wait" ELSE "failed"
           /\ Failed(row, row, kind).attempts = row.attempts
           /\ Failed(row, row, kind).checkpointed = row.checkpointed
<1> DEFINE retry  == kind = "retryable" /\ row.attempts < MaxAttempts
           status == IF retry THEN "retry_wait" ELSE "failed"
           new    == [row EXCEPT !.status = status, !.locked_by = None,
                                 !.last_heartbeat_at = None]
           ended  == FlushTask(row, row, new)
<1>1. new.status = status
  BY DEF TaskRow
<1> HIDE DEF new
<1>2. ended.status = status /\ ended.attempts = row.attempts
  BY <1>1, FlushedStatus
<1>3. DOMAIN ended = {"status", "approved_at", "rejected_at", "attempts", "locked_by",
                      "last_heartbeat_at", "next_attempt_at", "checkpointed"}
  BY DEF FlushTask
<1>4. Failed(row, row, kind) =
        [ended EXCEPT !.next_attempt_at = IF retry THEN "later" ELSE @,
                      !.checkpointed = row.checkpointed]
  BY DEF Failed, new
<1> HIDE DEF ended
<1> QED BY <1>2, <1>3, <1>4

-------------------------------------------------------------------------------
(* What a step of one session does to the tasks and to the other sessions  *)

LeaseStep == LeaseInv' /\ \A t \in Tasks : tasks[t].checkpointed =>
                 /\ effects'[t] = effects[t]
                 /\ tasks'[t].checkpointed \/ tasks'[t].status = "completed"

OthersKept(a) ==
    \A v \in Workers \ {a} :
        pc'[v] = pc[v] /\ job'[v] = job[v] /\ loaded'[v] = loaded[v]

TaskKept(t) ==
    tasks'[t] = tasks[t] /\ ledger'[t] = ledger[t] /\ effects'[t] = effects[t]

(* Nobody but `a` works on the task or is about to sweep it.               *)
FreeOf(a, t) ==
    /\ tasks[t].status # "completed"
    /\ \A v \in Workers \ {a} :
         ~Holds(v, t) /\ (pc[v] = "sweeping" => loaded[v][t] = None)

TaskWritten(t) ==
    /\ AttemptsSound(tasks'[t], ledger'[t])
    /\ EffectSound(t, tasks'[t], effects'[t])
    /\ tasks'[t].status \in Ready => tasks[t].status \in Ready \/ DependenciesDone(t)
    /\ tasks[t].checkpointed =>
         /\ effects'[t] = effects[t]
         /\ tasks'[t].checkpointed \/ tasks'[t].status = "completed"

TaskStep(a, t) == TaskKept(t) \/ (FreeOf(a, t) /\ TaskWritten(t))

DecisionStep(o) ==
    decision'[o] = "queued" =>
        \/ decision[o] = "queued" /\ job'[o] = job[o]
        \/ job'[o] \in Tasks /\ DependenciesDone(job'[o])

LEMMA LeaseTypes ==
    ASSUME VerdictIInv
    PROVE  /\ tasks \in [Tasks -> TaskRow]
           /\ ledger \in [Tasks -> Seq(AttemptStatuses)]
           /\ effects \in [Tasks -> Nat]
           /\ pc \in [Workers -> Locations]
           /\ decision \in [Operators -> {None, "blocked", "queued", "rejected"}]
           /\ job \in [Sessions -> Tasks \cup {None}]
           /\ loaded \in [Sessions -> [Tasks -> TaskRow \cup {None}]]
           /\ \A w \in Workers : WorkerOK(w) /\ w \in Sessions
           /\ \A o \in Operators : OperatorOK(o) /\ o \in Sessions
BY DEF VerdictIInv, ApprovalIInv, TypeInv, TypeOK, SessionsOK, Sessions

LEMMA LeaseTypesNext ==
    ASSUME VerdictIInv'
    PROVE  tasks' \in [Tasks -> TaskRow]
BY DEF VerdictIInv, ApprovalIInv, TypeInv, TypeOK

LEMMA CompletedStays ==
    ASSUME NEW a, \A t \in Tasks : TaskStep(a, t), NEW t \in Tasks, DependenciesDone(t)
    PROVE  DependenciesDone(t)'
<1>1. ASSUME NEW d \in DependsOn[t] PROVE tasks'[d].status = "completed"
  <2>1. d \in Tasks /\ tasks[d].status = "completed"
    BY DependsOnAssumption DEF DependenciesDone
  <2>2. TaskKept(d)
    BY <2>1 DEF TaskStep, FreeOf
  <2> QED BY <2>1, <2>2 DEF TaskKept
<1> QED BY <1>1 DEF DependenciesDone

(* The invariant holds after a step that leaves other sessions and the     *)
(* tasks they have alone and accounts for what it writes.                  *)
LEMMA StepKeeps ==
    ASSUME VerdictIInv, LeaseInv, NEW a, OthersKept(a),
           a \in Workers => LeaseSound(a)' /\ SweepSound(a)',
           \A t \in Tasks : TaskStep(a, t),
           \A o \in Operators : DecisionStep(o)
    PROVE  LeaseStep
<1>1. ASSUME NEW v \in Workers \ {a} PROVE LeaseSound(v)'
  <2>1. pc'[v] = pc[v] /\ job'[v] = job[v] /\ loaded'[v] = loaded[v]
    BY DEF OthersKept
  <2>2. CASE pc[v] \in Working
    <3>1. PICK t \in Tasks : t = job[v]
      BY <2>2, LeaseTypes DEF WorkerOK
    <3>2. tasks'[t] = tasks[t]
      BY <2>2, <3>1 DEF TaskStep, FreeOf, Holds, TaskKept
    <3>3. LeaseSound(v)
      BY DEF LeaseInv
    <3> QED BY <2>1, <3>1, <3>2, <3>3 DEF LeaseSound
  <2>3. CASE pc[v] \notin Working
    BY <2>1, <2>3 DEF LeaseSound
  <2> QED BY <2>2, <2>3
<1>2. ASSUME NEW v \in Workers \ {a} PROVE SweepSound(v)'
  <2>1. pc'[v] = pc[v] /\ loaded'[v] = loaded[v]
    BY DEF OthersKept
  <2>2. CASE pc[v] = "sweeping"
    <3>1. ASSUME NEW t \in Tasks, loaded[v][t] # None
          PROVE  loaded[v][t] = tasks'[t] /\ Stale(t)'
      <4>1. tasks'[t] = tasks[t]
        BY <2>2, <3>1 DEF TaskStep, FreeOf, TaskKept
      <4>2. loaded[v][t] = tasks[t] /\ Stale(t)
        BY <2>2, <3>1 DEF LeaseInv, SweepSound
      <4> QED BY <4>1, <4>2 DEF Stale
    <3> QED BY <2>1, <3>1 DEF SweepSound
  <2>3. CASE pc[v] # "sweeping"
    BY <2>1, <2>3 DEF SweepSound
  <2> QED BY <2>2, <2>3
<1>3. ASSUME NEW o \in Operators, decision'[o] = "queued" PROVE DependenciesDone(job[o])'
  <2>1. CASE decision[o] = "queued" /\ job'[o] = job[o]
    <3>1. PICK t \in Tasks : t = job[o]
      BY <2>1, LeaseTypes, NoneAssumption DEF OperatorOK
    <3>2. DependenciesDone(t)
      BY <2>1, <3>1 DEF LeaseInv
    <3>3. DependenciesDone(t)'
      BY <3>2, CompletedStays
    <3> QED BY <2>1, <3>1, <3>3 DEF DependenciesDone
  <2>2. CASE job'[o] \in Tasks /\ DependenciesDone(job'[o])
    <3>1. PICK t \in Tasks : t = job'[o]
      BY <2>2
    <3>2. DependenciesDone(t)
      BY <2>2, <3>1
    <3>3. DependenciesDone(t)'
      BY <3>2, CompletedStays
    <3> QED BY <3>1, <3>3 DEF DependenciesDone
  <2> QED BY <1>3, <2>1, <2>2 DEF DecisionStep
<1>4. ASSUME NEW t \in Tasks
      PROVE  /\ AttemptsSound(tasks'[t], ledger'[t])
             /\ EffectSound(t, tasks'[t], effects'[t])
             /\ tasks'[t].status \in Ready => DependenciesDone(t)'
             /\ tasks[t].checkpointed =>
                  /\ effects'[t] = effects[t]
                  /\ tasks'[t].checkpointed \/ tasks'[t].status = "completed"
  <2>1. /\ AttemptsSound(tasks[t], ledger[t]) /\ EffectSound(t, tasks[t], effects[t])
        /\ tasks[t].status \in Ready => DependenciesDone(t)
    BY DEF LeaseInv
  <2>2. DependenciesDone(t) => DependenciesDone(t)'
    BY CompletedStays
  <2>3. CASE TaskKept(t)
    BY <2>1, <2>2, <2>3 DEF TaskKept
  <2>4. CASE TaskWritten(t)
    BY <2>1, <2>2, <2>4 DEF TaskWritten
  <2> QED BY <2>3, <2>4 DEF TaskStep
<1>5. \A w \in Workers : LeaseSound(w)' /\ SweepSound(w)'
  BY <1>1, <1>2
<1>6. LeaseInv'
  BY <1>3, <1>4, <1>5 DEF LeaseInv
<1> QED BY <1>4, <1>6 DEF LeaseStep

(* A worker has its task to itself, and a task that is neither being       *)
(* processed nor completed is nobody's.                                    *)
LEMMA HeldFree ==
    ASSUME LeaseInv, VerdictIInv, NEW w \in Workers, pc[w] \in Working
    PROVE  FreeOf(w, job[w]) /\ tasks[job[w]].status = "processing"
<1>1. PICK t \in Tasks : t = job[w]
  BY LeaseTypes DEF WorkerOK
<1>2. LeaseSound(w)
  BY DEF LeaseInv
<1>3. /\ tasks[t].status = "processing" /\ tasks[t].locked_by = w
      /\ tasks[t].last_heartbeat_at = "fresh"
  BY <1>1, <1>2 DEF LeaseSound
<1>4. ASSUME NEW v \in Workers \ {w}, Holds(v, t) PROVE FALSE
  <2>1. LeaseSound(v)
    BY DEF LeaseInv
  <2>2. tasks[t].locked_by = v
    BY <1>4, <2>1 DEF LeaseSound, Holds
  <2> QED BY <1>3, <2>2
<1>5. ASSUME NEW v \in Workers, pc[v] = "sweeping", loaded[v][t] # None PROVE FALSE
  <2>1. SweepSound(v)
    BY DEF LeaseInv
  <2>2. Stale(t)
    BY <1>5, <2>1 DEF SweepSound
  <2> QED BY <1>3, <2>2 DEF Stale
<1> QED BY <1>1, <1>3, <1>4, <1>5 DEF FreeOf

LEMMA IdleFree ==
    ASSUME LeaseInv, NEW t \in Tasks, tasks[t].status \notin {"processing", "completed"},
           NEW a
    PROVE  FreeOf(a, t)
<1>1. ASSUME NEW v \in Workers, Holds(v, t) PROVE FALSE
  <2>1. LeaseSound(v)
    BY DEF LeaseInv
  <2> QED BY <1>1, <2>1 DEF LeaseSound, Holds
<1>2. ASSUME NEW v \in Workers, pc[v] = "sweeping", loaded[v][t] # None PROVE FALSE
  <2>1. SweepSound(v)
    BY DEF LeaseInv
  <2> QED BY <1>2, <2>1 DEF SweepSound, Stale
<1> QED BY <1>1, <1>2 DEF FreeOf

-------------------------------------------------------------------------------
(* Ways of writing a task                                                  *)

LEMMA WrittenAlike ==
    ASSUME LeaseInv, VerdictIInv, NEW t \in Tasks, tasks'[t] \in TaskRow,
           ledger'[t] = ledger[t], effects'[t] = effects[t],
           tasks'[t].status = tasks[t].status, tasks'[t].attempts = tasks[t].attempts,
           tasks'[t].checkpointed = tasks[t].checkpointed
    PROVE  TaskWritten(t)
<1>1. /\ AttemptsSound(tasks[t], ledger[t]) /\ EffectSound(t, tasks[t], effects[t])
      /\ tasks[t] \in TaskRow
  BY LeaseTypes DEF LeaseInv
<1>2. AttemptsSound(tasks'[t], ledger'[t])
  BY <1>1, SameAttempts
<1>3. EffectSound(t, tasks'[t], effects'[t])
  BY <1>1 DEF EffectSound
<1> QED BY <1>2, <1>3 DEF TaskWritten

(* Creation, decisions and unblock passes.                                 *)
LEMMA WrittenWaiting ==
    ASSUME LeaseInv, VerdictIInv, NEW t \in Tasks, tasks'[t] \in TaskRow,
           ledger'[t] = ledger[t], effects'[t] = effects[t],
           tasks[t].status \in Unbegun, tasks'[t].status \in Unbegun,
           tasks'[t].attempts = 0, ~tasks'[t].checkpointed,
           tasks'[t].status = "queued" => DependenciesDone(t)
    PROVE  TaskWritten(t)
<1>1. /\ AttemptsSound(tasks[t], ledger[t]) /\ EffectSound(t, tasks[t], effects[t])
      /\ tasks[t] \in TaskRow /\ tasks[t].status \notin {"completed"}
  BY LeaseTypes, StatusesSplit DEF LeaseInv
<1>2. AttemptsSound(tasks'[t], ledger'[t])
  BY <1>1, NoAttempts
<1>3. ~tasks[t].checkpointed
  BY <1>1 DEF AttemptsSound
<1>4. EffectSound(t, tasks'[t], effects'[t])
  BY <1>1, <1>3 DEF EffectSound
<1>5. tasks'[t].status \in Ready => tasks'[t].status = "queued"
  BY StatusesSplit
<1> QED BY <1>2, <1>3, <1>4, <1>5 DEF TaskWritten

(* Sweeps, completions and failures.                                       *)
LEMMA WrittenEnded ==
    ASSUME LeaseInv, VerdictIInv, NEW t \in Tasks, tasks'[t] \in TaskRow,
           tasks[t].status = "processing",
           NEW s \in {"completed", "failed", "abandoned"},
           ClosedAs(ledger'[t], ledger[t], tasks[t].attempts, s),
           effects'[t] = effects[t],
           tasks'[t].attempts = tasks[t].attempts,
           tasks'[t].status \in {"completed", "failed", "retry_wait"},
           tasks'[t].status = "completed" <=> s = "completed",
           tasks'[t].status = "retry_wait" => tasks[t].attempts < MaxAttempts,
           tasks'[t].status # "completed" => tasks'[t].checkpointed = tasks[t].checkpointed
    PROVE  TaskWritten(t)
<1>1. /\ AttemptsSound(tasks[t], ledger[t]) /\ EffectSound(t, tasks[t], effects[t])
      /\ tasks[t] \in TaskRow /\ ledger[t] \in Seq(AttemptStatuses)
      /\ tasks[t].status \in Ready => DependenciesDone(t)
  BY LeaseTypes DEF LeaseInv
<1>2. AttemptsSound(tasks'[t], ledger'[t])
  <2>1. PICK row \in TaskRow : row = tasks[t]
    BY <1>1
  <2>2. PICK attempts \in Seq(AttemptStatuses) : attempts = ledger[t]
    BY <1>1
  <2>3. PICK new \in TaskRow : new = tasks'[t]
    OBVIOUS
  <2>4. PICK closed : closed = ledger'[t]
    OBVIOUS
  <2>5. /\ AttemptsSound(row, attempts) /\ row.status = "processing"
        /\ ClosedAs(closed, attempts, row.attempts, s)
        /\ new.attempts = row.attempts
        /\ new.status \in {"completed", "failed", "retry_wait"}
        /\ new.status = "completed" <=> s = "completed"
        /\ new.status = "retry_wait" => row.attempts < MaxAttempts
    BY <1>1, <2>1, <2>2, <2>3, <2>4
  <2>6. AttemptsSound(new, closed)
    BY <2>5, AttemptClosed
  <2> QED BY <2>3, <2>4, <2>6
<1>3. EffectSound(t, tasks'[t], effects'[t])
  BY <1>1 DEF EffectSound
<1>4. DependenciesDone(t)
  BY <1>1 DEF Ready
<1> QED BY <1>2, <1>3, <1>4 DEF TaskWritten

-------------------------------------------------------------------------------
(* Creation and time                                                       *)

LEMMA LeaseCreate ==
    ASSUME LeaseInv, VerdictIInv, VerdictIInv', NEW t \in Tasks, Create(t)
    PROVE  LeaseStep
<1>1. /\ tasks'[t].status = InitialStatus(t) /\ tasks'[t].attempts = 0
      /\ ~tasks'[t].checkpointed
      /\ \A u \in Tasks \ {t} : tasks'[u] = tasks[u]
      /\ UNCHANGED <<ledger, effects, pc, decision, job, loaded>>
  BY LeaseTypes DEF Create, SetTask, absentTask
<1>2. tasks[t].status = "absent" /\ tasks'[t] \in TaskRow
  BY LeaseTypesNext DEF Create
<1>3. /\ InitialStatus(t) \in {"blocked", "awaiting_approval", "queued"}
      /\ InitialStatus(t) = "queued" => DependenciesDone(t)
  BY DEF InitialStatus
<1>4. FreeOf(None, t)
  BY <1>2, IdleFree
<1>5. TaskWritten(t)
  BY <1>1, <1>2, <1>3, WrittenWaiting DEF Unbegun
<1>6. \A u \in Tasks : TaskStep(None, u)
  BY <1>1, <1>4, <1>5 DEF TaskStep, TaskKept
<1>7. OthersKept(None) /\ \A o \in Operators : DecisionStep(o)
  BY <1>1 DEF OthersKept, DecisionStep
<1> QED BY <1>6, <1>7, NoneAssumption, StepKeeps

LEMMA LeaseTime ==
    ASSUME PromptDeployment, LeaseInv, VerdictIInv, VerdictIInv', NEW t \in Tasks,
           LeaseExpires(t) \/ BackoffElapses(t)
    PROVE  LeaseStep
<1>1. /\ tasks'[t].status = tasks[t].status /\ tasks'[t].attempts = tasks[t].attempts
      /\ tasks'[t].checkpointed = tasks[t].checkpointed
      /\ \A u \in Tasks \ {t} : tasks'[u] = tasks[u]
      /\ UNCHANGED <<ledger, effects, pc, decision, job, loaded>>
  BY LeaseTypes DEF LeaseExpires, BackoffElapses, SetTask, TaskRow
<1>2. FreeOf(None, t)
  <2>1. CASE BackoffElapses(t)
    BY <2>1, IdleFree DEF BackoffElapses
  <2>2. CASE LeaseExpires(t)
    <3>1. \A v \in Workers : ~Holds(v, t)
      BY <2>2 DEF LeaseExpires, PromptDeployment
    <3>2. ASSUME NEW v \in Workers, pc[v] = "sweeping", loaded[v][t] # None PROVE FALSE
      <4>1. SweepSound(v)
        BY DEF LeaseInv
      <4> QED BY <2>2, <3>2, <4>1 DEF LeaseExpires, SweepSound, Stale
    <3> QED BY <2>2, <3>1, <3>2 DEF LeaseExpires, FreeOf
  <2> QED BY <2>1, <2>2
<1>3. TaskWritten(t)
  BY <1>1, LeaseTypesNext, WrittenAlike
<1>4. \A u \in Tasks : TaskStep(None, u)
  BY <1>1, <1>2, <1>3 DEF TaskStep, TaskKept
<1>5. OthersKept(None) /\ \A o \in Operators : DecisionStep(o)
  BY <1>1 DEF OthersKept, DecisionStep
<1> QED BY <1>4, <1>5, NoneAssumption, StepKeeps

-------------------------------------------------------------------------------
(* Operators                                                               *)

LEMMA LeaseDecisionRead ==
    ASSUME LeaseInv, VerdictIInv, NEW o \in Operators, NEW t \in Tasks,
           ApproveRead(o, t) \/ RejectRead(o, t)
    PROVE  LeaseStep
<1>1. /\ o \in Sessions /\ o \notin Workers
      /\ UNCHANGED <<tasks, ledger, effects, pc>>
      /\ job' = [job EXCEPT ![o] = t] /\ Load(o, t)
      /\ \/ decision' = [decision EXCEPT ![o] = ApprovedStatus(t)]
         \/ decision' = [decision EXCEPT ![o] = "rejected"]
  BY SessionsAssumption DEF ApproveRead, RejectRead, database, Sessions
<1>2. OthersKept(o)
  BY <1>1, LeaseTypes DEF OthersKept, Load, Sessions
<1>3. ASSUME NEW p \in Operators PROVE DecisionStep(p)
  <2>1. CASE p = o
    <3>1. job'[o] = t
      BY <1>1, LeaseTypes
    <3>2. decision'[o] = "queued" => DependenciesDone(t)
      BY <1>1, LeaseTypes DEF ApprovedStatus
    <3> QED BY <2>1, <3>1, <3>2 DEF DecisionStep
  <2>2. CASE p # o
    <3>1. decision'[p] = decision[p] /\ job'[p] = job[p]
      BY <1>1, <2>2, LeaseTypes
    <3> QED BY <3>1 DEF DecisionStep
  <2> QED BY <2>1, <2>2
<1>4. \A u \in Tasks : TaskStep(o, u)
  BY <1>1 DEF TaskStep, TaskKept
<1> QED BY <1>1, <1>2, <1>3, <1>4, StepKeeps

LEMMA LeaseDecisionLost ==
    ASSUME LeaseInv, VerdictIInv, NEW o \in Operators, DecisionLost(o)
    PROVE  LeaseStep
<1>1. /\ o \in Sessions /\ o \notin Workers
      /\ UNCHANGED <<tasks, ledger, effects, pc>>
      /\ decision' = [decision EXCEPT ![o] = None] /\ Close(o)
  BY SessionsAssumption DEF DecisionLost, database, Sessions
<1>2. OthersKept(o)
  BY <1>1, LeaseTypes DEF OthersKept, Close, Sessions
<1>3. ASSUME NEW p \in Operators PROVE DecisionStep(p)
  <2>1. CASE p = o
    BY <1>1, <2>1, LeaseTypes, NoneAssumption DEF DecisionStep
  <2>2. CASE p # o
    <3>1. decision'[p] = decision[p] /\ job'[p] = job[p]
      BY <1>1, <2>2, LeaseTypes DEF Close
    <3> QED BY <3>1 DEF DecisionStep
  <2> QED BY <2>1, <2>2
<1>4. \A u \in Tasks : TaskStep(o, u)
  BY <1>1 DEF TaskStep, TaskKept
<1> QED BY <1>1, <1>2, <1>3, <1>4, StepKeeps

(* The task still has the status that was judged.                          *)
LEMMA LeaseDecisionCommit ==
    ASSUME LeaseInv, VerdictIInv, VerdictIInv', NEW o \in Operators, DecisionCommit(o)
    PROVE  LeaseStep
<1>0. PICK t \in Tasks : t = job[o]
  BY LeaseTypes DEF OperatorOK, DecisionCommit
<1>1. PICK old \in TaskRow : old = loaded[o][t]
  BY <1>0, LeaseTypes DEF OperatorOK, DecisionCommit
<1>2. PICK status \in {"blocked", "queued", "rejected"} : status = decision[o]
  BY LeaseTypes DEF DecisionCommit
<1>3. /\ o \in Sessions /\ o \notin Workers
      /\ UNCHANGED <<ledger, effects, pc>>
      /\ decision' = [decision EXCEPT ![o] = None] /\ Close(o)
      /\ tasks' = [tasks EXCEPT ![t] = Decided(tasks[t], old, status)]
  BY <1>0, <1>1, <1>2, SessionsAssumption DEF DecisionCommit, Sessions, SetTask
<1>4. /\ t \in NeedsApproval /\ ~tasks[t].approved_at /\ old.status = tasks[t].status
  BY <1>0, <1>1, RowAssumption
  DEF VerdictIInv, DecisionInv, DecisionSound, Current, DecisionCommit
<1>5. tasks[t].status \in {"absent", "blocked", "awaiting_approval", "rejected"}
  BY <1>4 DEF VerdictIInv, ApprovalIInv, ApprovalInv, Gate, Untouched
<1>6. /\ tasks'[t] \in TaskRow /\ tasks'[t].status = status
      /\ tasks'[t].attempts = tasks[t].attempts
      /\ tasks'[t].checkpointed = tasks[t].checkpointed
      /\ \A u \in Tasks \ {t} : tasks'[u] = tasks[u]
  <2>1. /\ tasks'[t] = Decided(tasks[t], old, status) /\ tasks[t] \in TaskRow
        /\ \A u \in Tasks \ {t} : tasks'[u] = tasks[u]
    BY <1>3, LeaseTypes
  <2>2. tasks'[t] \in TaskRow
    BY LeaseTypesNext
  <2> QED BY <1>4, <2>1, <2>2, DecidedColumns
<1>7. AttemptsSound(tasks[t], ledger[t]) /\ (status = "queued" => DependenciesDone(t))
  BY <1>0, <1>2 DEF LeaseInv
<1>8. tasks'[t].attempts = 0 /\ ~tasks'[t].checkpointed
  BY <1>5, <1>6, <1>7 DEF AttemptsSound, Unbegun
<1>9. TaskWritten(t)
  BY <1>3, <1>5, <1>6, <1>7, <1>8, WrittenWaiting DEF Unbegun
<1>10. FreeOf(o, t)
  BY <1>5, IdleFree
<1>11. \A u \in Tasks : TaskStep(o, u)
  BY <1>3, <1>6, <1>9, <1>10 DEF TaskStep, TaskKept
<1>12. OthersKept(o)
  BY <1>3, LeaseTypes DEF OthersKept, Close, Sessions
<1>13. ASSUME NEW p \in Operators PROVE DecisionStep(p)
  <2>1. CASE p = o
    BY <1>3, <2>1, LeaseTypes, NoneAssumption DEF DecisionStep
  <2>2. CASE p # o
    <3>1. decision'[p] = decision[p] /\ job'[p] = job[p]
      BY <1>3, <2>2, LeaseTypes DEF Close
    <3> QED BY <3>1 DEF DecisionStep
  <2> QED BY <2>1, <2>2
<1> QED BY <1>3, <1>11, <1>12, <1>13, StepKeeps

-------------------------------------------------------------------------------
(* Workers                                                                 *)

(* A worker's step keeps the invariant if the worker is right about its    *)
(* own task afterwards.                                                    *)
LEMMA WorkerKeeps ==
    ASSUME LeaseInv, VerdictIInv, NEW w \in Workers, NEW location, Goto(w, location),
           UNCHANGED decision,
           \A s \in Sessions \ {w} : job'[s] = job[s] /\ loaded'[s] = loaded[s],
           LeaseSound(w)', SweepSound(w)',
           \A t \in Tasks : TaskStep(w, t)
    PROVE  LeaseStep
<1>1. \A v \in Workers \ {w} : pc'[v] = pc[v]
  BY LeaseTypes DEF Goto
<1>2. OthersKept(w)
  BY <1>1 DEF OthersKept, Sessions
<1>3. ASSUME NEW o \in Operators PROVE DecisionStep(o)
  <2>1. o \in Sessions \ {w}
    BY SessionsAssumption DEF Sessions
  <2> QED BY <2>1 DEF DecisionStep
<1> QED BY <1>2, <1>3, StepKeeps

(* A worker that has nothing afterwards is right about it.                 *)
LEMMA IdleKeeps ==
    ASSUME LeaseInv, VerdictIInv, NEW w \in Workers,
           NEW location \in {"polling", "unblocking", "down"}, Goto(w, location),
           UNCHANGED decision,
           \A s \in Sessions \ {w} : job'[s] = job[s] /\ loaded'[s] = loaded[s],
           \A t \in Tasks : TaskStep(w, t)
    PROVE  LeaseStep
<1>1. pc'[w] = location
  BY LeaseTypes DEF Goto
<1>2. LeaseSound(w)' /\ SweepSound(w)'
  BY <1>1, LocationsDistinct DEF LeaseSound, SweepSound
<1> QED BY <1>2, WorkerKeeps

LEMMA LeaveKeeps ==
    ASSUME LeaseInv, VerdictIInv, NEW w \in Workers, NEW location \in {"polling", "down"},
           Leave(w, location), UNCHANGED decision,
           \A t \in Tasks : TaskStep(w, t)
    PROVE  LeaseStep
<1>1. \A s \in Sessions \ {w} : job'[s] = job[s] /\ loaded'[s] = loaded[s]
  BY LeaseTypes DEF Leave, Close
<1>2. Goto(w, location)
  BY DEF Leave
<1> QED BY <1>1, <1>2, IdleKeeps

LEMMA LeaseRestart ==
    ASSUME LeaseInv, VerdictIInv, NEW w \in Workers, Crash(w) \/ Restart(w)
    PROVE  LeaseStep
<1>1. UNCHANGED <<tasks, ledger, effects, decision>>
  BY DEF Crash, Restart, database
<1>2. \A t \in Tasks : TaskStep(w, t)
  BY <1>1 DEF TaskStep, TaskKept
<1>3. CASE Crash(w)
  BY <1>1, <1>2, <1>3, LeaveKeeps DEF Crash
<1>4. CASE Restart(w)
  BY <1>1, <1>2, <1>4, IdleKeeps DEF Restart
<1> QED BY <1>3, <1>4

LEMMA LeasePassRead ==
    ASSUME LeaseInv, VerdictIInv, NEW w \in Workers, UnblockRead(w) \/ SweepRead(w)
    PROVE  LeaseStep
<1>1. UNCHANGED <<tasks, ledger, effects, decision, job>>
  BY DEF UnblockRead, SweepRead, database
<1>2. \A t \in Tasks : TaskStep(w, t)
  BY <1>1 DEF TaskStep, TaskKept
<1>3. \A s \in Sessions \ {w} : job'[s] = job[s] /\ loaded'[s] = loaded[s]
  BY <1>1, LeaseTypes DEF UnblockRead, SweepRead, LoadAll
<1>4. CASE UnblockRead(w)
  BY <1>1, <1>2, <1>3, <1>4, IdleKeeps DEF UnblockRead
<1>5. CASE SweepRead(w)
  <2>1. pc'[w] = "sweeping" /\ w \in Sessions /\ Goto(w, "sweeping")
    BY <1>5, LeaseTypes DEF SweepRead, Goto
  <2>2. LeaseSound(w)'
    BY <2>1, LocationsDistinct DEF LeaseSound
  <2>3. \A t \in Tasks : loaded'[w][t] = IF Stale(t) THEN tasks[t] ELSE None
    BY <1>5, <2>1, LeaseTypes DEF SweepRead
  <2>4. \A t \in Tasks : Stale(t) => Stale(t)'
    BY <1>1 DEF Stale
  <2>5. SweepSound(w)'
    BY <1>1, <2>3, <2>4 DEF SweepSound
  <2> QED BY <1>1, <1>2, <1>3, <2>1, <2>2, <2>5, WorkerKeeps
<1> QED BY <1>4, <1>5

(* A blocked task is unblocked as it was loaded.                           *)
LEMMA LeaseUnblockCommit ==
    ASSUME LeaseInv, VerdictIInv, VerdictIInv', NEW w \in Workers, UnblockCommit(w)
    PROVE  LeaseStep
<1>1. /\ tasks' = [t \in Tasks |-> IF loaded[w][t] # None /\ DependenciesDone(t)
                     THEN FlushTask(tasks[t], loaded[w][t],
                            [loaded[w][t] EXCEPT !.status = Unblocked(t, loaded[w][t])])
                     ELSE tasks[t]]
      /\ Leave(w, "polling") /\ UNCHANGED <<ledger, effects, decision>>
  BY DEF UnblockCommit
<1>2. ASSUME NEW t \in Tasks PROVE TaskStep(w, t)
  <2>1. CASE ~(loaded[w][t] # None /\ DependenciesDone(t))
    BY <1>1, <2>1 DEF TaskStep, TaskKept
  <2>2. CASE loaded[w][t] # None /\ DependenciesDone(t)
    <3>1. PICK old \in TaskRow : old = loaded[w][t]
      BY <2>2, LeaseTypes
    <3>2. PICK new : new = [old EXCEPT !.status = Unblocked(t, old)]
      OBVIOUS
    <3>3. new.status \in {"queued", "awaiting_approval"}
      BY <3>2 DEF Unblocked, TaskRow
    <3>4. tasks[t].status = "blocked" /\ old.status = tasks[t].status
      BY <2>2, <3>1 DEF VerdictIInv, DecisionInv, UnblockSound, UnblockCommit, Current
    <3>5. tasks'[t] = FlushTask(tasks[t], old, new) /\ tasks[t] \in TaskRow
      BY <1>1, <2>2, <3>1, <3>2, LeaseTypes
    <3>6. /\ tasks'[t].status = new.status /\ tasks'[t].attempts = tasks[t].attempts
          /\ tasks'[t].checkpointed = tasks[t].checkpointed
      BY <3>4, <3>5, FlushedStatus
    <3>7. tasks[t].attempts = 0 /\ ~tasks[t].checkpointed
      BY <3>4 DEF LeaseInv, AttemptsSound, Unbegun
    <3>8. TaskWritten(t)
      BY <1>1, <2>2, <3>3, <3>4, <3>6, <3>7, LeaseTypesNext, WrittenWaiting DEF Unbegun
    <3>9. FreeOf(w, t)
      BY <3>4, IdleFree
    <3> QED BY <3>8, <3>9 DEF TaskStep
  <2> QED BY <2>1, <2>2
<1> QED BY <1>1, <1>2, LeaveKeeps

(* The only sweep there is writes stale tasks, which no worker has.        *)
LEMMA LeaseSweepCommit ==
    ASSUME PromptDeployment, LeaseInv, VerdictIInv, VerdictIInv', NEW w \in Workers,
           Undisturbed(w), SweepCommit(w)
    PROVE  LeaseStep
<1>1. /\ tasks' = [t \in Tasks |-> IF loaded[w][t] = None THEN tasks[t]
                                   ELSE Requeued(tasks[t], loaded[w][t])]
      /\ ledger' = [t \in Tasks |-> IF loaded[w][t] = None THEN ledger[t]
                                    ELSE Abandoned(ledger[t], loaded[w][t].attempts)]
      /\ Leave(w, "polling") /\ UNCHANGED <<effects, decision>> /\ pc[w] = "sweeping"
  BY DEF SweepCommit
<1>2. ASSUME NEW t \in Tasks PROVE TaskStep(w, t)
  <2>1. CASE loaded[w][t] = None
    BY <1>1, <2>1 DEF TaskStep, TaskKept
  <2>2. CASE loaded[w][t] # None
    <3>1. PICK row \in TaskRow : row = tasks[t]
      BY LeaseTypes
    <3>2. loaded[w][t] = row /\ row.status = "processing" /\ row.last_heartbeat_at = "stale"
      BY <1>1, <2>2, <3>1 DEF LeaseInv, SweepSound, Stale
    <3>3. PICK attempts \in Seq(AttemptStatuses) : attempts = ledger[t]
      BY LeaseTypes
    <3>4. /\ tasks'[t] = Requeued(row, row)
          /\ ledger'[t] = Abandoned(attempts, row.attempts)
      BY <1>1, <2>2, <3>1, <3>2, <3>3
    <3>5. AttemptsSound(row, attempts)
      BY <3>1, <3>3 DEF LeaseInv
    <3>6. row.attempts \in 1 .. Len(attempts) /\ attempts[row.attempts] = "processing"
      BY <3>2, <3>5, OpenAttempt
    <3>7. ClosedAs(ledger'[t], attempts, row.attempts, "abandoned")
      BY <3>4, <3>6, AbandonedAttempts
    <3>8. /\ tasks'[t].status = IF row.attempts >= MaxAttempts THEN "failed" ELSE "retry_wait"
          /\ tasks'[t].attempts = row.attempts
          /\ tasks'[t].checkpointed = row.checkpointed
      BY <3>4, RequeuedColumns
    <3>9. row.attempts < MaxAttempts \/ row.attempts >= MaxAttempts
      BY RowColumns, MaxAttemptsAssumption
    <3>10. TaskWritten(t)
      BY <1>1, <3>1, <3>2, <3>3, <3>7, <3>8, <3>9, LeaseTypesNext, WrittenEnded
    <3>11. \A v \in Workers : ~Holds(v, t)
      BY <3>1, <3>2 DEF LeaseInv, LeaseSound, Holds
    <3>12. \A v \in Workers \ {w} : pc[v] # "sweeping"
      BY DEF PromptDeployment, Undisturbed
    <3>13. FreeOf(w, t)
      BY <3>1, <3>2, <3>11, <3>12 DEF FreeOf
    <3> QED BY <3>10, <3>13 DEF TaskStep
  <2> QED BY <2>1, <2>2
<1> QED BY <1>1, <1>2, LeaveKeeps

LEMMA LeaseClaim ==
    ASSUME LeaseInv, VerdictIInv, VerdictIInv', NEW w \in Workers, NEW t \in Tasks,
           Claim(w, t)
    PROVE  LeaseStep
<1>1. PICK row \in TaskRow : row = tasks[t]
  BY LeaseTypes
<1>2. PICK attempts \in Seq(AttemptStatuses) : attempts = ledger[t]
  BY LeaseTypes
<1>3. row.status \in {"queued", "retry_wait"} /\ AttemptsSound(row, attempts)
  BY <1>1, <1>2 DEF Claim, Claimable, LeaseInv
<1>4. /\ tasks'[t].status = "processing" /\ tasks'[t].locked_by = w
      /\ tasks'[t].last_heartbeat_at = "fresh" /\ tasks'[t].attempts = row.attempts + 1
      /\ tasks'[t].checkpointed = row.checkpointed
      /\ \A u \in Tasks \ {t} : tasks'[u] = tasks[u]
  BY <1>1, LeaseTypes DEF Claim, SetTask, TaskRow
<1>5. /\ ledger'[t] = Append(attempts, "processing")
      /\ \A u \in Tasks \ {t} : ledger'[u] = ledger[u]
      /\ UNCHANGED <<effects, decision, loaded>>
      /\ job' = [job EXCEPT ![w] = t] /\ Goto(w, "claimed")
  BY <1>2, LeaseTypes DEF Claim
<1>6. PICK new \in TaskRow : new = tasks'[t]
  BY LeaseTypesNext
<1>7. AttemptsSound(new, Append(attempts, "processing"))
  BY <1>3, <1>4, <1>6, AttemptOpened
<1>8. EffectSound(t, new, effects[t])
  <2>1. EffectSound(t, row, effects[t])
    BY <1>1 DEF LeaseInv
  <2> QED BY <1>3, <1>4, <1>6, <2>1 DEF EffectSound
<1>9. row.status \in Ready
  BY <1>3 DEF Ready
<1>10. TaskWritten(t)
  BY <1>1, <1>4, <1>5, <1>6, <1>7, <1>8, <1>9 DEF TaskWritten
<1>11. FreeOf(w, t)
  BY <1>1, <1>3, IdleFree
<1>12. \A u \in Tasks : TaskStep(w, u)
  BY <1>4, <1>5, <1>10, <1>11 DEF TaskStep, TaskKept
<1>13. pc'[w] = "claimed" /\ job'[w] = t
  BY <1>5, LeaseTypes DEF Goto
<1>14. LeaseSound(w)' /\ SweepSound(w)'
  BY <1>4, <1>13 DEF LeaseSound, SweepSound
<1>15. \A s \in Sessions \ {w} : job'[s] = job[s] /\ loaded'[s] = loaded[s]
  BY <1>5, LeaseTypes
<1> QED BY <1>5, <1>12, <1>14, <1>15, WorkerKeeps

-------------------------------------------------------------------------------
(* Processing                                                              *)

(* A heartbeat changes nothing while the lease is fresh, and the refresh   *)
(* of the heartbeat thread finds nothing to do.                            *)
LEMMA LeaseHeartbeat ==
    ASSUME LeaseInv, VerdictIInv, NEW w \in Workers, Heartbeat(w)
    PROVE  LeaseStep
<1>1. PICK t \in Tasks : t = job[w]
  BY LeaseTypes DEF WorkerOK, Heartbeat, Working
<1>2. /\ pc[w] \in {"claimed", "executed"} /\ pc[w] \in Working
      /\ Goto(w, IF pc[w] = "claimed" THEN "executing" ELSE "finishing")
      /\ UNCHANGED <<ledger, effects, decision, job, loaded>>
      /\ tasks' = [tasks EXCEPT ![t] = [tasks[t] EXCEPT !.last_heartbeat_at = "fresh"]]
  BY <1>1 DEF Heartbeat, Working, SetTask
<1>3. /\ tasks[t].status = "processing" /\ tasks[t].locked_by = w
      /\ tasks[t].last_heartbeat_at = "fresh"
  BY <1>1, <1>2 DEF LeaseInv, LeaseSound
<1>4. UNCHANGED tasks
  <2>1. [tasks[t] EXCEPT !.last_heartbeat_at = "fresh"] = tasks[t]
    BY <1>3, LeaseTypes DEF TaskRow
  <2> QED BY <1>2, <2>1, LeaseTypes
<1>5. \A u \in Tasks : TaskStep(w, u)
  BY <1>2, <1>4 DEF TaskStep, TaskKept
<1>6. pc'[w] \in {"executing", "finishing"} /\ job'[w] = t
  BY <1>1, <1>2, LeaseTypes DEF Goto
<1>7. LeaseSound(w)' /\ SweepSound(w)'
  BY <1>3, <1>4, <1>6 DEF LeaseSound, SweepSound
<1> QED BY <1>2, <1>5, <1>7, WorkerKeeps

LEMMA LeaseRefresh ==
    ASSUME LeaseInv, NEW w \in Workers, RefreshLease(w)
    PROVE  FALSE
BY DEF LeaseInv, LeaseSound, RefreshLease

(* An effect is applied only where there is no checkpoint; committed with  *)
(* its checkpoint it is the first one.                                     *)
LEMMA LeaseExecute ==
    ASSUME LeaseInv, VerdictIInv, NEW w \in Workers, ReuseCheckpoint(w) \/ Execute(w)
    PROVE  LeaseStep
<1>1. pc[w] = "executing" /\ pc[w] \in Working
  BY DEF ReuseCheckpoint, Execute, Working
<1>2. PICK t \in Tasks : t = job[w]
  BY <1>1, LeaseTypes DEF WorkerOK
<1>3. /\ tasks[t].status = "processing" /\ tasks[t].locked_by = w
      /\ tasks[t].last_heartbeat_at = "fresh"
  BY <1>1, <1>2 DEF LeaseInv, LeaseSound
<1>4. UNCHANGED <<tasks, ledger, decision, job, loaded>>
  BY DEF ReuseCheckpoint, Execute, database
<1>5. PICK location \in {"applied", "executed"} :
        /\ Goto(w, location)
        /\ location = "applied" => ~tasks[t].checkpointed
  BY <1>2 DEF ReuseCheckpoint, Execute
<1>6. pc'[w] = location /\ job'[w] = t
  BY <1>2, <1>4, <1>5, LeaseTypes DEF Goto
<1>7. LeaseSound(w)' /\ SweepSound(w)'
  BY <1>3, <1>4, <1>5, <1>6 DEF LeaseSound, SweepSound
<1>8. CASE UNCHANGED effects
  <2>1. \A u \in Tasks : TaskStep(w, u)
    BY <1>4, <1>8 DEF TaskStep, TaskKept
  <2> QED BY <1>4, <1>5, <1>7, <2>1, WorkerKeeps
<1>9. CASE ~UNCHANGED effects
  <2>1. /\ t \in SelfCommitting /\ ~tasks[t].checkpointed
        /\ \A u \in Tasks \ {t} : effects'[u] = effects[u]
    BY <1>2, <1>9, LeaseTypes DEF ReuseCheckpoint, Execute, database
  <2>2. TaskWritten(t)
    BY <1>4, <2>1 DEF TaskWritten, LeaseInv, EffectSound
  <2>3. FreeOf(w, t)
    BY <1>1, <1>2, HeldFree
  <2>4. \A u \in Tasks : TaskStep(w, u)
    BY <1>4, <2>1, <2>2, <2>3 DEF TaskStep, TaskKept
  <2> QED BY <1>4, <1>5, <1>7, <2>4, WorkerKeeps
<1> QED BY <1>8, <1>9

LEMMA LeaseCheckpoint ==
    ASSUME LeaseInv, VerdictIInv, VerdictIInv', NEW w \in Workers, Checkpoint(w)
    PROVE  LeaseStep
<1>1. pc[w] = "applied" /\ pc[w] \in Working
  BY DEF Checkpoint, Working
<1>2. PICK t \in Tasks : t = job[w]
  BY <1>1, LeaseTypes DEF WorkerOK
<1>3. /\ tasks[t].status = "processing" /\ tasks[t].locked_by = w
      /\ tasks[t].last_heartbeat_at = "fresh" /\ ~tasks[t].checkpointed
  BY <1>1, <1>2 DEF LeaseInv, LeaseSound
<1>4. /\ UNCHANGED <<ledger, decision, job, loaded>> /\ Goto(w, "executed")
      /\ tasks' = [tasks EXCEPT ![t] = [tasks[t] EXCEPT !.checkpointed = TRUE]]
      /\ effects' = IF t \in SelfCommitting THEN effects
                    ELSE [effects EXCEPT ![t] = effects[t] + 1]
  BY <1>2 DEF Checkpoint, SetTask
<1>5. /\ tasks'[t].status = tasks[t].status /\ tasks'[t].attempts = tasks[t].attempts
      /\ tasks'[t].locked_by = w /\ tasks'[t].last_heartbeat_at = "fresh"
      /\ tasks'[t].checkpointed
      /\ \A u \in Tasks \ {t} : tasks'[u] = tasks[u]
  BY <1>3, <1>4, LeaseTypes DEF TaskRow
<1>6. /\ \A u \in Tasks \ {t} : effects'[u] = effects[u]
      /\ t \notin SelfCommitting => effects'[t] = effects[t] + 1
  BY <1>4, LeaseTypes
<1>7. /\ AttemptsSound(tasks[t], ledger[t]) /\ EffectSound(t, tasks[t], effects[t])
      /\ tasks[t].status \in Ready => DependenciesDone(t)
      /\ tasks[t] \in TaskRow /\ tasks'[t] \in TaskRow
  BY LeaseTypes, LeaseTypesNext DEF LeaseInv
<1>8. AttemptsSound(tasks'[t], ledger[t])
  BY <1>3, <1>5, <1>7, StatusesSplit, SameAttempts
<1>9. EffectSound(t, tasks'[t], effects'[t])
  <2>1. t \notin SelfCommitting => effects[t] = 0
    BY <1>3, <1>7 DEF EffectSound
  <2>2. t \notin SelfCommitting => effects'[t] = 1
    BY <1>6, <2>1
  <2> QED BY <1>5, <2>2 DEF EffectSound
<1>10. TaskWritten(t)
  BY <1>3, <1>4, <1>7, <1>8, <1>9 DEF TaskWritten, Ready
<1>11. FreeOf(w, t)
  BY <1>1, <1>2, HeldFree
<1>12. \A u \in Tasks : TaskStep(w, u)
  BY <1>4, <1>5, <1>6, <1>10, <1>11 DEF TaskStep, TaskKept
<1>13. pc'[w] = "executed" /\ job'[w] = t
  BY <1>2, <1>4, LeaseTypes DEF Goto
<1>14. LeaseSound(w)' /\ SweepSound(w)'
  BY <1>3, <1>5, <1>13 DEF LeaseSound, SweepSound
<1> QED BY <1>4, <1>12, <1>14, WorkerKeeps

(* The task is loaded for the transaction that ends the attempt.           *)
LEMMA LeaseLoaded ==
    ASSUME LeaseInv, VerdictIInv, NEW w \in Workers, WriteContext(w) \/ StepFails(w)
    PROVE  LeaseStep
<1>1. pc[w] \in Working /\ w \in Sessions
  BY LeaseTypes DEF WriteContext, StepFails, Working
<1>2. PICK t \in Tasks : t = job[w]
  BY <1>1, LeaseTypes DEF WorkerOK
<1>3. /\ tasks[t].status = "processing" /\ tasks[t].locked_by = w
      /\ tasks[t].last_heartbeat_at = "fresh"
  BY <1>1, <1>2 DEF LeaseInv, LeaseSound
<1>4. UNCHANGED <<tasks, ledger, effects, decision, job>> /\ Load(w, t)
  BY <1>2 DEF WriteContext, StepFails, database
<1>5. PICK location \in {"completing", "failing"} : Goto(w, location)
  BY DEF WriteContext, StepFails
<1>6. pc'[w] = location /\ job'[w] = t /\ loaded'[w][t] = tasks[t]
  BY <1>1, <1>2, <1>4, <1>5, LeaseTypes DEF Goto, Load, Nothing
<1>7. LeaseSound(w)' /\ SweepSound(w)'
  BY <1>3, <1>4, <1>6 DEF LeaseSound, SweepSound
<1>8. \A s \in Sessions \ {w} : job'[s] = job[s] /\ loaded'[s] = loaded[s]
  BY <1>4, LeaseTypes DEF Load
<1>9. \A u \in Tasks : TaskStep(w, u)
  BY <1>4 DEF TaskStep, TaskKept
<1> QED BY <1>4, <1>5, <1>7, <1>8, <1>9, WorkerKeeps

LEMMA LeaseComplete ==
    ASSUME LeaseInv, VerdictIInv, VerdictIInv', NEW w \in Workers, Complete(w)
    PROVE  LeaseStep
<1>1. pc[w] = "completing" /\ pc[w] \in Working
  BY DEF Complete, Working
<1>2. PICK t \in Tasks : t = job[w]
  BY <1>1, LeaseTypes DEF WorkerOK
<1>3. PICK row \in TaskRow : row = tasks[t]
  BY LeaseTypes
<1>4. row.status = "processing" /\ loaded[w][t] = row
  BY <1>1, <1>2, <1>3 DEF LeaseInv, LeaseSound
<1>5. PICK new : new = [row EXCEPT !.status = "completed", !.locked_by = None,
                                   !.last_heartbeat_at = None, !.next_attempt_at = None]
  OBVIOUS
<1>6. /\ tasks' = [tasks EXCEPT ![t] = [FlushTask(row, row, new) EXCEPT !.checkpointed = FALSE]]
      /\ Leave(w, "polling") /\ UNCHANGED <<effects, decision>>
  BY <1>2, <1>3, <1>4, <1>5 DEF Complete, SetTask
<1>7. PICK attempts \in Seq(AttemptStatuses) : attempts = ledger[t]
  BY LeaseTypes
<1>8. ledger' = [ledger EXCEPT ![t] =
                   [n \in DOMAIN attempts |->
                      IF n = row.attempts THEN "completed" ELSE attempts[n]]]
  BY <1>2, <1>4, <1>7 DEF Complete, EndAttempt
<1>9. /\ ClosedAs(ledger'[t], attempts, row.attempts, "completed")
      /\ \A u \in Tasks \ {t} : ledger'[u] = ledger[u]
  <2>1. /\ ledger'[t] = [n \in DOMAIN attempts |->
                           IF n = row.attempts THEN "completed" ELSE attempts[n]]
        /\ \A u \in Tasks \ {t} : ledger'[u] = ledger[u]
    BY <1>8, LeaseTypes
  <2>2. "completed" \in AttemptStatuses
    BY DEF AttemptStatuses
  <2> QED BY <2>1, <2>2, EndedAttempts
<1>10. /\ tasks'[t].status = "completed" /\ tasks'[t].attempts = row.attempts
       /\ \A u \in Tasks \ {t} : tasks'[u] = tasks[u]
  <2>1. new.status = "completed"
    BY <1>5 DEF TaskRow
  <2>2. PICK flushed : flushed = FlushTask(row, row, new)
    OBVIOUS
  <2>3. /\ flushed.status = "completed" /\ flushed.attempts = row.attempts
        /\ DOMAIN flushed = {"status", "approved_at", "rejected_at", "attempts",
                             "locked_by", "last_heartbeat_at", "next_attempt_at",
                             "checkpointed"}
    BY <2>1, <2>2, FlushedStatus DEF FlushTask
  <2>4. /\ tasks'[t] = [flushed EXCEPT !.checkpointed = FALSE]
        /\ \A u \in Tasks \ {t} : tasks'[u] = tasks[u]
    BY <1>6, <2>2, LeaseTypes
  <2> QED BY <2>3, <2>4
<1>11. TaskWritten(t)
  <2>1. PICK s \in {"completed", "failed", "abandoned"} : s = "completed"
    OBVIOUS
  <2>2. /\ tasks'[t] \in TaskRow /\ tasks[t].status = "processing"
        /\ ClosedAs(ledger'[t], ledger[t], tasks[t].attempts, s)
        /\ effects'[t] = effects[t] /\ tasks'[t].attempts = tasks[t].attempts
        /\ tasks'[t].status = "completed"
    BY <1>3, <1>4, <1>6, <1>7, <1>9, <1>10, <2>1, LeaseTypesNext
  <2> QED BY <2>1, <2>2, WrittenEnded
<1>12. FreeOf(w, t)
  BY <1>1, <1>2, HeldFree
<1>13. \A u \in Tasks : TaskStep(w, u)
  BY <1>6, <1>9, <1>10, <1>11, <1>12 DEF TaskStep, TaskKept
<1> QED BY <1>6, <1>13, LeaveKeeps

LEMMA LeaseFinalizeFailure ==
    ASSUME LeaseInv, VerdictIInv, VerdictIInv', NEW w \in Workers, FinalizeFailure(w)
    PROVE  LeaseStep
<1>1. pc[w] = "failing" /\ pc[w] \in Working
  BY DEF FinalizeFailure, Working
<1>2. PICK t \in Tasks : t = job[w]
  BY <1>1, LeaseTypes DEF WorkerOK
<1>3. PICK row \in TaskRow : row = tasks[t]
  BY LeaseTypes
<1>4. row.status = "processing" /\ loaded[w][t] = row
  BY <1>1, <1>2, <1>3 DEF LeaseInv, LeaseSound
<1>5. PICK kind : kind = error[w]
  OBVIOUS
<1>6. /\ tasks' = [tasks EXCEPT ![t] = Failed(row, row, kind)]
      /\ Leave(w, "polling") /\ UNCHANGED <<effects, decision>>
  BY <1>2, <1>3, <1>4, <1>5 DEF FinalizeFailure, SetTask
<1>7. PICK attempts \in Seq(AttemptStatuses) : attempts = ledger[t]
  BY LeaseTypes
<1>8. ledger' = [ledger EXCEPT ![t] =
                   [n \in DOMAIN attempts |->
                      IF n = row.attempts THEN "failed" ELSE attempts[n]]]
  BY <1>2, <1>4, <1>7 DEF FinalizeFailure, EndAttempt
<1>9. /\ ClosedAs(ledger'[t], attempts, row.attempts, "failed")
      /\ \A u \in Tasks \ {t} : ledger'[u] = ledger[u]
  <2>1. /\ ledger'[t] = [n \in DOMAIN attempts |->
                           IF n = row.attempts THEN "failed" ELSE attempts[n]]
        /\ \A u \in Tasks \ {t} : ledger'[u] = ledger[u]
    BY <1>8, LeaseTypes
  <2>2. "failed" \in AttemptStatuses
    BY DEF AttemptStatuses
  <2> QED BY <2>1, <2>2, EndedAttempts
<1>10. /\ tasks'[t].status \in {"retry_wait", "failed"}
       /\ tasks'[t].status = "retry_wait" => row.attempts < MaxAttempts
       /\ tasks'[t].attempts = row.attempts
       /\ tasks'[t].checkpointed = row.checkpointed
       /\ \A u \in Tasks \ {t} : tasks'[u] = tasks[u]
  BY <1>6, FailedColumns, LeaseTypes
<1>11. TaskWritten(t)
  BY <1>3, <1>4, <1>6, <1>7, <1>9, <1>10, LeaseTypesNext, WrittenEnded
<1>12. FreeOf(w, t)
  BY <1>1, <1>2, HeldFree
<1>13. \A u \in Tasks : TaskStep(w, u)
  BY <1>6, <1>9, <1>10, <1>11, <1>12 DEF TaskStep, TaskKept
<1> QED BY <1>6, <1>13, LeaveKeeps

-------------------------------------------------------------------------------
(* Theorems                                                                *)

LEMMA LeaseInit == Init => LeaseInv
<1> SUFFICES ASSUME Init PROVE LeaseInv
  OBVIOUS
<1>1. \A w \in Workers : LeaseSound(w) /\ SweepSound(w)
  BY LocationsDistinct DEF Init, LeaseSound, SweepSound
<1>2. \A o \in Operators : decision[o] # "queued"
  BY NoneAssumption DEF Init
<1>3. ASSUME NEW t \in Tasks
      PROVE  /\ AttemptsSound(tasks[t], ledger[t]) /\ EffectSound(t, tasks[t], effects[t])
             /\ tasks[t].status \notin Ready
  <2>1. tasks[t] = absentTask /\ ledger[t] = << >> /\ effects[t] = 0
    BY DEF Init
  <2>2. AttemptsSound(absentTask, << >>)
    BY MaxAttemptsAssumption DEF AttemptsSound, absentTask
  <2> QED BY <2>1, <2>2 DEF EffectSound, absentTask, Ready
<1> QED BY <1>1, <1>2, <1>3 DEF LeaseInv

LEMMA LeaseNext ==
    ASSUME PromptDeployment, LeaseInv, VerdictIInv, VerdictIInv', Next
    PROVE  LeaseStep
<1>1. ASSUME NEW t \in Tasks, Create(t) \/ LeaseExpires(t) \/ BackoffElapses(t)
      PROVE  LeaseStep
  BY <1>1, LeaseCreate, LeaseTime
<1>2. ASSUME NEW w \in Workers, Undisturbed(w), WorkerStep(w)
      PROVE  LeaseStep
  <2>1. \/ UnblockRead(w) \/ SweepRead(w) \/ UnblockCommit(w) \/ SweepCommit(w)
        \/ (\E t \in Tasks : Claim(w, t)) \/ Heartbeat(w) \/ RefreshLease(w)
        \/ ReuseCheckpoint(w) \/ Execute(w) \/ Checkpoint(w)
        \/ WriteContext(w) \/ StepFails(w) \/ Complete(w) \/ FinalizeFailure(w)
    BY <1>2 DEF WorkerStep, Proceed
  <2> QED BY <1>2, <2>1, LeasePassRead, LeaseUnblockCommit, LeaseSweepCommit, LeaseClaim,
             LeaseHeartbeat, LeaseRefresh, LeaseExecute, LeaseCheckpoint, LeaseLoaded,
             LeaseComplete, LeaseFinalizeFailure
<1>3. ASSUME NEW o \in Operators, OperatorStep(o) \/ DecisionLost(o)
      PROVE  LeaseStep
  BY <1>3, LeaseDecisionRead, LeaseDecisionCommit, LeaseDecisionLost DEF OperatorStep
<1>4. ASSUME NEW w \in Workers, Crash(w) \/ Restart(w)
      PROVE  LeaseStep
  BY <1>4, LeaseRestart
<1> QED BY <1>1, <1>2, <1>3, <1>4 DEF Next

LEMMA LeaseInductive ==
    ASSUME PromptDeployment PROVE Spec => []LeaseIInv
<1>1. DecisionsPrompt
  BY DEF PromptDeployment
<1>2. LeaseIInv /\ VerdictIInv' /\ [Next]_vars => LeaseIInv'
  <2> SUFFICES ASSUME LeaseInv, VerdictIInv, VerdictIInv', [Next]_vars PROVE LeaseInv'
    BY DEF LeaseIInv
  <2>1. CASE Next
    BY <2>1, LeaseNext DEF LeaseStep
  <2>2. CASE UNCHANGED vars
    <3>1. /\ \A w \in Workers : (LeaseSound(w) => LeaseSound(w)')
                                /\ (SweepSound(w) => SweepSound(w)')
          /\ \A t \in Tasks : DependenciesDone(t) => DependenciesDone(t)'
      BY <2>2 DEF LeaseSound, SweepSound, DependenciesDone, Stale, vars, database
    <3>2. \A o \in Operators : DependenciesDone(job[o]) => DependenciesDone(job[o])'
      BY <2>2 DEF DependenciesDone, vars, database
    <3> QED BY <2>2, <3>1, <3>2 DEF LeaseInv, vars, database
  <2> QED BY <2>1, <2>2
<1>3. Init /\ VerdictIInv => LeaseIInv
  BY LeaseInit DEF LeaseIInv
<1> QED BY <1>1, <1>2, <1>3, VerdictInductive, PTL DEF Spec

(* In a prompt deployment two workers never process the same task.         *)
THEOREM OneWorkerCorrect ==
    ASSUME PromptDeployment PROVE Spec => []OneWorkerPerTask
<1>1. LeaseIInv => OneWorkerPerTask
  BY DEF LeaseIInv, LeaseInv, LeaseSound, OneWorkerPerTask, Holds
<1> QED BY <1>1, LeaseInductive, PTL

(* In a prompt deployment every claim has its attempt row, the last one    *)
(* open exactly while the task is processed, and no task has more of them  *)
(* than it is allowed.                                                     *)
THEOREM AttemptsCorrect ==
    ASSUME PromptDeployment PROVE Spec => []AttemptsAccountedFor
<1>1. LeaseIInv => AttemptsAccountedFor
  <2> SUFFICES ASSUME LeaseInv, NEW t \in Tasks
               PROVE  LET attempts == ledger[t]
                          last     == Len(attempts)
                      IN  /\ last = tasks[t].attempts
                          /\ last <= MaxAttempts
                          /\ tasks[t].status = "processing"
                               <=> "processing" \in {attempts[n] : n \in 1 .. last}
                          /\ tasks[t].status = "completed"
                               <=> "completed" \in {attempts[n] : n \in 1 .. last}
                          /\ \A n \in 1 .. last - 1 : attempts[n] \in {"failed", "abandoned"}
    BY DEF LeaseIInv, AttemptsAccountedFor
  <2>1. AttemptsSound(tasks[t], ledger[t])
    BY DEF LeaseInv
  <2> QED BY <2>1 DEF AttemptsSound
<1> QED BY <1>1, LeaseInductive, PTL

(* In a prompt deployment an effect that is committed with its checkpoint  *)
(* is applied once.                                                        *)
THEOREM EffectCorrect ==
    ASSUME PromptDeployment PROVE Spec => []EffectAppliedOnce
<1>1. LeaseIInv => EffectAppliedOnce
  BY DEF LeaseIInv, LeaseInv, EffectSound, EffectAppliedOnce
<1> QED BY <1>1, LeaseInductive, PTL

(* In a prompt deployment work on a task starts after its dependencies     *)
(* completed, which stay completed.                                        *)
THEOREM DependenciesCorrect ==
    ASSUME PromptDeployment PROVE Spec => []DependenciesFirst
<1>1. LeaseIInv => DependenciesFirst
  <2> SUFFICES ASSUME VerdictIInv, LeaseInv, NEW t \in Tasks, tasks[t].attempts > 0
               PROVE  DependenciesDone(t)
    BY DEF LeaseIInv, DependenciesFirst
  <2>1. tasks[t] \in TaskRow /\ AttemptsSound(tasks[t], ledger[t])
    BY LeaseTypes DEF LeaseInv
  <2>2. tasks[t].status \notin Unbegun
    BY <2>1 DEF AttemptsSound
  <2>3. tasks[t].status \in Ready
    BY <2>1, <2>2, RowColumns, StatusesSplit
  <2> QED BY <2>3 DEF LeaseInv
<1> QED BY <1>1, LeaseInductive, PTL

(* In a prompt deployment no effect is applied again once its result is    *)
(* checkpointed, and only completing the task removes the checkpoint.      *)
THEOREM CheckpointCorrect ==
    ASSUME PromptDeployment PROVE Spec => CheckpointHonoured
<1> DEFINE Honoured == \A t \in Tasks : tasks[t].checkpointed =>
                         /\ effects'[t] = effects[t]
                         /\ tasks'[t].checkpointed \/ tasks'[t].status = "completed"
<1>1. LeaseIInv /\ LeaseIInv' /\ [Next]_vars => [Honoured]_vars
  BY LeaseNext DEF LeaseIInv, LeaseStep
<1> QED BY <1>1, LeaseInductive, PTL DEF Spec, CheckpointHonoured

===============================================================================
