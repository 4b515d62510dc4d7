------------------------------ MODULE AgentTasks ------------------------------
(***************************************************************************)
(* Agent tasks: created with their dependencies, held for an operator's    *)
(* approval, unblocked, claimed and processed by polling agent workers     *)
(* (app/services/agent_tasks.py, agent_task_lifecycle.py,                  *)
(* agent_task_worker_leases.py, _processing.py, _finalization.py).         *)
(*                                                                         *)
(* As in RunLifecycle an action is one transaction, or the read that       *)
(* starts one.  Here two kinds of processes write the same rows: workers,  *)
(* and the API on behalf of operators.  `loaded` is what each of their     *)
(* sessions has in memory.                                                 *)
(***************************************************************************)
EXTENDS Naturals, Sequences, UnitOfWork

CONSTANTS
    Tasks,            \* numbered in the order of priority, created_at
    Workers,
    Operators,        \* concurrent approval and rejection requests
    DependsOn,        \* agent_task_dependencies: the tasks each task waits for
    NeedsApproval,    \* requires_approval
    Promotable,       \* side_effect_level = "promotable"
    SelfCommitting,   \* promotable actions that commit their effect themselves
    MaxAttempts,      \* settings.worker_max_attempts
    LeasesTimely,     \* a live worker's lease is never found stale
    SweepsPrompt,     \* nobody acts between a stale sweep's read and its commit
    DecisionsPrompt,  \* nor between those of a decision or of an unblock pass
    None              \* SQL NULL

ASSUME TasksAssumption == Tasks \subseteq Nat
ASSUME DependsOnAssumption == DependsOn \in [Tasks -> SUBSET Tasks]
ASSUME KindsAssumption ==
    /\ NeedsApproval \subseteq Tasks
    /\ SelfCommitting \subseteq Promotable
    /\ Promotable \subseteq Tasks
ASSUME MaxAttemptsAssumption == MaxAttempts \in Nat \ {0}
ASSUME SessionsAssumption == Workers \cap Operators = {}
ASSUME DeploymentAssumption ==
    {LeasesTimely, SweepsPrompt, DecisionsPrompt} \subseteq BOOLEAN
ASSUME NoneAssumption ==
    /\ None \notin Tasks /\ None \notin Workers
    /\ None \notin {"fresh", "stale", "due", "later", "retryable", "fatal",
                    "blocked", "queued", "rejected"}

Sessions == Workers \cup Operators

VARIABLES
    tasks,      \* agent_tasks
    ledger,     \* agent_task_attempts: the status of each task's attempts
    effects,    \* how often the promotable effect of each task was applied
    pc,         \* per worker: where its loop is
    error,      \* per worker: the exception it is handling
    decision,   \* per operator: the status its request is about to write
    job,        \* per session: the task it works on
    loaded      \* per session: the task rows it loaded

database == <<tasks, ledger, effects>>
vars     == <<database, pc, error, decision, job, loaded>>

-------------------------------------------------------------------------------
(* Rows                                                                    *)

Ended     == {"completed", "failed", "rejected"}
Statuses  == {"absent", "blocked", "awaiting_approval", "queued",
              "processing", "retry_wait"} \cup Ended
AttemptStatuses == {"processing", "completed", "failed", "abandoned"}

(* approved_at and rejected_at say whether the column is set;              *)
(* checkpointed whether result_json holds the result of an applied effect. *)
TaskRow == [status            : Statuses,
            approved_at       : BOOLEAN,
            rejected_at       : BOOLEAN,
            attempts          : Nat,
            locked_by         : Workers \cup {None},
            last_heartbeat_at : {None, "fresh", "stale"},
            next_attempt_at   : {None, "due", "later"},
            checkpointed      : BOOLEAN]

ASSUME RowAssumption == None \notin TaskRow

Working == {"claimed", "executing", "applied", "executed", "finishing",
            "completing", "failing"}
Locations == Working \cup {"polling", "unblocking", "sweeping", "down"}

absentTask == [status |-> "absent", approved_at |-> FALSE, rejected_at |-> FALSE,
               attempts |-> 0, locked_by |-> None, last_heartbeat_at |-> None,
               next_attempt_at |-> None, checkpointed |-> FALSE]

(* The columns of a task a commit updates.  next_attempt_at set to a time  *)
(* and result_json rebuilt from the loaded one always differ from what was *)
(* loaded and are assigned after the flush.                                *)
FlushTask(row, old, new) ==
    [status            |-> Flush(row.status, old.status, new.status),
     approved_at       |-> Flush(row.approved_at, old.approved_at, new.approved_at),
     rejected_at       |-> Flush(row.rejected_at, old.rejected_at, new.rejected_at),
     attempts          |-> row.attempts,
     locked_by         |-> Flush(row.locked_by, old.locked_by, new.locked_by),
     last_heartbeat_at |-> Flush(row.last_heartbeat_at, old.last_heartbeat_at,
                                 new.last_heartbeat_at),
     next_attempt_at   |-> Flush(row.next_attempt_at, old.next_attempt_at,
                                 new.next_attempt_at),
     checkpointed      |-> row.checkpointed]

SetTask(t, row) == tasks' = [tasks EXCEPT ![t] = row]

(* task_has_incomplete_dependencies, negated.                              *)
DependenciesDone(t) == \A d \in DependsOn[t] : tasks[d].status = "completed"

Stale_Any(t) == tasks[t].status = "processing"

Stale(t) ==
    /\ tasks[t].status = "processing"
    /\ tasks[t].last_heartbeat_at = "stale"

Claimable(t) ==
    \/ tasks[t].status = "queued"
    \/ tasks[t].status = "retry_wait" /\ tasks[t].next_attempt_at # "later"

Holds(w, t) == pc[w] \in Working /\ job[w] = t

(* SKIP LOCKED: an action that has run may have inserted rows that refer   *)
(* to any task, which locks it until that transaction ends.                *)
RowsLocked(w) == \E v \in Workers \ {w} : pc[v] \in {"applied", "executed"}

-------------------------------------------------------------------------------
(* Sessions                                                                *)

Goto(w, location) == pc' = [pc EXCEPT ![w] = location]

Nothing == [t \in Tasks |-> None]

Load(s, t) == loaded' = [loaded EXCEPT ![s] = [Nothing EXCEPT ![t] = tasks[t]]]
LoadAll(s, status) ==
    loaded' = [loaded EXCEPT ![s] =
        [t \in Tasks |-> IF tasks[t].status \in status THEN tasks[t] ELSE None]]

(* The session is closed.                                                  *)
Close(s) ==
    /\ job' = [job EXCEPT ![s] = None]
    /\ loaded' = [loaded EXCEPT ![s] = Nothing]

Leave(w, location) ==
    /\ Goto(w, location)
    /\ error' = [error EXCEPT ![w] = None]
    /\ Close(w)

-------------------------------------------------------------------------------
(* Creation                                                                *)

(* initial_task_status.                                                    *)
InitialStatus(t) ==
    CASE ~DependenciesDone(t) -> "blocked"
      [] DependenciesDone(t) /\ t \in NeedsApproval -> "awaiting_approval"
      [] DependenciesDone(t) /\ t \notin NeedsApproval -> "queued"

(* create_agent_task: only existing tasks can be depended on.  One that    *)
(* completes between the count and the commit makes the task blocked and   *)
(* ready, which is the same as completing right after it.                  *)
Create(t) ==
    /\ tasks[t].status = "absent"
    /\ \A d \in DependsOn[t] : tasks[d].status # "absent"
    /\ SetTask(t, [absentTask EXCEPT !.status = InitialStatus(t)])
    /\ UNCHANGED <<ledger, effects, pc, error, decision, job, loaded>>

-------------------------------------------------------------------------------
(* Time                                                                    *)

LeaseExpires(t) ==
    /\ tasks[t].status = "processing"
    /\ tasks[t].last_heartbeat_at = "fresh"
    /\ LeasesTimely => \A w \in Workers : ~Holds(w, t)
    /\ SetTask(t, [tasks[t] EXCEPT !.last_heartbeat_at = "stale"])
    /\ UNCHANGED <<ledger, effects, pc, error, decision, job, loaded>>

BackoffElapses(t) ==
    /\ tasks[t].status = "retry_wait"
    /\ tasks[t].next_attempt_at = "later"
    /\ SetTask(t, [tasks[t] EXCEPT !.next_attempt_at = "due"])
    /\ UNCHANGED <<ledger, effects, pc, error, decision, job, loaded>>

-------------------------------------------------------------------------------
(* Operators                                                               *)

ApprovedStatus_Approved(t) == "approved"

ApprovedStatus_Queued(t) == "queued"

(* The status approve_agent_task gives the task.                           *)
ApprovedStatus(t) == IF DependenciesDone(t) THEN "queued" ELSE "blocked"

MayApprove_RejectedToo(t) ==
    /\ t \in NeedsApproval
    /\ ~tasks[t].approved_at
    /\ tasks[t].status \notin {"completed", "failed", "absent"}

MayApprove(t) ==
    /\ t \in NeedsApproval
    /\ ~tasks[t].approved_at
    /\ ~tasks[t].rejected_at
    /\ tasks[t].status \notin Ended \cup {"absent"}

(* approve_agent_task up to its commit: the checks, on the loaded row.     *)
ApproveRead(o, t) ==
    /\ decision[o] = None
    /\ MayApprove(t)
    /\ decision' = [decision EXCEPT ![o] = ApprovedStatus(t)]
    /\ job' = [job EXCEPT ![o] = t]
    /\ Load(o, t)
    /\ UNCHANGED <<database, pc, error>>

MayReject(t) ==
    /\ t \in NeedsApproval
    /\ ~tasks[t].approved_at
    /\ ~tasks[t].rejected_at
    /\ tasks[t].status \in {"blocked", "awaiting_approval"}

(* reject_agent_task up to its commit.                                     *)
RejectRead(o, t) ==
    /\ decision[o] = None
    /\ MayReject(t)
    /\ decision' = [decision EXCEPT ![o] = "rejected"]
    /\ job' = [job EXCEPT ![o] = t]
    /\ Load(o, t)
    /\ UNCHANGED <<database, pc, error>>

Decided(row, old, status) ==
    FlushTask(row, old,
        IF status = "rejected"
        THEN [old EXCEPT !.status = "rejected",
                         !.rejected_at = TRUE,
                         !.next_attempt_at = None]
        ELSE [old EXCEPT !.status = status, !.approved_at = TRUE])

(* The commit of approve_agent_task or reject_agent_task.                  *)
DecisionCommit(o) ==
    LET t == job[o]
    IN  /\ decision[o] # None
        /\ SetTask(t, Decided(tasks[t], loaded[o][t], decision[o]))
        /\ decision' = [decision EXCEPT ![o] = None]
        /\ Close(o)
        /\ UNCHANGED <<ledger, effects, pc, error>>

(* The request dies before its commit.                                     *)
DecisionLost(o) ==
    /\ decision[o] # None
    /\ decision' = [decision EXCEPT ![o] = None]
    /\ Close(o)
    /\ UNCHANGED <<database, pc, error>>

-------------------------------------------------------------------------------
(* The worker loop: unblock, sweep stale leases, claim                     *)

(* unblock_ready_agent_tasks, the SELECT.                                  *)
UnblockRead(w) ==
    /\ pc[w] = "polling"
    /\ \E t \in Tasks : tasks[t].status = "blocked"
    /\ LoadAll(w, {"blocked"})
    /\ Goto(w, "unblocking")
    /\ UNCHANGED <<database, error, decision, job>>

Unblocked_Queued(t, old) == "queued"

Unblocked_Awaiting(t, old) ==
    IF t \in NeedsApproval THEN "awaiting_approval" ELSE "queued"

(* Judged on approved_at as it was loaded.                                 *)
Unblocked(t, old) ==
    IF t \in NeedsApproval /\ ~old.approved_at THEN "awaiting_approval" ELSE "queued"

(* The loop over the blocked tasks and the commit.  Dependencies are       *)
(* looked up when their task comes up; they never become incomplete again. *)
UnblockCommit(w) ==
    /\ pc[w] = "unblocking"
    /\ tasks' = [t \in Tasks |->
         LET old == loaded[w][t]
         IN  IF old # None /\ DependenciesDone(t)
             THEN FlushTask(tasks[t], old, [old EXCEPT !.status = Unblocked(t, old)])
             ELSE tasks[t]]
    /\ Leave(w, "polling")
    /\ UNCHANGED <<ledger, effects, decision>>

(* requeue_stale_agent_tasks, the SELECT.                                  *)
SweepRead(w) ==
    /\ pc[w] = "polling"
    /\ \E t \in Tasks : Stale(t)
    /\ loaded' = [loaded EXCEPT ![w] = [t \in Tasks |-> IF Stale(t) THEN tasks[t] ELSE None]]
    /\ Goto(w, "sweeping")
    /\ UNCHANGED <<database, error, decision, job>>

Requeued_ResultDropped(row, old) ==
    LET released == [old EXCEPT !.locked_by = None, !.last_heartbeat_at = None]
        spent    == old.attempts >= MaxAttempts
        swept    == FlushTask(row, old, [released EXCEPT
                        !.status = IF spent THEN "failed" ELSE "retry_wait"])
    IN  [swept EXCEPT !.next_attempt_at = IF spent THEN @ ELSE "due",
                      !.checkpointed = FALSE]

(* Give up or retry, judged on the loaded row.                             *)
Requeued(row, old) ==
    LET released == [old EXCEPT !.locked_by = None, !.last_heartbeat_at = None]
        spent    == old.attempts >= MaxAttempts
        swept    == FlushTask(row, old, [released EXCEPT
                        !.status = IF spent THEN "failed" ELSE "retry_wait"])
    IN  [swept EXCEPT !.next_attempt_at = IF spent THEN @ ELSE "due",
                      !.checkpointed = old.checkpointed]

(* A stale attempt that nobody finished is abandoned.                      *)
Abandoned(attempts, n) ==
    IF n \in DOMAIN attempts /\ attempts[n] = "processing"
    THEN [attempts EXCEPT ![n] = "abandoned"]
    ELSE attempts

SweepCommit(w) ==
    /\ pc[w] = "sweeping"
    /\ tasks' = [t \in Tasks |-> IF loaded[w][t] = None THEN tasks[t]
                                 ELSE Requeued(tasks[t], loaded[w][t])]
    /\ ledger' = [t \in Tasks |-> IF loaded[w][t] = None THEN ledger[t]
                                  ELSE Abandoned(ledger[t], loaded[w][t].attempts)]
    /\ Leave(w, "polling")
    /\ UNCHANGED <<effects, decision>>

(* claim_next_agent_task, after a sweep that found nothing.                *)
Claim(w, t) ==
    /\ pc[w] = "polling"
    /\ \A u \in Tasks : ~Stale(u)
    /\ Claimable(t)
    /\ \A u \in Tasks : u < t /\ Claimable(u) => RowsLocked(w)
    /\ SetTask(t, [tasks[t] EXCEPT !.status = "processing",
                                   !.locked_by = w,
                                   !.last_heartbeat_at = "fresh",
                                   !.next_attempt_at = None,
                                   !.attempts = @ + 1])
    /\ ledger' = [ledger EXCEPT ![t] = Append(@, "processing")]
    /\ Goto(w, "claimed")
    /\ job' = [job EXCEPT ![w] = t]
    /\ UNCHANGED <<effects, error, decision, loaded>>

-------------------------------------------------------------------------------
(* Processing                                                              *)

(* heartbeat_agent_task: ownership is not looked at.                       *)
Heartbeat(w) ==
    /\ pc[w] \in {"claimed", "executed"}
    /\ SetTask(job[w], [tasks[job[w]] EXCEPT !.last_heartbeat_at = "fresh"])
    /\ Goto(w, IF pc[w] = "claimed" THEN "executing" ELSE "finishing")
    /\ UNCHANGED <<ledger, effects, error, decision, job, loaded>>

(* _refresh_agent_task_lease, from the heartbeat thread.                   *)
RefreshLease(w) ==
    /\ pc[w] \in Working
    /\ tasks[job[w]].locked_by = w
    /\ tasks[job[w]].status = "processing"
    /\ tasks[job[w]].last_heartbeat_at # "fresh"
    /\ SetTask(job[w], [tasks[job[w]] EXCEPT !.last_heartbeat_at = "fresh"])
    /\ UNCHANGED <<ledger, effects, pc, error, decision, job, loaded>>

(* A result that an earlier attempt checkpointed is used again.            *)
ReuseCheckpoint(w) ==
    /\ pc[w] = "executing"
    /\ tasks[job[w]].checkpointed
    /\ Goto(w, "executed")
    /\ UNCHANGED <<database, error, decision, job, loaded>>

(* The action runs; some actions commit their effect before they return.   *)
Execute(w) ==
    LET t == job[w]
    IN  /\ pc[w] = "executing"
        /\ ~tasks[t].checkpointed
        /\ effects' = IF t \in SelfCommitting THEN [effects EXCEPT ![t] = @ + 1]
                      ELSE effects
        /\ Goto(w, IF t \in Promotable THEN "applied" ELSE "executed")
        /\ UNCHANGED <<tasks, ledger, error, decision, job, loaded>>

(* checkpoint_promotable_task_result: it commits what the action left in   *)
(* the session together with the result.                                   *)
Checkpoint(w) ==
    LET t == job[w]
    IN  /\ pc[w] = "applied"
        /\ SetTask(t, [tasks[t] EXCEPT !.checkpointed = TRUE])
        /\ effects' = IF t \in SelfCommitting THEN effects
                      ELSE [effects EXCEPT ![t] = @ + 1]
        /\ Goto(w, "executed")
        /\ UNCHANGED <<ledger, error, decision, job, loaded>>

(* write_agent_task_context loads the task for the final transaction.      *)
WriteContext(w) ==
    /\ pc[w] = "finishing"
    /\ Load(w, job[w])
    /\ Goto(w, "completing")
    /\ UNCHANGED <<database, error, decision, job>>

(* The current attempt is the one with the number the task was loaded with. *)
EndAttempt(t, old, status) ==
    ledger' = [ledger EXCEPT ![t] =
        [n \in DOMAIN @ |-> IF n = old.attempts THEN status ELSE @[n]]]

(* finalize_agent_task_success.                                            *)
Complete(w) ==
    LET t   == job[w]
        old == loaded[w][t]
        new == [old EXCEPT !.status = "completed",
                           !.locked_by = None,
                           !.last_heartbeat_at = None,
                           !.next_attempt_at = None]
    IN  /\ pc[w] = "completing"
        /\ SetTask(t, [FlushTask(tasks[t], old, new) EXCEPT !.checkpointed = FALSE])
        /\ EndAttempt(t, old, "completed")
        /\ Leave(w, "polling")
        /\ UNCHANGED <<effects, decision>>

(* Something raises.  is_retryable_agent_task_error: not an HTTPException  *)
(* nor a ValueError.  The session is rolled back, the task read again.     *)
StepFails(w) ==
    /\ pc[w] \in Working \ {"failing"}
    /\ \E kind \in {"retryable", "fatal"} : error' = [error EXCEPT ![w] = kind]
    /\ Load(w, job[w])
    /\ Goto(w, "failing")
    /\ UNCHANGED <<database, decision, job>>

Failed_ResultDropped(row, old, kind) ==
    LET retry == kind = "retryable" /\ old.attempts < MaxAttempts
        ended == FlushTask(row, old,
                   [old EXCEPT !.status = IF retry THEN "retry_wait" ELSE "failed",
                               !.locked_by = None,
                               !.last_heartbeat_at = None])
    IN  [ended EXCEPT !.next_attempt_at = IF retry THEN "later" ELSE @,
                      !.checkpointed = FALSE]

Failed(row, old, kind) ==
    LET retry == kind = "retryable" /\ old.attempts < MaxAttempts
        ended == FlushTask(row, old,
                   [old EXCEPT !.status = IF retry THEN "retry_wait" ELSE "failed",
                               !.locked_by = None,
                               !.last_heartbeat_at = None])
    IN  [ended EXCEPT !.next_attempt_at = IF retry THEN "later" ELSE @,
                      !.checkpointed = old.checkpointed]

FinalizeFailure_AttemptLeft(w) ==
    LET t == job[w]
    IN  /\ pc[w] = "failing"
        /\ SetTask(t, Failed(tasks[t], loaded[w][t], error[w]))
        /\ Leave(w, "polling")
        /\ UNCHANGED <<ledger, effects, decision>>

(* finalize_agent_task_failure.                                            *)
FinalizeFailure(w) ==
    LET t == job[w]
    IN  /\ pc[w] = "failing"
        /\ SetTask(t, Failed(tasks[t], loaded[w][t], error[w]))
        /\ EndAttempt(t, loaded[w][t], "failed")
        /\ Leave(w, "polling")
        /\ UNCHANGED <<effects, decision>>

(* The worker dies: what it had not committed is lost.                     *)
Crash(w) ==
    /\ pc[w] # "down"
    /\ Leave(w, "down")
    /\ UNCHANGED <<database, decision>>

Restart(w) ==
    /\ pc[w] = "down"
    /\ Goto(w, "polling")
    /\ UNCHANGED <<database, error, decision, job, loaded>>

-------------------------------------------------------------------------------
Init ==
    /\ tasks = [t \in Tasks |-> absentTask]
    /\ ledger = [t \in Tasks |-> <<>>]
    /\ effects = [t \in Tasks |-> 0]
    /\ pc = [w \in Workers |-> "polling"]
    /\ error = [w \in Workers |-> None]
    /\ decision = [o \in Operators |-> None]
    /\ job = [s \in Sessions |-> None]
    /\ loaded = [s \in Sessions |-> Nothing]

(* What a worker does of its own accord once it has started.               *)
Proceed(w) ==
    \/ UnblockCommit(w) \/ SweepCommit(w) \/ Heartbeat(w)
    \/ ReuseCheckpoint(w) \/ Execute(w) \/ Checkpoint(w)
    \/ WriteContext(w) \/ Complete(w) \/ FinalizeFailure(w)

WorkerStep(w) ==
    \/ UnblockRead(w) \/ SweepRead(w) \/ \E t \in Tasks : Claim(w, t)
    \/ Proceed(w) \/ RefreshLease(w) \/ StepFails(w)

OperatorStep(o) ==
    \/ \E t \in Tasks : ApproveRead(o, t) \/ RejectRead(o, t)
    \/ DecisionCommit(o)

(* What other sessions have read and are about to overwrite.               *)
Undisturbed(s) ==
    /\ SweepsPrompt => \A w \in Workers \ {s} : pc[w] # "sweeping"
    /\ DecisionsPrompt =>
         /\ \A w \in Workers \ {s} : pc[w] # "unblocking"
         /\ \A o \in Operators \ {s} : decision[o] = None

Next ==
    \/ \E t \in Tasks : Create(t) \/ LeaseExpires(t) \/ BackoffElapses(t)
    \/ \E w \in Workers : Undisturbed(w) /\ WorkerStep(w)
    \/ \E o \in Operators : Undisturbed(o) /\ OperatorStep(o)
    \/ \E w \in Workers : Crash(w) \/ Restart(w)
    \/ \E o \in Operators : DecisionLost(o)

Spec == Init /\ [][Next]_vars

(* As in RunLifecycle; an unblock pass is repeated on every poll as well.  *)
(* Nobody has to decide, but a decision that was sent arrives or is lost.  *)
Fairness ==
    /\ \A t \in Tasks : WF_vars(LeaseExpires(t)) /\ WF_vars(BackoffElapses(t))
    /\ \A w \in Workers : WF_vars(Restart(w))
    /\ \A o \in Operators : WF_vars(DecisionCommit(o) \/ DecisionLost(o))
    /\ \A w \in Workers :
         /\ WF_vars(Proceed(w))
         /\ SF_vars(UnblockRead(w)) /\ SF_vars(UnblockCommit(w))
         /\ SF_vars(SweepRead(w)) /\ SF_vars(SweepCommit(w))
    /\ \A t \in Tasks : SF_vars(\E w \in Workers : Claim(w, t))

FairSpec == Spec /\ Fairness

-------------------------------------------------------------------------------
(* Correctness                                                             *)

(* Every variable has its type.                                            *)
TypeOK ==
    /\ tasks \in [Tasks -> TaskRow]
    /\ ledger \in [Tasks -> Seq(AttemptStatuses)]
    /\ effects \in [Tasks -> Nat]
    /\ pc \in [Workers -> Locations]
    /\ error \in [Workers -> {None, "retryable", "fatal"}]
    /\ decision \in [Operators -> {None, "blocked", "queued", "rejected"}]
    /\ job \in [Sessions -> Tasks \cup {None}]
    /\ loaded \in [Sessions -> [Tasks -> TaskRow \cup {None}]]

(* A task that requires approval is not worked on before an operator       *)
(* approved it, whatever order approvals, unblock passes and dependencies  *)
(* come in.                                                                *)
NoWorkWithoutApproval ==
    \A t \in NeedsApproval : tasks[t].attempts > 0 => tasks[t].approved_at

(* Work on a task starts after all its dependencies completed, and they    *)
(* stay completed.                                                         *)
DependenciesFirst ==
    \A t \in Tasks : tasks[t].attempts > 0 => DependenciesDone(t)

(* "Approval-gated tasks remain awaiting_approval until an operator        *)
(* approves or rejects them" (README.md:574): an approved task is never    *)
(* left waiting for an approval, which no second request could give it.    *)
ApprovalIsKept ==
    \A t \in Tasks : tasks[t].approved_at => tasks[t].status # "awaiting_approval"

(* "Rejected tasks move to terminal rejected status, remain unclaimable by *)
(* the worker" (README.md:575).                                            *)
RejectionIsFinal ==
    [][\A t \in Tasks : tasks[t].rejected_at =>
         /\ tasks'[t].status = "rejected"
         /\ tasks'[t].attempts = tasks[t].attempts
         /\ ~tasks'[t].approved_at]_vars

(* The attempt rows tell the same story as the task: one row per claim,    *)
(* the last one open exactly while the task is being processed, the ones   *)
(* before it closed, and a completed attempt exactly for a completed task. *)
AttemptsAccountedFor ==
    \A t \in Tasks :
        LET attempts == ledger[t]
            last     == Len(attempts)
        IN  /\ last = tasks[t].attempts
            /\ last <= MaxAttempts
            /\ tasks[t].status = "processing" <=> "processing" \in {attempts[n] : n \in 1 .. last}
            /\ tasks[t].status = "completed" <=> "completed" \in {attempts[n] : n \in 1 .. last}
            /\ \A n \in 1 .. last - 1 : attempts[n] \in {"failed", "abandoned"}

(* Two workers never process the same task.                                *)
OneWorkerPerTask ==
    \A v, w \in Workers, t \in Tasks : Holds(v, t) /\ Holds(w, t) => v = w

(* An effect that is committed together with its checkpoint is applied     *)
(* once, however many attempts, failures and crashes the task sees.        *)
EffectAppliedOnce ==
    \A t \in Tasks \ SelfCommitting : effects[t] <= 1

(* Once a checkpoint is committed no effect is applied again, also of an   *)
(* action that commits its own, and only completing the task removes it.   *)
CheckpointHonoured ==
    [][\A t \in Tasks : tasks[t].checkpointed =>
         /\ effects'[t] = effects[t]
         /\ tasks'[t].checkpointed \/ tasks'[t].status = "completed"]_vars

Granted(t) ==
    /\ tasks[t].status # "absent"
    /\ t \in NeedsApproval => tasks[t].approved_at
    /\ DependenciesDone(t)

(* A task that has all it needs is completed or fails for good, however    *)
(* often its workers die.                                                  *)
GrantedTaskEnds == \A t \in Tasks : Granted(t) ~> tasks[t].status \in Ended

===============================================================================
