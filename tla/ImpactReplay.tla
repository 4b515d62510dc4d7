----------------------------- MODULE ImpactReplay -----------------------------
(***************************************************************************)
(* What happens to the reports that a newly activated claim-support policy *)
(* puts in doubt: one row of claim_support_policy_change_impacts, the      *)
(* replay tasks that are queued for it, and the closure that is derived    *)
(* from them (app/services/claim_support_policy_impact_replay*.py).  The   *)
(* row is written by requests of operators and by every worker that        *)
(* finalizes one of the tasks, all under SELECT ... FOR UPDATE; but a      *)
(* worker has loaded the row before, to find out whether it names the      *)
(* task, and the lock does not refresh it.  Tasks are seen as AgentTasks   *)
(* describes them, with the leases of live workers in time.                *)
(***************************************************************************)
EXTENDS Naturals, FiniteSets, UnitOfWork

CONSTANTS
    Requests,     \* sessions of the API
    Reports,      \* the draft tasks the recommendations name
    Verified,     \* those whose verification is to be repeated, too
    Plans,        \* bound: how often tasks could be created for the row
    MaxAttempts,  \* worker_max_attempts
    None          \* SQL NULL

ASSUME ReportsAssumption == Verified \subseteq Reports /\ Reports # {}
ASSUME BoundsAssumption == Plans \subseteq Nat \ {0} /\ MaxAttempts \in Nat \ {0}
ASSUME NullAssumption == None \notin Nat

(* The replay tasks of a plan: one draft per report, one verification that *)
(* depends on it.                                                          *)
Task == [plan : Plans, kind : {"draft"}, report : Reports]
        \cup [plan : Plans, kind : {"verify"}, report : Verified]

ASSUME SessionsAssumption == Requests \cap Task = {} /\ None \notin Requests \cup Task

VARIABLES
    impact,     \* the impact row; None until a policy is activated
    tasks,      \* agent_tasks.status
    attempts,   \* agent_tasks.attempts
    verdict,    \* the latest technical_report_gate verification of a task
    events,     \* claim_support_policy_impact_replay_closed, by closure hash
    abandoned,  \* the tasks a sweep of stale leases has failed
    lock,       \* the session that holds the row lock
    pc,         \* per session, of a request or of the worker of a task
    loaded,     \* the impact row as the session loaded it
    seen,       \* the statuses and verdicts it read
    outcome     \* the status the worker will give its task

session == <<pc, loaded, seen, outcome>>
vars    == <<impact, tasks, attempts, verdict, events, abandoned, lock, session>>

Sessions == Requests \cup Task

-------------------------------------------------------------------------------
OpenStatuses == {"pending", "queued", "in_progress", "blocked"}
TerminalStatuses == {"closed", "no_action_required"}

(* A closure is known by when it was made; its hash by the same number.    *)
(* One that is not final has none.                                         *)
Closure == [status : OpenStatuses \cup TerminalStatuses, made : Nat]

ImpactRow ==
    [replay_recommended    : BOOLEAN,
     replay_task_ids       : Plans \cup {None},
     replay_status         : OpenStatuses \cup TerminalStatuses,
     replay_closed_at      : Nat \cup {None},
     replay_closure        : Closure \cup {None},
     replay_closure_sha256 : Nat \cup {None}]

ASSUME RowAssumption == None \notin Closure \cup ImpactRow

TaskStatuses == {"absent", "blocked", "queued", "processing", "retry_wait",
                 "completed", "failed"}

Verdicts == {None, "passed", "failed"}

Locations == {"idle", "queueing", "running", "executed", "finding", "locking",
              "deciding", "dead"}

(* Which tasks a row names.                                                *)
Names(row) == {t \in Task : t.plan = row.replay_task_ids}

Goto(s, location) == pc' = [pc EXCEPT ![s] = location]

FlushImpact(row, old, new) ==
    [column \in DOMAIN row |-> Flush(row[column], old[column], new[column])]

(* What a session reads of the tasks and their verifications.              *)
View == [tasks |-> tasks, verdict |-> verdict]

(* The session is closed and its locks are released.                       *)
Release(s) ==
    /\ lock' = IF lock = s THEN None ELSE lock
    /\ loaded' = [loaded EXCEPT ![s] = None]
    /\ seen' = [seen EXCEPT ![s] = None]
    /\ outcome' = [outcome EXCEPT ![s] = None]

-------------------------------------------------------------------------------
(* The status of a row, from its tasks                                     *)

Closes_AnyVerdict(t, view) == view.tasks[t] = "completed"

Closes(t, view) ==
    /\ view.tasks[t] = "completed"
    /\ t.kind = "verify" => view.verdict[t] = "passed"

Blocks(t, view) ==
    \/ view.tasks[t] \in {"failed", "absent"}
    \/ view.tasks[t] = "completed" /\ ~Closes(t, view)

(* REPLAY_ACTIVE_STATUSES *)
Active(t, view) == view.tasks[t] \in {"processing", "retry_wait"}

ReplayStatus(row, view) ==
    IF Names(row) = {} THEN "pending"
    ELSE IF \E t \in Names(row) : Blocks(t, view) THEN "blocked"
    ELSE IF \A t \in Names(row) : Closes(t, view) THEN "closed"
    ELSE IF \E t \in Names(row) : Active(t, view) THEN "in_progress"
    ELSE "queued"

(* The next closure to be made.                                            *)
Now == Cardinality(events) + 1

Closed(row, status) ==
    [row EXCEPT !.replay_status = status,
                !.replay_closed_at = Now,
                !.replay_closure = [status |-> status, made |-> Now],
                !.replay_closure_sha256 = Now]

Open(row, status) ==
    [row EXCEPT !.replay_status = status,
                !.replay_closed_at = None,
                !.replay_closure = IF status = "pending" THEN None
                                   ELSE [status |-> status, made |-> 0],
                !.replay_closure_sha256 = None]

Refreshed_Again(row, view) ==
    LET status == ReplayStatus(row, view)
    IN  IF ~row.replay_recommended THEN Closed(row, "no_action_required")
        ELSE IF status = "closed" THEN Closed(row, status)
        ELSE Open(row, status)

(* refresh_claim_support_policy_change_impact_replay_status: a closed row  *)
(* stays as it is.                                                         *)
Refreshed(row, view) ==
    LET status == ReplayStatus(row, view)
    IN  IF row.replay_status \in TerminalStatuses /\ row.replay_closure # None THEN row
        ELSE IF ~row.replay_recommended THEN Closed(row, "no_action_required")
        ELSE IF status = "closed" THEN Closed(row, status)
        ELSE Open(row, status)

(* _record_replay_closure_governance_event, in the same transaction; once  *)
(* per closure hash.                                                       *)
Record(row) ==
    events' = events \cup
        (IF row.replay_status \in TerminalStatuses THEN {row.replay_closure_sha256} ELSE {})

-------------------------------------------------------------------------------
(* Activation of a policy                                                  *)

(* The row is written by the activation; one that needs no replay is       *)
(* closed at once.                                                         *)
Activate ==
    \E recommended \in BOOLEAN :
        LET new == [replay_recommended    |-> recommended,
                    replay_task_ids       |-> None,
                    replay_status         |-> IF recommended THEN "pending"
                                              ELSE "no_action_required",
                    replay_closed_at      |-> None,
                    replay_closure        |-> None,
                    replay_closure_sha256 |-> None]
            row == IF recommended THEN new ELSE Refreshed(new, View)
        IN  /\ impact = None
            /\ impact' = row
            /\ Record(row)
            /\ UNCHANGED <<tasks, attempts, verdict, abandoned, lock, session>>

-------------------------------------------------------------------------------
(* Requests of operators                                                   *)

MayLock_Always == TRUE

(* get_impact_row(for_update=True) waits for the row lock.                 *)
MayLock == lock = None

(* queue_claim_support_policy_change_impact_replay_tasks creates tasks     *)
(* only for a row that has none; otherwise it refreshes it, as             *)
(* the request for that does.                                              *)
LockToQueue(q) ==
    /\ pc[q] = "idle"
    /\ impact # None
    /\ MayLock
    /\ lock' = q
    /\ loaded' = [loaded EXCEPT ![q] = impact]
    /\ IF impact.replay_recommended /\ impact.replay_task_ids = None
       THEN Goto(q, "queueing") /\ UNCHANGED seen
       ELSE Goto(q, "deciding") /\ seen' = [seen EXCEPT ![q] = View]
    /\ UNCHANGED <<impact, tasks, attempts, verdict, events, abandoned, outcome>>

LockToRefresh(q) ==
    /\ pc[q] = "idle"
    /\ impact # None
    /\ MayLock
    /\ lock' = q
    /\ loaded' = [loaded EXCEPT ![q] = impact]
    /\ seen' = [seen EXCEPT ![q] = View]
    /\ Goto(q, "deciding")
    /\ UNCHANGED <<impact, tasks, attempts, verdict, events, abandoned, outcome>>

(* All tasks and the row in one commit.                                    *)
QueueTasks(q) ==
    /\ pc[q] = "queueing"
    /\ \E p \in Plans :
         LET new == [loaded[q] EXCEPT !.replay_task_ids = p,
                                      !.replay_status = "queued",
                                      !.replay_closed_at = None,
                                      !.replay_closure = None,
                                      !.replay_closure_sha256 = None]
         IN  /\ \A t \in Task : t.plan >= p => tasks[t] = "absent"
             /\ \A r \in Plans : r < p => \E t \in Task : t.plan = r /\ tasks[t] # "absent"
             /\ tasks' = [t \in Task |->
                  IF t.plan # p THEN tasks[t]
                  ELSE IF t.kind = "draft" THEN "queued" ELSE "blocked"]
             /\ impact' = FlushImpact(impact, loaded[q], new)
    /\ Goto(q, "idle")
    /\ Release(q)
    /\ UNCHANGED <<attempts, verdict, events, abandoned>>

CommitRefresh(q) ==
    LET new == Refreshed(loaded[q], seen[q])
    IN  /\ pc[q] = "deciding"
        /\ impact' = FlushImpact(impact, loaded[q], new)
        /\ Record(new)
        /\ Goto(q, "idle")
        /\ Release(q)
        /\ UNCHANGED <<tasks, attempts, verdict, abandoned>>

(* A recommendation is refused (409), something raises, or the API dies:   *)
(* nothing is committed.                                                   *)
RequestLost(q) ==
    /\ pc[q] # "idle"
    /\ Goto(q, "idle")
    /\ Release(q)
    /\ UNCHANGED <<impact, tasks, attempts, verdict, events, abandoned>>

-------------------------------------------------------------------------------
(* The worker of a task                                                    *)

Draft(t) == [t EXCEPT !.kind = "draft"]

(* unblock_ready_agent_tasks *)
Unblock(t) ==
    /\ tasks[t] = "blocked"
    /\ tasks[Draft(t)] = "completed"
    /\ tasks' = [tasks EXCEPT ![t] = "queued"]
    /\ UNCHANGED <<impact, attempts, verdict, events, abandoned, lock, session>>

Claim(t) ==
    /\ tasks[t] \in {"queued", "retry_wait"}
    /\ tasks' = [tasks EXCEPT ![t] = "processing"]
    /\ attempts' = [attempts EXCEPT ![t] = @ + 1]
    /\ Goto(t, "running")
    /\ UNCHANGED <<impact, verdict, events, abandoned, lock, loaded, seen, outcome>>

(* The action runs; what it recorded is committed with the next heartbeat. *)
Execute(t) ==
    /\ pc[t] = "running"
    /\ IF t.kind = "verify"
       THEN \E v \in {"passed", "failed"} : verdict' = [verdict EXCEPT ![t] = v]
       ELSE UNCHANGED verdict
    /\ Goto(t, "executed")
    /\ UNCHANGED <<impact, tasks, attempts, events, abandoned, lock, loaded, seen, outcome>>

(* finalize_agent_task_success has set the status, in its session.         *)
Succeed(t) ==
    /\ pc[t] = "executed"
    /\ Goto(t, "finding")
    /\ outcome' = [outcome EXCEPT ![t] = "completed"]
    /\ UNCHANGED <<impact, tasks, attempts, verdict, events, abandoned, lock, loaded, seen>>

(* Any step raises, those of the success finalization included: rolled     *)
(* back, and finalized by finalize_agent_task_failure.                     *)
Fail(t) ==
    /\ \/ pc[t] \in {"running", "executed"}
       \/ pc[t] \in {"finding", "locking", "deciding"} /\ outcome[t] = "completed"
    /\ \E status \in {"retry_wait", "failed"} :
         /\ attempts[t] = MaxAttempts => status = "failed"
         /\ outcome' = [outcome EXCEPT ![t] = status]
    /\ Goto(t, "finding")
    /\ lock' = IF lock = t THEN None ELSE lock
    /\ loaded' = [loaded EXCEPT ![t] = None]
    /\ seen' = [seen EXCEPT ![t] = None]
    /\ UNCHANGED <<impact, tasks, attempts, verdict, events, abandoned>>

(* refresh_claim_support_policy_change_impacts_for_replay_task: the open   *)
(* rows are loaded, without a lock, and searched for the task.             *)
FindImpact(t) ==
    /\ pc[t] = "finding"
    /\ IF impact.replay_status \in OpenStatuses /\ t \in Names(impact)
       THEN Goto(t, "locking") /\ loaded' = [loaded EXCEPT ![t] = impact]
       ELSE Goto(t, "deciding") /\ UNCHANGED loaded
    /\ UNCHANGED <<impact, tasks, attempts, verdict, events, abandoned, lock, seen, outcome>>

LockImpact_Unlocked(t) ==
    /\ pc[t] = "locking"
    /\ seen' = [seen EXCEPT ![t] = [View EXCEPT !.tasks[t] = outcome[t]]]
    /\ Goto(t, "deciding")
    /\ UNCHANGED <<impact, tasks, attempts, verdict, events, abandoned, lock, loaded, outcome>>

(* The tasks are read under the lock, its own as the session has changed   *)
(* it; the row is not read again.                                          *)
LockImpact(t) ==
    /\ pc[t] = "locking"
    /\ MayLock
    /\ lock' = t
    /\ seen' = [seen EXCEPT ![t] = [View EXCEPT !.tasks[t] = outcome[t]]]
    /\ Goto(t, "deciding")
    /\ UNCHANGED <<impact, tasks, attempts, verdict, events, abandoned, loaded, outcome>>

(* The task and the row in one commit.                                     *)
Finalize(t) ==
    /\ pc[t] = "deciding"
    /\ IF loaded[t] # None
       THEN LET new == Refreshed(loaded[t], seen[t])
            IN  impact' = FlushImpact(impact, loaded[t], new) /\ Record(new)
       ELSE UNCHANGED <<impact, events>>
    /\ tasks' = [tasks EXCEPT ![t] = outcome[t]]
    /\ Goto(t, "idle")
    /\ Release(t)
    /\ UNCHANGED <<attempts, verdict, abandoned>>

WorkerDies(t) ==
    /\ pc[t] \in Locations \ {"idle", "dead"}
    /\ Goto(t, "dead")
    /\ Release(t)
    /\ UNCHANGED <<impact, tasks, attempts, verdict, events, abandoned>>

Sweep_Unlimited(t) ==
    /\ pc[t] = "dead"
    /\ tasks' = [tasks EXCEPT ![t] = "retry_wait"]
    /\ Goto(t, "idle")
    /\ UNCHANGED <<impact, attempts, verdict, events, abandoned, lock, loaded, seen, outcome>>

(* requeue_stale_agent_tasks; it does not look at impact rows.             *)
Sweep(t) ==
    /\ pc[t] = "dead"
    /\ IF attempts[t] < MaxAttempts
       THEN tasks' = [tasks EXCEPT ![t] = "retry_wait"] /\ UNCHANGED abandoned
       ELSE tasks' = [tasks EXCEPT ![t] = "failed"] /\ abandoned' = abandoned \cup {t}
    /\ Goto(t, "idle")
    /\ UNCHANGED <<impact, attempts, verdict, events, lock, loaded, seen, outcome>>

-------------------------------------------------------------------------------
Init ==
    /\ impact = None
    /\ tasks = [t \in Task |-> "absent"]
    /\ attempts = [t \in Task |-> 0]
    /\ verdict = [t \in Task |-> None]
    /\ events = {}
    /\ abandoned = {}
    /\ lock = None
    /\ pc = [s \in Sessions |-> "idle"]
    /\ loaded = [s \in Sessions |-> None]
    /\ seen = [s \in Sessions |-> None]
    /\ outcome = [s \in Sessions |-> None]

Next ==
    \/ Activate
    \/ \E q \in Requests :
         LockToQueue(q) \/ LockToRefresh(q) \/ QueueTasks(q)
         \/ CommitRefresh(q) \/ RequestLost(q)
    \/ \E t \in Task :
         Unblock(t) \/ Claim(t) \/ Execute(t) \/ Succeed(t) \/ Fail(t)
         \/ FindImpact(t) \/ LockImpact(t) \/ Finalize(t)
         \/ WorkerDies(t) \/ Sweep(t)

Spec == Init /\ [][Next]_vars

-------------------------------------------------------------------------------
(* Correctness                                                             *)

(* Every variable has its type.                                            *)
TypeOK ==
    /\ impact \in ImpactRow \cup {None}
    /\ tasks \in [Task -> TaskStatuses]
    /\ attempts \in [Task -> 0 .. MaxAttempts]
    /\ verdict \in [Task -> Verdicts]
    /\ events \subseteq Nat
    /\ abandoned \subseteq Task
    /\ lock \in Sessions \cup {None}
    /\ pc \in [Sessions -> Locations]
    /\ loaded \in [Sessions -> ImpactRow \cup {None}]
    /\ seen \in [Sessions -> [tasks : [Task -> TaskStatuses],
                              verdict : [Task -> Verdicts]] \cup {None}]
    /\ outcome \in [Sessions -> {None, "completed", "retry_wait", "failed"}]

(* Queueing "is idempotent after task creation" (README.md:600), also for  *)
(* requests that overlap: there is no replay task the row does not name.   *)
QueuedOnce ==
    \A t \in Task : tasks[t] # "absent" => impact # None /\ t \in Names(impact)

(* "Replay-required impact rows [stay] non-closed until the queued draft   *)
(* and verification tasks produce passed technical-report gate evidence    *)
(* plus an immutable replay closure receipt"; terminal rows carry a hash,  *)
(* a matching payload and status, replay_closed_at, and their event.       *)
ClosedOnEvidence ==
    impact # None /\ impact.replay_status \in TerminalStatuses =>
        /\ impact.replay_recommended = (impact.replay_status = "closed")
        /\ \A t \in Names(impact) :
             /\ tasks[t] = "completed"
             /\ t.kind = "verify" => verdict[t] = "passed"
        /\ impact.replay_recommended => Names(impact) # {}
        /\ impact.replay_closure # None
        /\ impact.replay_closure.status = impact.replay_status
        /\ impact.replay_closure_sha256 = impact.replay_closure.made
        /\ impact.replay_closed_at = impact.replay_closure.made
        /\ events = {impact.replay_closure_sha256}

(* A closure receipt is immutable: whatever requests and workers still     *)
(* have in their sessions, no commit changes a row that is closed, or      *)
(* records another event for it.                                           *)
ClosureStands ==
    [][impact # None /\ impact.replay_status \in TerminalStatuses =>
            impact' = impact /\ events' = events]_vars

(* Nothing more will happen to the task of its own accord.                 *)
Over(t) ==
    \/ tasks[t] \in {"completed", "failed"}
    \/ tasks[t] = "blocked" /\ tasks[Draft(t)] = "failed"

(* When the last replay task has been finalized the row is closed or       *)
(* blocked, and a failed one blocks it, without any request of an          *)
(* operator: of two workers that finalize at the same time one sees the    *)
(* other.  A task that a sweep has failed is not looked at.                *)
LastFinalizationSettles ==
    impact # None /\ Names(impact) # {} /\ abandoned = {} =>
        /\ (\A t \in Names(impact) : Over(t)) =>
               impact.replay_status \in {"closed", "blocked"}
        /\ (\E t \in Names(impact) : tasks[t] = "failed") =>
               impact.replay_status = "blocked"

===============================================================================
