-------------------------- MODULE AgentTaskInvariant --------------------------
(***************************************************************************)
(* Why an approval gate of AgentTasks cannot be passed by accident.  That  *)
(* a task without its approval is not worked on (NoWorkWithoutApproval) is *)
(* not inductive: several sessions keep rows they loaded earlier and write *)
(* a status judged on them.                                                *)
(***************************************************************************)
EXTENDS AgentTasks

(* A task nobody has created is not approved, and in nobody's hands.       *)
Known(t) ==
    tasks[t].status = "absent" =>
        /\ ~tasks[t].approved_at
        /\ \A s \in Sessions : job[s] # t /\ loaded[s][t] = None

(* No attempt, no worker and no sweep has to do with the task, and no      *)
(* session believes that it is approved.                                   *)
Untouched(t) ==
    /\ tasks[t].status \in {"absent", "blocked", "awaiting_approval", "rejected"}
    /\ tasks[t].attempts = 0
    /\ \A w \in Workers :
         /\ ~Holds(w, t)
         /\ pc[w] = "sweeping" => loaded[w][t] = None
    /\ \A s \in Sessions : loaded[s][t] # None => ~loaded[s][t].approved_at

Gate(t) ==
    /\ Known(t)
    /\ t \in NeedsApproval => tasks[t].approved_at \/ Untouched(t)

(* The gate holds although decisions, unblock passes, sweeps and           *)
(* completions overwrite each other's columns: a task that needs approval  *)
(* is approved for good, or untouched.                                     *)
ApprovalInv == \A t \in Tasks : Gate(t)

-------------------------------------------------------------------------------
(* With decisions and unblock passes that do not overlap, what they judge  *)
(* a task on is still so when they commit.                                 *)

Current(s, t) ==
    loaded[s][t] # None =>
        /\ loaded[s][t].status = tasks[t].status
        /\ loaded[s][t].approved_at = tasks[t].approved_at

DecisionSound(o) ==
    decision[o] # None =>
        /\ job[o] \in NeedsApproval
        /\ Current(o, job[o])
        /\ ~tasks[job[o]].approved_at /\ ~tasks[job[o]].rejected_at
        /\ decision[o] = "rejected" =>
             tasks[job[o]].status \in {"blocked", "awaiting_approval"}
        /\ \A p \in Operators \ {o} : decision[p] = None
        /\ \A w \in Workers : pc[w] # "unblocking"

UnblockSound(w) ==
    pc[w] = "unblocking" =>
        /\ \A v \in Workers \ {w} : pc[v] # "unblocking"
        /\ \A t \in Tasks : /\ Current(w, t)
                            /\ loaded[w][t] # None => tasks[t].status = "blocked"

Verdict(t) ==
    /\ tasks[t].rejected_at =>
         /\ t \in NeedsApproval
         /\ tasks[t].status = "rejected"
         /\ ~tasks[t].approved_at
    /\ tasks[t].approved_at => tasks[t].status # "awaiting_approval"

(* A verdict of an operator is never half there: a rejected task has the   *)
(* status and no approval, an approved one does not wait, and a decision   *)
(* or an unblock pass under way still fits the rows it will overwrite.     *)
DecisionInv ==
    /\ \A o \in Operators : DecisionSound(o)
    /\ \A w \in Workers : UnblockSound(w)
    /\ \A t \in Tasks : Verdict(t)

-------------------------------------------------------------------------------
(* Why attempts, effects and dependencies are accounted for: where leases  *)
(* are timely and nobody acts between the read and the commit of a sweep,  *)
(* a decision or an unblock pass, one session at a time may write a task,  *)
(* and what it writes was judged on the row as it is.                      *)

PromptDeployment == LeasesTimely /\ SweepsPrompt /\ DecisionsPrompt

(* The worker of a task is the one the row names, its lease is fresh, and  *)
(* the row is the one it will finish with.                                 *)
LeaseSound(w) ==
    pc[w] \in Working =>
        LET row == tasks[job[w]]
        IN  /\ row.status = "processing"
            /\ row.locked_by = w
            /\ row.last_heartbeat_at = "fresh"
            /\ pc[w] \in {"completing", "failing"} => loaded[w][job[w]] = row
            /\ pc[w] = "applied" => ~row.checkpointed

(* A sweep will write what is still so, and still stale.                   *)
SweepSound(w) ==
    pc[w] = "sweeping" =>
        \A t \in Tasks : loaded[w][t] # None => loaded[w][t] = tasks[t] /\ Stale(t)

Unbegun == {"absent", "blocked", "awaiting_approval", "queued", "rejected"}
Ready   == {"queued", "processing", "retry_wait", "completed", "failed"}

(* A row and its attempt rows; one that can still be claimed has an        *)
(* attempt left.                                                           *)
AttemptsSound(row, attempts) ==
    /\ Len(attempts) = row.attempts
    /\ row.attempts <= MaxAttempts
    /\ row.status = "processing" <=> \E n \in 1 .. Len(attempts) : attempts[n] = "processing"
    /\ row.status = "completed" <=> \E n \in 1 .. Len(attempts) : attempts[n] = "completed"
    /\ \A n \in 1 .. Len(attempts) - 1 : attempts[n] \in {"failed", "abandoned"}
    /\ row.status \in Unbegun => row.attempts = 0 /\ ~row.checkpointed
    /\ row.status = "retry_wait" => row.attempts < MaxAttempts

(* The effect was applied if it is checkpointed or the task completed, and *)
(* otherwise not.                                                          *)
EffectSound(t, row, applied) ==
    t \notin SelfCommitting =>
        /\ applied <= 1
        /\ ~row.checkpointed /\ row.status # "completed" => applied = 0

LeaseInv ==
    /\ \A w \in Workers : LeaseSound(w) /\ SweepSound(w)
    /\ \A o \in Operators : decision[o] = "queued" => DependenciesDone(job[o])
    /\ \A t \in Tasks :
         /\ AttemptsSound(tasks[t], ledger[t])
         /\ EffectSound(t, tasks[t], effects[t])
         /\ tasks[t].status \in Ready => DependenciesDone(t)

===============================================================================
