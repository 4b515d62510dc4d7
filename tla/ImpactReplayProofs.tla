-------------------------- MODULE ImpactReplayProofs --------------------------
(***************************************************************************)
(* Proofs about ImpactReplay, for any reports, verifications, requests and *)
(* attempt limit: what the row says about its tasks holds although workers *)
(* decide on a row they loaded before they had its lock.                   *)
(***************************************************************************)
EXTENDS ImpactReplay, FiniteSetTheorems, TLAPS

-------------------------------------------------------------------------------
(* The inductive invariant                                                 *)

(* A row is open, with no trace of a closure, or closed for good.          *)
IsOpen(row) ==
    /\ row.replay_status \in OpenStatuses
    /\ row.replay_recommended
    /\ row.replay_closed_at = None
    /\ row.replay_closure_sha256 = None
    /\ row.replay_closure # None => row.replay_closure.status \in OpenStatuses

IsFinal(row) ==
    /\ row.replay_status \in TerminalStatuses
    /\ row.replay_recommended = (row.replay_status = "closed")
    /\ row.replay_recommended = (row.replay_task_ids # None)
    /\ row.replay_closure = [status |-> row.replay_status, made |-> 1]
    /\ row.replay_closed_at = 1
    /\ row.replay_closure_sha256 = 1

RowSound ==
    \/ impact = None /\ events = {}
    \/ impact # None /\ IsOpen(impact) /\ events = {}
    \/ /\ impact # None /\ IsFinal(impact) /\ events = {1}
       /\ \A t \in Names(impact) : Closes(t, View)

(* The tasks the row names are those that exist.                           *)
TasksNamed ==
    \A t \in Task : tasks[t] # "absent" <=> impact # None /\ t \in Names(impact)

BlockedSound ==
    impact # None /\ impact.replay_status = "blocked" =>
        \E t \in Names(impact) : Blocks(t, View)

ViewType == [tasks : [Task -> TaskStatuses], verdict : [Task -> Verdicts]]

Final(status) == status \in {"completed", "failed"}

(* What the holder of the lock has read of another task is still so, once  *)
(* it is final; only a sweep can make one final behind its back.           *)
Agrees(view, t) ==
    /\ view.tasks[t] = "absent" <=> tasks[t] = "absent"
    /\ Final(view.tasks[t]) => tasks[t] = view.tasks[t]
    /\ Final(tasks[t]) => tasks[t] = view.tasks[t] \/ t \in abandoned
    /\ view.tasks[t] = "completed" => view.verdict[t] = verdict[t]

Sees(s) ==
    /\ lock = s
    /\ seen[s] \in ViewType
    /\ \A t \in Task \ {s} : Agrees(seen[s], t)
    /\ impact.replay_status = "blocked" => \E t \in Names(impact) : Blocks(t, seen[s])

RequestSound(q) ==
    /\ pc[q] \in {"idle", "queueing", "deciding"}
    /\ pc[q] # "idle" => lock = q /\ impact # None /\ loaded[q] = impact
    /\ pc[q] = "queueing" => impact.replay_recommended /\ impact.replay_task_ids = None
    /\ pc[q] = "deciding" => Sees(q)

(* The row a worker has loaded before it had the lock may be stale, but it *)
(* is open, names the same tasks, and is not blocked unless the row is.    *)
LoadedSound(t) ==
    /\ loaded[t] # None
    /\ IsOpen(loaded[t])
    /\ loaded[t].replay_task_ids = impact.replay_task_ids
    /\ loaded[t].replay_status = "blocked" => impact.replay_status = "blocked"

OwnView(t) ==
    /\ Sees(t)
    /\ seen[t].tasks[t] = outcome[t]
    /\ seen[t].verdict[t] = verdict[t]

Waiting == {"absent", "blocked", "queued", "retry_wait"}

WorkerSound(t) ==
    /\ pc[t] # "queueing"
    /\ pc[t] # "idle" => tasks[t] = "processing"
    /\ pc[t] \in {"finding", "locking", "deciding"} =>
         /\ outcome[t] \in {"completed", "retry_wait", "failed"}
         /\ outcome[t] = "retry_wait" => attempts[t] < MaxAttempts
    /\ pc[t] \in {"locking", "deciding"} => LoadedSound(t)
    /\ pc[t] = "deciding" => OwnView(t)
    /\ tasks[t] \in Waiting => attempts[t] < MaxAttempts

SessionsSound ==
    /\ \A q \in Requests : RequestSound(q)
    /\ \A t \in Task : WorkerSound(t)

RowsSound == RowSound /\ TasksNamed /\ BlockedSound /\ LastFinalizationSettles

ReplayInv == TypeOK /\ RowsSound /\ SessionsSound

-------------------------------------------------------------------------------
(* Tasks and rows                                                          *)

LEMMA TaskFacts ==
    ASSUME NEW t \in Task
    PROVE  /\ t.plan \in Plans
           /\ t.kind \in {"draft", "verify"}
           /\ Draft(t) \in Task /\ Draft(t).plan = t.plan /\ Draft(t).kind = "draft"
           /\ t.kind = "draft" => Draft(t) = t
BY ReportsAssumption DEF Task, Draft

LEMMA PlanHasDraft ==
    ASSUME NEW p \in Plans
    PROVE  \E t \in Task : t.plan = p /\ t.kind = "draft"
<1>1. PICK r \in Reports : TRUE
  BY ReportsAssumption
<1>2. [plan |-> p, kind |-> "draft", report |-> r] \in Task
  BY DEF Task
<1> QED BY <1>2

LEMMA SessionFacts ==
    /\ Sessions = Requests \cup Task
    /\ None \notin Sessions
    /\ Requests \cap Task = {}
BY SessionsAssumption DEF Sessions

LEMMA StatusFacts ==
    /\ OpenStatuses \cap TerminalStatuses = {}
    /\ TerminalStatuses = {"closed", "no_action_required"}
    /\ OpenStatuses = {"pending", "queued", "in_progress", "blocked"}
BY DEF OpenStatuses, TerminalStatuses

(* The first closure is number 1.                                          *)
LEMMA NowFirst == events = {} => Now = 1
BY FS_EmptySet DEF Now

LEMMA ViewTyped == TypeOK => View \in ViewType
BY DEF TypeOK, View, ViewType

LEMMA ReplayStatusListed ==
    ASSUME NEW row, NEW view
    PROVE  ReplayStatus(row, view) \in OpenStatuses \cup {"closed"}
BY DEF ReplayStatus, OpenStatuses

(* What the status of a row says about its tasks.                          *)
LEMMA StatusMeaning ==
    ASSUME NEW row, NEW view
    PROVE  LET status == ReplayStatus(row, view)
           IN  /\ status = "blocked" <=>
                    \E t \in Names(row) : Blocks(t, view)
               /\ status = "closed" =>
                    Names(row) # {} /\ \A t \in Names(row) : Closes(t, view)
               /\ Names(row) # {} /\ (\A t \in Names(row) : Closes(t, view)) =>
                    status \in {"closed", "blocked"}
BY DEF ReplayStatus

LEMMA FlushSelf ==
    ASSUME NEW row \in ImpactRow, NEW new \in ImpactRow
    PROVE  FlushImpact(row, row, new) = new
BY DEF FlushImpact, Flush, ImpactRow

LEMMA FlushType ==
    ASSUME NEW row \in ImpactRow, NEW old, NEW new \in ImpactRow
    PROVE  FlushImpact(row, old, new) \in ImpactRow
BY DEF FlushImpact, Flush, ImpactRow

LEMMA FlushColumns ==
    ASSUME NEW row \in ImpactRow, NEW old, NEW new
    PROVE  LET flushed == FlushImpact(row, old, new)
           IN  /\ flushed.replay_recommended =
                    Flush(row.replay_recommended, old.replay_recommended, new.replay_recommended)
               /\ flushed.replay_task_ids =
                    Flush(row.replay_task_ids, old.replay_task_ids, new.replay_task_ids)
               /\ flushed.replay_status =
                    Flush(row.replay_status, old.replay_status, new.replay_status)
               /\ flushed.replay_closed_at =
                    Flush(row.replay_closed_at, old.replay_closed_at, new.replay_closed_at)
               /\ flushed.replay_closure =
                    Flush(row.replay_closure, old.replay_closure, new.replay_closure)
               /\ flushed.replay_closure_sha256 =
                    Flush(row.replay_closure_sha256, old.replay_closure_sha256,
                          new.replay_closure_sha256)
BY DEF FlushImpact, ImpactRow

(* The rows a refresh writes.                                              *)
LEMMA ClosedRow ==
    ASSUME NEW row \in ImpactRow, NEW status \in TerminalStatuses, Now = 1
    PROVE  /\ Closed(row, status) \in ImpactRow
           /\ Closed(row, status).replay_recommended = row.replay_recommended
           /\ Closed(row, status).replay_task_ids = row.replay_task_ids
           /\ Closed(row, status).replay_status = status
           /\ Closed(row, status).replay_closed_at = 1
           /\ Closed(row, status).replay_closure = [status |-> status, made |-> 1]
           /\ Closed(row, status).replay_closure_sha256 = 1
BY DEF Closed, ImpactRow, Closure

LEMMA OpenedRow ==
    ASSUME NEW row \in ImpactRow, NEW status \in OpenStatuses
    PROVE  /\ Open(row, status) \in ImpactRow
           /\ Open(row, status).replay_recommended = row.replay_recommended
           /\ Open(row, status).replay_task_ids = row.replay_task_ids
           /\ Open(row, status).replay_status = status
           /\ Open(row, status).replay_closed_at = None
           /\ \/ Open(row, status).replay_closure = None
              \/ Open(row, status).replay_closure = [status |-> status, made |-> 0]
           /\ Open(row, status).replay_closure_sha256 = None
BY DEF Open, ImpactRow, Closure

-------------------------------------------------------------------------------
(* What a refresh does to an open row                                      *)

(* A row and a view that a refresh may be decided on.                      *)
Refreshes(row, view) ==
    /\ row \in ImpactRow
    /\ IsOpen(row)
    /\ row.replay_task_ids = impact.replay_task_ids
    /\ row.replay_status = "blocked" => impact.replay_status = "blocked"
    /\ impact.replay_status = "blocked" => \E t \in Names(impact) : Blocks(t, view)

LEMMA RefreshedOpen ==
    ASSUME NEW row, NEW view, IsOpen(row)
    PROVE  Refreshed(row, view) =
             IF ReplayStatus(row, view) = "closed"
             THEN Closed(row, "closed") ELSE Open(row, ReplayStatus(row, view))
BY StatusFacts DEF Refreshed, IsOpen

LEMMA RefreshCloses ==
    ASSUME impact \in ImpactRow, IsOpen(impact), events = {},
           NEW row, NEW view, Refreshes(row, view),
           ReplayStatus(row, view) = "closed"
    PROVE  LET new     == Refreshed(row, view)
               flushed == FlushImpact(impact, row, new)
           IN  /\ new.replay_status = "closed" /\ new.replay_closure_sha256 = 1
               /\ flushed \in ImpactRow
               /\ flushed.replay_task_ids = impact.replay_task_ids
               /\ flushed.replay_status = "closed"
               /\ flushed.replay_task_ids # None => IsFinal(flushed)
<1> DEFINE new     == Closed(row, "closed")
           flushed == FlushImpact(impact, row, new)
<1>1. Refreshed(row, view) = new
  BY RefreshedOpen DEF Refreshes
<1>2. /\ new \in ImpactRow
      /\ new.replay_recommended = row.replay_recommended
      /\ new.replay_task_ids = row.replay_task_ids
      /\ new.replay_status = "closed"
      /\ new.replay_closed_at = 1
      /\ new.replay_closure = [status |-> "closed", made |-> 1]
      /\ new.replay_closure_sha256 = 1
  BY ClosedRow, NowFirst, StatusFacts DEF Refreshes
<1> HIDE DEF new
<1>3. flushed \in ImpactRow
  BY <1>2, FlushType
<1>4. /\ flushed.replay_recommended = impact.replay_recommended
      /\ flushed.replay_task_ids = impact.replay_task_ids
      /\ flushed.replay_status = "closed"
      /\ flushed.replay_closed_at = 1
      /\ flushed.replay_closure = [status |-> "closed", made |-> 1]
      /\ flushed.replay_closure_sha256 = 1
  <2>1. /\ row.replay_status # "closed" /\ row.replay_closed_at = None
        /\ row.replay_closure_sha256 = None
        /\ row.replay_closure # [status |-> "closed", made |-> 1]
    <3>1. [status |-> "closed", made |-> 1] \in Closure
      BY StatusFacts DEF Closure
    <3> QED BY <3>1, RowAssumption, StatusFacts DEF Refreshes, IsOpen
  <2>2. 1 # None
    BY NullAssumption
  <2> QED BY <1>2, <2>1, <2>2, FlushColumns DEF Flush
<1> QED BY <1>1, <1>2, <1>3, <1>4, StatusFacts DEF IsFinal, IsOpen

LEMMA RefreshOpens ==
    ASSUME impact \in ImpactRow, IsOpen(impact),
           NEW row, NEW view, Refreshes(row, view),
           ReplayStatus(row, view) # "closed"
    PROVE  LET new     == Refreshed(row, view)
               flushed == FlushImpact(impact, row, new)
           IN  /\ new.replay_status \in OpenStatuses
               /\ flushed \in ImpactRow
               /\ flushed.replay_task_ids = impact.replay_task_ids
               /\ IsOpen(flushed)
               /\ flushed.replay_status = IF ReplayStatus(row, view) = row.replay_status
                                          THEN impact.replay_status
                                          ELSE ReplayStatus(row, view)
<1> DEFINE status  == ReplayStatus(row, view)
           new     == Open(row, status)
           flushed == FlushImpact(impact, row, new)
<1>1. Refreshed(row, view) = new /\ status \in OpenStatuses
  BY RefreshedOpen, ReplayStatusListed DEF Refreshes
<1>2. /\ new \in ImpactRow
      /\ new.replay_recommended = row.replay_recommended
      /\ new.replay_task_ids = row.replay_task_ids
      /\ new.replay_status = status
      /\ new.replay_closed_at = None
      /\ \/ new.replay_closure = None
         \/ new.replay_closure = [status |-> status, made |-> 0]
      /\ new.replay_closure_sha256 = None
  BY <1>1, OpenedRow DEF Refreshes
<1> HIDE DEF new, status
<1>3. flushed \in ImpactRow
  BY <1>2, FlushType
<1>4. /\ flushed.replay_recommended = impact.replay_recommended
      /\ flushed.replay_task_ids = impact.replay_task_ids
      /\ flushed.replay_status = IF status = row.replay_status
                                 THEN impact.replay_status ELSE status
      /\ flushed.replay_closed_at = None
      /\ flushed.replay_closure \in {impact.replay_closure, new.replay_closure}
      /\ flushed.replay_closure_sha256 = None
  <2>1. /\ impact.replay_recommended = TRUE /\ row.replay_recommended = TRUE
        /\ impact.replay_closed_at = None /\ row.replay_closed_at = None
        /\ impact.replay_closure_sha256 = None /\ row.replay_closure_sha256 = None
        /\ row.replay_task_ids = impact.replay_task_ids
    BY DEF Refreshes, IsOpen, ImpactRow
  <2>2. /\ flushed.replay_recommended = impact.replay_recommended
        /\ flushed.replay_task_ids = impact.replay_task_ids
    BY <1>2, <2>1, FlushColumns DEF Flush
  <2>3. flushed.replay_status = IF status = row.replay_status
                                THEN impact.replay_status ELSE status
    BY <1>2, FlushColumns DEF Flush
  <2>4. flushed.replay_closed_at = None /\ flushed.replay_closure_sha256 = None
    BY <1>2, <2>1, FlushColumns DEF Flush
  <2>5. flushed.replay_closure \in {impact.replay_closure, new.replay_closure}
    BY FlushColumns DEF Flush
  <2> QED BY <2>2, <2>3, <2>4, <2>5
<1>5. IsOpen(flushed)
  BY <1>1, <1>2, <1>4 DEF IsOpen
<1>6. /\ Refreshed(row, view) = new /\ ReplayStatus(row, view) = status
      /\ new.replay_status \in OpenStatuses
  BY <1>1, <1>2 DEF status
<1> HIDE DEF flushed
<1>7. FlushImpact(impact, row, new) = flushed
  BY DEF flushed
<1> QED BY <1>3, <1>4, <1>5, <1>6, <1>7

(* The commit of a refresh, of a row that may be stale and a view that is  *)
(* not, keeps what is known of an open row, or closes it.                  *)
LEMMA RefreshRows ==
    ASSUME impact \in ImpactRow, IsOpen(impact), events = {}, TasksNamed,
           NEW row, NEW view, Refreshes(row, view),
           impact' = FlushImpact(impact, row, Refreshed(row, view)),
           Record(Refreshed(row, view)),
           tasks' \in [Task -> TaskStatuses],
           \A t \in Task : tasks'[t] = "absent" <=> tasks[t] = "absent",
           \A t \in Task : Agrees(view, t)'
    PROVE  /\ impact' \in ImpactRow /\ events' \subseteq Nat
           /\ impact'.replay_task_ids = impact.replay_task_ids
           /\ impact.replay_status = "blocked" => impact'.replay_status = "blocked"
           /\ RowsSound'
<1>1. Names(row) = Names(impact)
  BY DEF Refreshes, Names
<1>2. \A t \in Task : /\ Closes(t, view) => Closes(t, View)'
                      /\ Blocks(t, view) => Blocks(t, View)'
                      /\ tasks'[t] = "failed" /\ t \notin abandoned' => Blocks(t, view)
                      /\ tasks'[t] = "completed" /\ t \notin abandoned'
                           => Closes(t, view) \/ Blocks(t, view)
  BY DEF Agrees, Final, Closes, Blocks, View
<1>3. Names(impact) \subseteq Task /\ \A t \in Names(impact) : impact.replay_task_ids # None
  <2>1. \A t \in Task : t.plan \in Nat
    BY TaskFacts, BoundsAssumption
  <2> QED BY <2>1, NullAssumption DEF Names
<1>4. ASSUME impact'.replay_task_ids = impact.replay_task_ids, impact' # None
      PROVE  Names(impact') = Names(impact) /\ TasksNamed'
  BY <1>4, RowAssumption DEF TasksNamed, Names
<1>5. ASSUME ReplayStatus(row, view) = "closed"
      PROVE  /\ impact' \in ImpactRow /\ events' \subseteq Nat
             /\ impact'.replay_task_ids = impact.replay_task_ids
             /\ impact.replay_status = "blocked" => impact'.replay_status = "blocked"
             /\ RowsSound'
  <2>1. /\ impact' \in ImpactRow
        /\ impact'.replay_task_ids = impact.replay_task_ids
        /\ impact'.replay_status = "closed"
        /\ impact'.replay_task_ids # None => IsFinal(impact')
        /\ events' = {1}
    BY <1>5, RefreshCloses, StatusFacts DEF Record
  <2>2. Names(impact) # {} /\ \A t \in Names(impact) : Closes(t, view) /\ Closes(t, View)'
    BY <1>1, <1>2, <1>3, <1>5, StatusMeaning
  <2>3. impact' # None /\ Names(impact') = Names(impact) /\ TasksNamed'
    BY <1>4, <2>1, RowAssumption
  <2>4. RowSound'
    BY <1>3, <2>1, <2>2, <2>3 DEF RowSound
  <2>5. BlockedSound' /\ LastFinalizationSettles'
    <3>1. \A t \in Names(impact') : tasks'[t] # "failed"
      BY <2>2, <2>3 DEF Closes, View
    <3> QED BY <2>1, <3>1 DEF BlockedSound, LastFinalizationSettles
  <2>6. impact.replay_status # "blocked"
    <3>1. \A t \in Names(impact) : ~Blocks(t, view)
      BY <2>2 DEF Blocks, Closes
    <3> QED BY <3>1 DEF Refreshes
  <2> QED BY <2>1, <2>3, <2>4, <2>5, <2>6 DEF RowsSound
<1>6. ASSUME ReplayStatus(row, view) # "closed"
      PROVE  /\ impact' \in ImpactRow /\ events' \subseteq Nat
             /\ impact'.replay_task_ids = impact.replay_task_ids
             /\ impact.replay_status = "blocked" => impact'.replay_status = "blocked"
             /\ RowsSound'
  <2>1. /\ impact' \in ImpactRow
        /\ impact'.replay_task_ids = impact.replay_task_ids
        /\ IsOpen(impact')
        /\ impact'.replay_status = IF ReplayStatus(row, view) = row.replay_status
                                   THEN impact.replay_status ELSE ReplayStatus(row, view)
        /\ events' = {}
    BY <1>6, RefreshOpens, StatusFacts DEF Record
  <2>2. impact' # None /\ Names(impact') = Names(impact) /\ TasksNamed'
    BY <1>4, <2>1, RowAssumption
  <2>3. RowSound'
    BY <2>1, <2>2 DEF RowSound
  <2>4. ReplayStatus(row, view) = "blocked" <=> \E t \in Names(impact) : Blocks(t, view)
    BY <1>1, StatusMeaning
  <2>5. ReplayStatus(row, view) = "blocked" => impact'.replay_status = "blocked"
    BY <2>1 DEF Refreshes
  <2>6. impact.replay_status = "blocked" => impact'.replay_status = "blocked"
    BY <2>4, <2>5 DEF Refreshes
  <2>7. impact'.replay_status = "blocked" => \E t \in Names(impact) : Blocks(t, view)
    BY <2>1, <2>4 DEF Refreshes
  <2>8. BlockedSound'
    BY <1>2, <1>3, <2>2, <2>7 DEF BlockedSound
  <2>9. LastFinalizationSettles'
    <3> SUFFICES ASSUME Names(impact') # {}, abandoned' = {}
                 PROVE  /\ (\A t \in Names(impact') : Over(t)') =>
                               impact'.replay_status \in {"closed", "blocked"}
                        /\ (\E t \in Names(impact') : tasks'[t] = "failed") =>
                               impact'.replay_status = "blocked"
      BY DEF LastFinalizationSettles
    <3>1. (\E t \in Names(impact) : tasks'[t] = "failed") => impact'.replay_status = "blocked"
      BY <1>2, <1>3, <2>4, <2>5
    <3>2. ASSUME \A t \in Names(impact) : Over(t)',
                 ~ \E t \in Names(impact) : tasks'[t] = "failed"
          PROVE  impact'.replay_status = "blocked"
      <4>1. \A t \in Names(impact) : Draft(t) \in Names(impact)
        BY TaskFacts DEF Names
      <4>2. \A t \in Names(impact) : tasks'[t] = "completed"
        BY <3>2, <4>1 DEF Over
      <4>3. \A t \in Names(impact) : Closes(t, view) \/ Blocks(t, view)
        BY <1>2, <1>3, <4>2
      <4>4. ~ \A t \in Names(impact) : Closes(t, view)
        <5>1. ASSUME \A t \in Names(impact) : Closes(t, view)
              PROVE  FALSE
          <6>1. \A t \in Names(impact) : ~Blocks(t, view)
            BY <5>1 DEF Blocks, Closes
          <6>2. ReplayStatus(row, view) \in {"closed", "blocked"}
            BY <1>1, <2>2, <5>1, StatusMeaning
          <6> QED BY <1>6, <2>4, <6>1, <6>2
        <5> QED BY <5>1
      <4> QED BY <2>4, <2>5, <4>3, <4>4
    <3> QED BY <2>2, <3>1, <3>2
  <2> QED BY <2>1, <2>2, <2>3, <2>6, <2>8, <2>9 DEF RowsSound
<1> QED BY <1>5, <1>6

-------------------------------------------------------------------------------
(* What the steps of others leave of a session                             *)

(* A step leaves a task alone, or moves it without a result: only a sweep  *)
(* fails one.                                                              *)
Moves(t) ==
    /\ t \in abandoned => t \in abandoned'
    /\ \/ tasks'[t] = tasks[t] /\ verdict'[t] = verdict[t]
       \/ /\ tasks[t] \notin {"absent", "completed", "failed"}
          /\ tasks'[t] \notin {"absent", "completed"}
          /\ tasks'[t] = "failed" => t \in abandoned'

LEMMA AgreementKept ==
    ASSUME NEW view, NEW t, Agrees(view, t), Moves(t)
    PROVE  Agrees(view, t)'
BY DEF Agrees, Moves, Final

SameSession(s) ==
    /\ pc'[s] = pc[s] /\ loaded'[s] = loaded[s] /\ seen'[s] = seen[s]
    /\ outcome'[s] = outcome[s]
    /\ lock = s => lock' = s

LEMMA SightKept ==
    ASSUME NEW s, Sees(s), SameSession(s), impact' = impact,
           \A t \in Task \ {s} : Moves(t)
    PROVE  Sees(s)'
<1> DEFINE view == seen[s]
<1>1. seen'[s] = view /\ lock' = s /\ view \in ViewType
  BY DEF SameSession, Sees
<1>2. \A t \in Task \ {s} : Agrees(view, t)
  BY DEF Sees
<1>3. PICK v : v = view
  OBVIOUS
<1>4. \A t \in Task \ {s} : Agrees(v, t)'
  BY <1>2, <1>3, AgreementKept
<1>5. \A t \in Task \ {s} : Agrees(seen[s], t)'
  BY <1>1, <1>3, <1>4 DEF Agrees
<1>6. (impact.replay_status = "blocked" => \E t \in Names(impact) : Blocks(t, seen[s]))'
  BY <1>1 DEF Sees
<1> QED BY <1>1, <1>5, <1>6 DEF Sees

LEMMA RequestKept ==
    ASSUME NEW q \in Requests, RequestSound(q), SameSession(q),
           pc[q] # "idle" => impact' = impact /\ \A t \in Task : Moves(t)
    PROVE  RequestSound(q)'
<1>1. CASE pc[q] = "idle"
  BY <1>1 DEF RequestSound, SameSession
<1>2. ASSUME pc[q] # "idle"
      PROVE  RequestSound(q)'
  <2>1. impact' = impact /\ \A t \in Task : Moves(t)
    BY <1>2
  <2>2. pc[q] = "deciding" => Sees(q)'
    BY <2>1, SightKept DEF RequestSound
  <2> QED BY <1>2, <2>1, <2>2 DEF RequestSound, SameSession
<1> QED BY <1>1, <1>2

LEMMA WorkerKept ==
    ASSUME NEW t \in Task, WorkerSound(t), SameSession(t),
           tasks'[t] = tasks[t], verdict'[t] = verdict[t], attempts'[t] = attempts[t],
           pc[t] # "idle" =>
               /\ impact'.replay_task_ids = impact.replay_task_ids
               /\ impact.replay_status = "blocked" => impact'.replay_status = "blocked",
           pc[t] = "deciding" => impact' = impact /\ \A u \in Task \ {t} : Moves(u)
    PROVE  WorkerSound(t)'
<1>1. pc[t] \in {"locking", "deciding"} => LoadedSound(t)'
  BY DEF WorkerSound, LoadedSound, SameSession, IsOpen
<1>2. ASSUME pc[t] = "deciding"
      PROVE  OwnView(t)'
  <2>1. Sees(t)'
    BY <1>2, SightKept DEF WorkerSound, OwnView
  <2> QED BY <1>2, <2>1 DEF WorkerSound, OwnView, SameSession
<1> QED BY <1>1, <1>2 DEF WorkerSound, SameSession

-------------------------------------------------------------------------------
(* Steps that only move a session                                          *)

(* A task that has a worker, or waits for one, belongs to an open row.     *)
LEMMA LiveTaskOpen ==
    ASSUME RowsSound, TypeOK, NEW t \in Task, tasks[t] \notin {"absent", "completed"}
    PROVE  /\ impact # None /\ impact \in ImpactRow /\ t \in Names(impact)
           /\ IsOpen(impact) /\ events = {}
<1>1. impact # None /\ impact \in ImpactRow /\ t \in Names(impact)
  BY DEF RowsSound, TasksNamed, TypeOK
<1>2. ~Closes(t, View)
  BY DEF Closes, View
<1> QED BY <1>1, <1>2 DEF RowsSound, RowSound

LEMMA RowsKept ==
    ASSUME RowsSound, UNCHANGED <<impact, tasks, verdict, events, abandoned>>
    PROVE  RowsSound'
<1>1. RowSound' /\ TasksNamed' /\ BlockedSound'
  BY DEF RowsSound, RowSound, TasksNamed, BlockedSound, Names, Closes, Blocks, View
<1>2. LastFinalizationSettles'
  BY DEF RowsSound, LastFinalizationSettles, Over, Names
<1> QED BY <1>1, <1>2 DEF RowsSound

LEMMA SessionStep ==
    ASSUME ReplayInv, TypeOK', NEW a \in Sessions,
           UNCHANGED <<impact, tasks, attempts, verdict, events, abandoned>>,
           \A s \in Sessions \ {a} : SameSession(s),
           a \in Requests => RequestSound(a)',
           a \in Task => WorkerSound(a)'
    PROVE  ReplayInv'
<1>1. \A t : Moves(t)
  BY DEF Moves
<1>2. \A q \in Requests : RequestSound(q)'
  <2> TAKE q \in Requests
  <2>1. CASE q = a
    BY <2>1
  <2>2. CASE q # a
    <3>1. SameSession(q) /\ RequestSound(q)
      BY <2>2, SessionFacts DEF ReplayInv, SessionsSound
    <3> QED BY <1>1, <3>1, RequestKept
  <2> QED BY <2>1, <2>2
<1>3. \A t \in Task : WorkerSound(t)'
  <2> TAKE t \in Task
  <2>1. CASE t = a
    BY <2>1
  <2>2. CASE t # a
    <3>1. SameSession(t) /\ WorkerSound(t)
      BY <2>2, SessionFacts DEF ReplayInv, SessionsSound
    <3> QED BY <1>1, <3>1, WorkerKept
  <2> QED BY <2>1, <2>2
<1>4. RowsSound'
  BY RowsKept DEF ReplayInv
<1> QED BY <1>2, <1>3, <1>4 DEF ReplayInv, SessionsSound

LEMMA RequestLostStep ==
    ASSUME ReplayInv, NEW q \in Requests, RequestLost(q)
    PROVE  ReplayInv'
<1>1. q \in Sessions /\ q \notin Task
  BY SessionFacts
<1>2. TypeOK'
  BY <1>1 DEF ReplayInv, TypeOK, RequestLost, Goto, Release, Locations
<1>3. \A s \in Sessions \ {q} : SameSession(s)
  BY <1>1, SessionFacts DEF ReplayInv, TypeOK, RequestLost, Goto, Release, SameSession
<1>4. RequestSound(q)'
  BY <1>1 DEF ReplayInv, TypeOK, RequestLost, Goto, RequestSound
<1> QED BY <1>1, <1>2, <1>3, <1>4, SessionStep DEF RequestLost

LEMMA WorkerDiesStep ==
    ASSUME ReplayInv, NEW t \in Task, WorkerDies(t)
    PROVE  ReplayInv'
<1>1. t \in Sessions /\ t \notin Requests
  BY SessionFacts
<1>2. TypeOK'
  BY <1>1 DEF ReplayInv, TypeOK, WorkerDies, Goto, Release, Locations
<1>3. \A s \in Sessions \ {t} : SameSession(s)
  BY <1>1, SessionFacts DEF ReplayInv, TypeOK, WorkerDies, Goto, Release, SameSession
<1>4. WorkerSound(t)'
  <2>1. pc'[t] = "dead" /\ tasks'[t] = "processing"
    BY <1>1 DEF ReplayInv, TypeOK, SessionsSound, WorkerSound, WorkerDies, Goto, Locations
  <2> QED BY <2>1 DEF WorkerSound, Waiting
<1> QED BY <1>1, <1>2, <1>3, <1>4, SessionStep DEF WorkerDies

LEMMA SucceedStep ==
    ASSUME ReplayInv, NEW t \in Task, Succeed(t)
    PROVE  ReplayInv'
<1>1. t \in Sessions /\ t \notin Requests
  BY SessionFacts
<1>2. TypeOK'
  BY <1>1 DEF ReplayInv, TypeOK, Succeed, Goto, Locations
<1>3. \A s \in Sessions \ {t} : SameSession(s)
  BY <1>1, SessionFacts DEF ReplayInv, TypeOK, Succeed, Goto, SameSession
<1>4. WorkerSound(t)'
  <2>1. pc'[t] = "finding" /\ tasks'[t] = "processing" /\ outcome'[t] = "completed"
    BY <1>1 DEF ReplayInv, TypeOK, SessionsSound, WorkerSound, Succeed, Goto
  <2> QED BY <2>1 DEF WorkerSound, Waiting
<1> QED BY <1>1, <1>2, <1>3, <1>4, SessionStep DEF Succeed

LEMMA FailStep ==
    ASSUME ReplayInv, NEW t \in Task, Fail(t)
    PROVE  ReplayInv'
<1>1. t \in Sessions /\ t \notin Requests
  BY SessionFacts
<1>2. TypeOK'
  BY <1>1 DEF ReplayInv, TypeOK, Fail, Goto, Locations
<1>3. \A s \in Sessions \ {t} : SameSession(s)
  BY <1>1, SessionFacts DEF ReplayInv, TypeOK, Fail, Goto, SameSession
<1>4. WorkerSound(t)'
  <2>1. pc'[t] = "finding" /\ tasks'[t] = "processing"
    BY <1>1 DEF ReplayInv, TypeOK, SessionsSound, WorkerSound, Fail, Goto
  <2>2. /\ outcome'[t] \in {"retry_wait", "failed"}
        /\ outcome'[t] = "retry_wait" => attempts[t] # MaxAttempts
    BY <1>1 DEF ReplayInv, TypeOK, Fail
  <2>3. attempts'[t] \in 0 .. MaxAttempts /\ attempts'[t] = attempts[t]
    BY DEF ReplayInv, TypeOK, Fail
  <2>4. attempts[t] # MaxAttempts => attempts'[t] < MaxAttempts
    BY <2>3, BoundsAssumption
  <2> QED BY <2>1, <2>2, <2>4 DEF WorkerSound, Waiting
<1> QED BY <1>1, <1>2, <1>3, <1>4, SessionStep DEF Fail

LEMMA FindImpactStep ==
    ASSUME ReplayInv, NEW t \in Task, FindImpact(t)
    PROVE  ReplayInv'
<1>1. t \in Sessions /\ t \notin Requests
  BY SessionFacts
<1>2. TypeOK'
  BY <1>1 DEF ReplayInv, TypeOK, FindImpact, Goto, Locations
<1>3. \A s \in Sessions \ {t} : SameSession(s)
  BY <1>1, SessionFacts DEF ReplayInv, TypeOK, FindImpact, Goto, SameSession
<1>4. WorkerSound(t)'
  <2>1. pc[t] = "finding" /\ tasks[t] = "processing" /\ WorkerSound(t)
    BY DEF ReplayInv, SessionsSound, WorkerSound, FindImpact
  <2>2. impact # None /\ IsOpen(impact) /\ t \in Names(impact)
    BY <2>1, LiveTaskOpen DEF ReplayInv
  <2>3. pc'[t] = "locking" /\ loaded'[t] = impact
    BY <1>1, <2>2 DEF ReplayInv, TypeOK, FindImpact, Goto, IsOpen
  <2>4. LoadedSound(t)'
    BY <2>2, <2>3 DEF LoadedSound, FindImpact, IsOpen
  <2> QED BY <2>1, <2>3, <2>4 DEF WorkerSound, FindImpact, Waiting
<1> QED BY <1>1, <1>2, <1>3, <1>4, SessionStep DEF FindImpact

(* Under the lock the worker reads every other task as it is, and its own  *)
(* as it is going to be.                                                   *)
LEMMA LockImpactStep ==
    ASSUME ReplayInv, NEW t \in Task, LockImpact(t)
    PROVE  ReplayInv'
<1> DEFINE view == [View EXCEPT !.tasks[t] = outcome[t]]
<1>1. t \in Sessions /\ t \notin Requests
  BY SessionFacts
<1>2. /\ pc[t] = "locking" /\ tasks[t] = "processing" /\ WorkerSound(t)
      /\ outcome[t] \in {"completed", "retry_wait", "failed"}
  BY DEF ReplayInv, SessionsSound, WorkerSound, LockImpact
<1>3. /\ view \in ViewType
      /\ view.verdict = verdict
      /\ view.tasks = [tasks EXCEPT ![t] = outcome[t]]
  <2>1. View \in ViewType /\ outcome[t] \in TaskStatuses
    BY <1>2, ViewTyped DEF ReplayInv, TaskStatuses
  <2> QED BY <2>1 DEF View, ViewType
<1>4. seen'[t] = view /\ pc'[t] = "deciding" /\ lock' = t
  BY <1>1 DEF ReplayInv, TypeOK, LockImpact, Goto
<1>5. /\ view.tasks[t] = outcome[t] /\ view.verdict[t] = verdict[t]
      /\ \A u \in Task \ {t} : view.tasks[u] = tasks[u] /\ view.verdict[u] = verdict[u]
  BY <1>3 DEF ReplayInv, TypeOK
<1>6. TypeOK'
  <2> HIDE DEF view
  <2>1. seen' = [seen EXCEPT ![t] = view]
    BY DEF LockImpact, view
  <2>2. pc' \in [Sessions -> Locations] /\ lock' \in Sessions
    BY <1>1, <1>4 DEF ReplayInv, TypeOK, LockImpact, Goto, Locations
  <2>3. seen' \in [Sessions -> ViewType \cup {None}]
    BY <1>1, <1>3, <2>1 DEF ReplayInv, TypeOK, ViewType
  <2> QED BY <2>2, <2>3 DEF ReplayInv, TypeOK, LockImpact, ViewType
<1>7. \A s \in Sessions \ {t} : SameSession(s)
  BY <1>1, SessionFacts DEF ReplayInv, TypeOK, LockImpact, Goto, SameSession, MayLock
<1>8. WorkerSound(t)'
  <2> HIDE DEF view
  <2>1. impact.replay_status = "blocked" => \E u \in Names(impact) : Blocks(u, view)
    <3>1. SUFFICES ASSUME impact.replay_status = "blocked"
                   PROVE  \E u \in Names(impact) : Blocks(u, view)
      OBVIOUS
    <3>2. impact # None
      BY <1>2, LiveTaskOpen DEF ReplayInv
    <3>3. PICK u \in Names(impact) : Blocks(u, View)
      BY <3>1, <3>2 DEF ReplayInv, RowsSound, BlockedSound
    <3>4. u \in Task \ {t}
      BY <1>2, <3>3 DEF Blocks, View, Names
    <3>5. Blocks(u, view)
      BY <1>5, <3>3, <3>4 DEF Blocks, Closes, View
    <3> QED BY <3>5
  <2>2. \A u \in Task \ {t} : Agrees(seen[t], u)'
    BY <1>4, <1>5 DEF Agrees, LockImpact
  <2>3. OwnView(t)'
    BY <1>3, <1>4, <1>5, <2>1, <2>2 DEF OwnView, Sees, LockImpact
  <2>4. LoadedSound(t)'
    BY <1>2 DEF WorkerSound, LoadedSound, LockImpact, IsOpen
  <2> QED BY <1>2, <1>4, <2>3, <2>4 DEF WorkerSound, LockImpact, Waiting
<1> QED BY <1>1, <1>6, <1>7, <1>8, SessionStep DEF LockImpact

(* A request reads the tasks under the lock, and the row, too.             *)
LEMMA RequestSees ==
    ASSUME ReplayInv, NEW q \in Requests, impact # None,
           lock' = q, seen'[q] = View,
           UNCHANGED <<impact, tasks, verdict, abandoned>>
    PROVE  Sees(q)'
<1>1. View \in ViewType
  BY ViewTyped DEF ReplayInv
<1>2. \A t \in Task : Agrees(seen[q], t)'
  BY DEF Agrees, View
<1>3. (impact.replay_status = "blocked" => \E t \in Names(impact) : Blocks(t, seen[q]))'
  BY DEF ReplayInv, RowsSound, BlockedSound, Blocks, Closes
<1> QED BY <1>1, <1>2, <1>3 DEF Sees

LEMMA LockToRefreshStep ==
    ASSUME ReplayInv, NEW q \in Requests, LockToRefresh(q)
    PROVE  ReplayInv'
<1>1. q \in Sessions /\ q \notin Task
  BY SessionFacts
<1>2. View \in ViewType /\ impact # None /\ impact \in ImpactRow
  BY ViewTyped DEF ReplayInv, TypeOK, LockToRefresh
<1>3. TypeOK'
  BY <1>1, <1>2 DEF ReplayInv, TypeOK, LockToRefresh, Goto, Locations, ViewType
<1>4. \A s \in Sessions \ {q} : SameSession(s)
  BY <1>1, SessionFacts DEF ReplayInv, TypeOK, LockToRefresh, Goto, SameSession, MayLock
<1>5. RequestSound(q)'
  <2>1. /\ pc'[q] = "deciding" /\ lock' = q /\ impact' = impact
        /\ loaded'[q] = impact /\ seen'[q] = View
    BY <1>1 DEF ReplayInv, TypeOK, LockToRefresh, Goto
  <2>2. Sees(q)'
    BY <1>2, <2>1, RequestSees DEF LockToRefresh
  <2> QED BY <1>2, <2>1, <2>2 DEF RequestSound
<1> QED BY <1>1, <1>3, <1>4, <1>5, SessionStep DEF LockToRefresh

LEMMA LockToQueueStep ==
    ASSUME ReplayInv, NEW q \in Requests, LockToQueue(q)
    PROVE  ReplayInv'
<1> DEFINE creates == impact.replay_recommended /\ impact.replay_task_ids = None
<1>1. q \in Sessions /\ q \notin Task
  BY SessionFacts
<1>2. View \in ViewType /\ impact # None /\ impact \in ImpactRow
  BY ViewTyped DEF ReplayInv, TypeOK, LockToQueue
<1>3. TypeOK'
  BY <1>1, <1>2 DEF ReplayInv, TypeOK, LockToQueue, Goto, Locations, ViewType
<1>4. \A s \in Sessions \ {q} : SameSession(s)
  BY <1>1, SessionFacts DEF ReplayInv, TypeOK, LockToQueue, Goto, SameSession, MayLock
<1>5. RequestSound(q)'
  <2>1. lock' = q /\ impact' = impact /\ loaded'[q] = impact
    BY <1>1 DEF ReplayInv, TypeOK, LockToQueue
  <2>2. CASE creates
    <3>1. pc'[q] = "queueing"
      BY <1>1, <2>2 DEF ReplayInv, TypeOK, LockToQueue, Goto
    <3> QED BY <1>2, <2>1, <2>2, <3>1 DEF RequestSound
  <2>3. CASE ~creates
    <3>1. pc'[q] = "deciding" /\ seen'[q] = View
      BY <1>1, <2>3 DEF ReplayInv, TypeOK, LockToQueue, Goto
    <3>2. Sees(q)'
      BY <1>2, <2>1, <3>1, RequestSees DEF LockToQueue
    <3> QED BY <1>2, <2>1, <3>1, <3>2 DEF RequestSound
  <2> QED BY <2>2, <2>3
<1> QED BY <1>1, <1>3, <1>4, <1>5, SessionStep DEF LockToQueue

-------------------------------------------------------------------------------
(* Steps that move one task                                                *)

LEMMA RowsOfTaskStep ==
    ASSUME RowsSound, TypeOK, NEW t \in Task, NEW status,
           tasks[t] \notin {"absent", "completed", "failed"},
           status \notin {"absent", "blocked", "completed"},
           tasks' = [tasks EXCEPT ![t] = status],
           status = "failed" => t \in abandoned',
           abandoned \subseteq abandoned',
           \A u \in Task \ {t} : verdict'[u] = verdict[u],
           UNCHANGED <<impact, events>>
    PROVE  RowsSound'
<1>1. /\ impact # None /\ impact' = impact /\ t \in Names(impact) /\ IsOpen(impact)
      /\ events' = {} /\ Names(impact') = Names(impact)
  BY LiveTaskOpen DEF Names
<1>2. tasks'[t] = status /\ \A u \in Task \ {t} : tasks'[u] = tasks[u]
  BY DEF TypeOK
<1>3. RowSound'
  BY <1>1 DEF RowSound, IsOpen
<1>4. TasksNamed'
  BY <1>1, <1>2 DEF RowsSound, TasksNamed
<1>5. BlockedSound'
  <2>1. SUFFICES ASSUME impact.replay_status = "blocked"
                 PROVE  \E u \in Names(impact) : Blocks(u, View)'
    BY <1>1 DEF BlockedSound
  <2>2. PICK u \in Names(impact) : Blocks(u, View)
    BY <1>1, <2>1 DEF RowsSound, BlockedSound
  <2>3. u \in Task \ {t}
    BY <2>2 DEF Blocks, View, Names
  <2>4. Blocks(u, View)'
    BY <1>2, <2>2, <2>3 DEF Blocks, Closes, View
  <2> QED BY <2>4
<1>6. LastFinalizationSettles'
  <2>1. SUFFICES ASSUME abandoned' = {}
                 PROVE  /\ ~Over(t)'
                        /\ (\E u \in Names(impact) : tasks'[u] = "failed") =>
                               impact.replay_status = "blocked"
    BY <1>1 DEF LastFinalizationSettles
  <2>2. ~Over(t)' /\ status # "failed" /\ abandoned = {}
    BY <1>2, <2>1 DEF Over
  <2>3. ASSUME NEW u \in Names(impact), tasks'[u] = "failed"
        PROVE  impact.replay_status = "blocked"
    <3>1. tasks[u] = "failed"
      BY <1>2, <2>2, <2>3 DEF Names
    <3> QED BY <1>1, <2>2, <3>1 DEF RowsSound, LastFinalizationSettles
  <2> QED BY <2>2, <2>3
<1> QED BY <1>3, <1>4, <1>5, <1>6 DEF RowsSound

LEMMA TaskStep ==
    ASSUME ReplayInv, TypeOK', NEW t \in Task, NEW status,
           tasks[t] \notin {"absent", "completed", "failed"},
           status \notin {"absent", "blocked", "completed"},
           tasks' = [tasks EXCEPT ![t] = status],
           status = "failed" => t \in abandoned',
           abandoned \subseteq abandoned',
           \A u \in Task \ {t} : verdict'[u] = verdict[u] /\ attempts'[u] = attempts[u],
           UNCHANGED <<impact, events, lock, loaded, seen, outcome>>,
           \A s \in Sessions \ {t} : pc'[s] = pc[s],
           WorkerSound(t)'
    PROVE  ReplayInv'
<1>1. \A u \in Task : Moves(u)
  BY DEF ReplayInv, TypeOK, Moves
<1>2. \A s \in Sessions \ {t} : SameSession(s)
  BY DEF SameSession
<1>3. \A q \in Requests : RequestSound(q)'
  <2> TAKE q \in Requests
  <2>1. SameSession(q) /\ RequestSound(q)
    BY <1>2, SessionFacts DEF ReplayInv, SessionsSound
  <2> QED BY <1>1, <2>1, RequestKept
<1>4. \A u \in Task : WorkerSound(u)'
  <2> TAKE u \in Task
  <2>1. CASE u = t
    BY <2>1
  <2>2. CASE u # t
    <3>1. SameSession(u) /\ WorkerSound(u) /\ tasks'[u] = tasks[u]
      BY <1>2, <2>2, SessionFacts DEF ReplayInv, SessionsSound, TypeOK
    <3> QED BY <1>1, <2>2, <3>1, WorkerKept
  <2> QED BY <2>1, <2>2
<1>5. RowsSound'
  BY RowsOfTaskStep DEF ReplayInv
<1> QED BY <1>3, <1>4, <1>5 DEF ReplayInv, SessionsSound

LEMMA UnblockStep ==
    ASSUME ReplayInv, NEW t \in Task, Unblock(t)
    PROVE  ReplayInv'
<1>1. WorkerSound(t) /\ pc[t] = "idle" /\ attempts[t] < MaxAttempts
  BY DEF ReplayInv, SessionsSound, WorkerSound, Unblock, Waiting
<1>2. TypeOK'
  BY DEF ReplayInv, TypeOK, Unblock, TaskStatuses, session
<1>3. WorkerSound(t)'
  BY <1>1 DEF WorkerSound, Unblock, session
<1> QED BY <1>2, <1>3, TaskStep DEF Unblock, session

LEMMA ClaimStep ==
    ASSUME ReplayInv, NEW t \in Task, Claim(t)
    PROVE  ReplayInv'
<1>1. t \in Sessions
  BY SessionFacts
<1>2. WorkerSound(t) /\ attempts[t] < MaxAttempts /\ attempts[t] \in 0 .. MaxAttempts
  BY DEF ReplayInv, SessionsSound, WorkerSound, Claim, Waiting, TypeOK
<1>3. TypeOK'
  <2>1. attempts[t] + 1 \in 0 .. MaxAttempts
    BY <1>2, BoundsAssumption
  <2>2. attempts' \in [Task -> 0 .. MaxAttempts]
    BY <2>1 DEF ReplayInv, TypeOK, Claim
  <2>3. /\ tasks' \in [Task -> TaskStatuses]
        /\ pc' \in [Sessions -> Locations]
    BY <1>1 DEF ReplayInv, TypeOK, Claim, Goto, TaskStatuses, Locations
  <2> QED BY <2>2, <2>3 DEF ReplayInv, TypeOK, Claim
<1>4. pc'[t] = "running" /\ tasks'[t] = "processing"
  BY <1>1 DEF ReplayInv, TypeOK, Claim, Goto
<1>5. WorkerSound(t)'
  BY <1>4 DEF WorkerSound, Waiting
<1>6. /\ \A s \in Sessions \ {t} : pc'[s] = pc[s]
      /\ \A u \in Task \ {t} : attempts'[u] = attempts[u]
  BY DEF ReplayInv, TypeOK, Claim, Goto
<1> QED BY <1>3, <1>5, <1>6, TaskStep DEF Claim

LEMMA ExecuteStep ==
    ASSUME ReplayInv, NEW t \in Task, Execute(t)
    PROVE  ReplayInv'
<1>1. t \in Sessions
  BY SessionFacts
<1>2. tasks[t] = "processing"
  BY DEF ReplayInv, SessionsSound, WorkerSound, Execute
<1>3. \A u \in Task \ {t} : verdict'[u] = verdict[u]
  BY DEF ReplayInv, TypeOK, Execute
<1>4. TypeOK'
  <2>1. verdict' \in [Task -> Verdicts]
    BY DEF ReplayInv, TypeOK, Execute, Verdicts
  <2>2. pc' \in [Sessions -> Locations]
    BY <1>1 DEF ReplayInv, TypeOK, Execute, Goto, Locations
  <2> QED BY <2>1, <2>2 DEF ReplayInv, TypeOK, Execute
<1>5. pc'[t] = "executed" /\ tasks'[t] = "processing"
  BY <1>1, <1>2 DEF ReplayInv, TypeOK, Execute, Goto
<1>6. WorkerSound(t)'
  BY <1>5 DEF WorkerSound, Waiting
<1>7. tasks' = [tasks EXCEPT ![t] = "processing"]
  BY <1>2 DEF ReplayInv, TypeOK, Execute
<1>8. \A s \in Sessions \ {t} : pc'[s] = pc[s]
  BY DEF ReplayInv, TypeOK, Execute, Goto
<1> QED BY <1>2, <1>3, <1>4, <1>6, <1>7, <1>8, TaskStep DEF Execute

LEMMA SweepStep ==
    ASSUME ReplayInv, NEW t \in Task, Sweep(t)
    PROVE  ReplayInv'
<1>1. t \in Sessions
  BY SessionFacts
<1>2. tasks[t] = "processing"
  BY DEF ReplayInv, SessionsSound, WorkerSound, Sweep
<1>3. PICK status \in {"retry_wait", "failed"} :
        /\ tasks' = [tasks EXCEPT ![t] = status]
        /\ status = "retry_wait" => attempts[t] < MaxAttempts /\ abandoned' = abandoned
        /\ status = "failed" => abandoned' = abandoned \cup {t}
  BY DEF Sweep
<1>4. TypeOK'
  <2>1. tasks' \in [Task -> TaskStatuses] /\ abandoned' \subseteq Task
    BY <1>3 DEF ReplayInv, TypeOK, TaskStatuses
  <2>2. pc' \in [Sessions -> Locations]
    BY <1>1 DEF ReplayInv, TypeOK, Sweep, Goto, Locations
  <2> QED BY <2>1, <2>2 DEF ReplayInv, TypeOK, Sweep
<1>5. pc'[t] = "idle" /\ tasks'[t] = status /\ attempts' = attempts
  BY <1>1, <1>3 DEF ReplayInv, TypeOK, Sweep, Goto
<1>6. WorkerSound(t)'
  BY <1>3, <1>5 DEF WorkerSound, Waiting
<1>7. \A s \in Sessions \ {t} : pc'[s] = pc[s]
  BY DEF ReplayInv, TypeOK, Sweep, Goto
<1>8. /\ status = "failed" => t \in abandoned'
      /\ abandoned \subseteq abandoned'
  BY <1>3
<1>9. /\ UNCHANGED <<impact, events, lock, loaded, seen, outcome>>
      /\ \A u \in Task \ {t} : verdict'[u] = verdict[u] /\ attempts'[u] = attempts[u]
  BY DEF Sweep
<1>10. status \notin {"absent", "blocked", "completed"}
  BY <1>3
<1> QED BY <1>2, <1>3, <1>4, <1>6, <1>7, <1>8, <1>9, <1>10, TaskStep

-------------------------------------------------------------------------------
(* Steps that change the row                                               *)

(* Who does not hold the lock has decided nothing.                         *)
LEMMA WithoutLock ==
    ASSUME SessionsSound, NEW s \in Sessions, lock # s
    PROVE  /\ s \in Requests => pc[s] = "idle"
           /\ s \in Task => pc[s] # "deciding"
BY DEF SessionsSound, RequestSound, WorkerSound, OwnView, Sees

(* The holder of the lock commits: the others keep what they have.         *)
LEMMA CommitStep ==
    ASSUME ReplayInv, TypeOK', RowsSound', NEW a \in Sessions, lock = a,
           \A s \in Sessions \ {a} :
               /\ pc'[s] = pc[s] /\ loaded'[s] = loaded[s] /\ seen'[s] = seen[s]
               /\ outcome'[s] = outcome[s],
           \A t \in Task \ {a} :
               /\ tasks'[t] = tasks[t] /\ verdict'[t] = verdict[t]
               /\ attempts'[t] = attempts[t],
           impact'.replay_task_ids = impact.replay_task_ids,
           impact.replay_status = "blocked" => impact'.replay_status = "blocked",
           a \in Requests => RequestSound(a)',
           a \in Task => WorkerSound(a)'
    PROVE  ReplayInv'
<1>1. \A s \in Sessions \ {a} : SameSession(s)
  BY DEF SameSession
<1>2. \A q \in Requests : RequestSound(q)'
  <2> TAKE q \in Requests
  <2>1. CASE q = a
    BY <2>1
  <2>2. CASE q # a
    <3>1. SameSession(q) /\ RequestSound(q) /\ pc[q] = "idle"
      BY <1>1, <2>2, SessionFacts, WithoutLock DEF ReplayInv, SessionsSound
    <3> QED BY <3>1, RequestKept
  <2> QED BY <2>1, <2>2
<1>3. \A t \in Task : WorkerSound(t)'
  <2> TAKE t \in Task
  <2>1. CASE t = a
    BY <2>1
  <2>2. CASE t # a
    <3>1. SameSession(t) /\ WorkerSound(t) /\ pc[t] # "deciding"
      BY <1>1, <2>2, SessionFacts, WithoutLock DEF ReplayInv, SessionsSound
    <3> QED BY <2>2, <3>1, WorkerKept
  <2> QED BY <2>1, <2>2
<1> QED BY <1>2, <1>3 DEF ReplayInv, SessionsSound

LEMMA FinalizeStep ==
    ASSUME ReplayInv, NEW t \in Task, Finalize(t)
    PROVE  ReplayInv'
<1>1. t \in Sessions /\ t \notin Requests
  BY SessionFacts
<1>2. /\ tasks[t] = "processing" /\ LoadedSound(t) /\ OwnView(t)
      /\ outcome[t] \in {"completed", "retry_wait", "failed"}
      /\ outcome[t] = "retry_wait" => attempts[t] < MaxAttempts
  BY DEF ReplayInv, SessionsSound, WorkerSound, Finalize
<1>3. /\ impact # None /\ impact \in ImpactRow /\ t \in Names(impact)
      /\ IsOpen(impact) /\ events = {} /\ TasksNamed
  BY <1>2, LiveTaskOpen DEF ReplayInv, RowsSound
<1>4. PICK row, view : row = loaded[t] /\ view = seen[t]
  OBVIOUS
<1>5. row \in ImpactRow /\ view \in ViewType
  BY <1>1, <1>2, <1>4 DEF LoadedSound, OwnView, Sees, ReplayInv, TypeOK
<1>6. /\ tasks'[t] = outcome[t]
      /\ \A u \in Task \ {t} : tasks'[u] = tasks[u]
      /\ verdict' = verdict /\ abandoned' = abandoned /\ attempts' = attempts
      /\ tasks' \in [Task -> TaskStatuses]
  BY <1>2 DEF ReplayInv, TypeOK, Finalize, TaskStatuses
<1>7. /\ impact' = FlushImpact(impact, row, Refreshed(row, view))
      /\ Record(Refreshed(row, view))
  BY <1>2, <1>4 DEF Finalize, LoadedSound
<1>8. Refreshes(row, view)
  <2>1. \E u \in Names(impact) : TRUE
    BY <1>3
  <2> QED BY <1>2, <1>4, <1>5 DEF Refreshes, LoadedSound, OwnView, Sees
<1>9. \A u \in Task : Agrees(view, u)'
  <2>1. Agrees(view, t)'
    BY <1>2, <1>4, <1>6 DEF OwnView, Agrees
  <2>2. \A u \in Task \ {t} : Agrees(view, u)
    BY <1>2, <1>4 DEF OwnView, Sees
  <2>3. \A u \in Task \ {t} : Agrees(view, u)'
    BY <1>6, <2>2 DEF Agrees
  <2> QED BY <2>1, <2>3
<1>10. \A u \in Task : tasks'[u] = "absent" <=> tasks[u] = "absent"
  BY <1>2, <1>6
<1>11. /\ impact' \in ImpactRow /\ events' \subseteq Nat
       /\ impact'.replay_task_ids = impact.replay_task_ids
       /\ impact.replay_status = "blocked" => impact'.replay_status = "blocked"
       /\ RowsSound'
  BY <1>3, <1>6, <1>7, <1>8, <1>9, <1>10, RefreshRows
<1>12. TypeOK'
  <2>1. /\ pc' \in [Sessions -> Locations]
        /\ lock' \in Sessions \cup {None}
        /\ loaded' \in [Sessions -> ImpactRow \cup {None}]
        /\ outcome' \in [Sessions -> {None, "completed", "retry_wait", "failed"}]
    BY <1>1 DEF ReplayInv, TypeOK, Finalize, Goto, Release, Locations
  <2>2. seen' \in [Sessions -> ViewType \cup {None}]
    BY <1>1 DEF ReplayInv, TypeOK, Finalize, Release, ViewType
  <2> QED BY <1>6, <1>11, <2>1, <2>2 DEF ReplayInv, TypeOK, ViewType
<1>13. \A s \in Sessions \ {t} :
         /\ pc'[s] = pc[s] /\ loaded'[s] = loaded[s] /\ seen'[s] = seen[s]
         /\ outcome'[s] = outcome[s]
  BY <1>1 DEF ReplayInv, TypeOK, Finalize, Goto, Release
<1>14. WorkerSound(t)'
  <2>1. pc'[t] = "idle"
    BY <1>1 DEF ReplayInv, TypeOK, Finalize, Goto
  <2> QED BY <1>2, <1>6, <2>1 DEF WorkerSound, Waiting
<1>15. lock = t
  BY <1>2 DEF OwnView, Sees
<1> QED BY <1>1, <1>6, <1>11, <1>12, <1>13, <1>14, <1>15, CommitStep

LEMMA CommitRefreshStep ==
    ASSUME ReplayInv, NEW q \in Requests, CommitRefresh(q)
    PROVE  ReplayInv'
<1>1. q \in Sessions /\ q \notin Task
  BY SessionFacts
<1>2. lock = q /\ impact # None /\ loaded[q] = impact /\ Sees(q) /\ impact \in ImpactRow
  BY DEF ReplayInv, SessionsSound, RequestSound, CommitRefresh, TypeOK
<1>3. PICK view : view = seen[q]
  OBVIOUS
<1>4. /\ impact' = FlushImpact(impact, impact, Refreshed(impact, view))
      /\ Record(Refreshed(impact, view))
      /\ UNCHANGED <<tasks, attempts, verdict, abandoned>>
  BY <1>2, <1>3 DEF CommitRefresh
<1>5. /\ impact' \in ImpactRow /\ events' \subseteq Nat
      /\ impact'.replay_task_ids = impact.replay_task_ids
      /\ impact.replay_status = "blocked" => impact'.replay_status = "blocked"
      /\ RowsSound'
  <2>1. CASE IsOpen(impact)
    <3>1. Refreshes(impact, view)
      BY <1>2, <1>3, <2>1 DEF Refreshes, Sees
    <3>2. \A t \in Task : Agrees(view, t)
      BY <1>1, <1>2, <1>3 DEF Sees
    <3>3. \A t \in Task : Agrees(view, t)'
      BY <1>4, <3>2 DEF Agrees
    <3>4. events = {} /\ TasksNamed /\ tasks' \in [Task -> TaskStatuses]
      BY <1>2, <1>4, <2>1, StatusFacts
         DEF ReplayInv, RowsSound, RowSound, IsOpen, IsFinal, TypeOK
    <3> QED BY <1>2, <1>4, <2>1, <3>1, <3>3, <3>4, RefreshRows
  <2>2. CASE ~IsOpen(impact)
    <3>1. IsFinal(impact) /\ events = {1}
      BY <1>2, <2>2 DEF ReplayInv, RowsSound, RowSound
    <3>2. impact.replay_closure # None
      <4>1. [status |-> impact.replay_status, made |-> 1] \in Closure
        BY <3>1 DEF IsFinal, Closure
      <4> QED BY <3>1, <4>1, RowAssumption DEF IsFinal
    <3>3. Refreshed(impact, view) = impact
      BY <3>1, <3>2 DEF Refreshed, IsFinal
    <3>4. impact' = impact /\ events' = events
      <4>1. impact' = impact
        BY <1>2, <1>4, <3>3, FlushSelf
      <4>2. events' = {1}
        BY <1>4, <3>1, <3>3 DEF Record, IsFinal
      <4> QED BY <3>1, <4>1, <4>2
    <3> QED BY <1>2, <1>4, <3>4, RowsKept DEF ReplayInv, TypeOK
  <2> QED BY <2>1, <2>2
<1>6. TypeOK'
  <2>1. /\ pc' \in [Sessions -> Locations]
        /\ lock' \in Sessions \cup {None}
        /\ loaded' \in [Sessions -> ImpactRow \cup {None}]
        /\ outcome' \in [Sessions -> {None, "completed", "retry_wait", "failed"}]
    BY <1>1 DEF ReplayInv, TypeOK, CommitRefresh, Goto, Release, Locations
  <2>2. seen' \in [Sessions -> ViewType \cup {None}]
    BY <1>1 DEF ReplayInv, TypeOK, CommitRefresh, Release, ViewType
  <2> QED BY <1>4, <1>5, <2>1, <2>2 DEF ReplayInv, TypeOK, ViewType
<1>7. \A s \in Sessions \ {q} :
        /\ pc'[s] = pc[s] /\ loaded'[s] = loaded[s] /\ seen'[s] = seen[s]
        /\ outcome'[s] = outcome[s]
  BY <1>1 DEF ReplayInv, TypeOK, CommitRefresh, Goto, Release
<1>8. RequestSound(q)'
  BY <1>1 DEF ReplayInv, TypeOK, CommitRefresh, Goto, RequestSound
<1> QED BY <1>1, <1>2, <1>4, <1>5, <1>6, <1>7, <1>8, CommitStep

(* A row that names no tasks has none, and nobody works.                   *)
LEMMA NoTasksYet ==
    ASSUME ReplayInv, impact = None \/ Names(impact) = {}
    PROVE  /\ \A t \in Task : tasks[t] = "absent" /\ pc[t] = "idle"
           /\ \A t \in Task : attempts[t] < MaxAttempts
<1>1. \A t \in Task : tasks[t] = "absent"
  BY DEF ReplayInv, RowsSound, TasksNamed
<1> QED BY <1>1 DEF ReplayInv, SessionsSound, WorkerSound, Waiting

LEMMA WorkerAtRest ==
    ASSUME NEW t \in Task, pc'[t] = "idle", tasks'[t] \in Waiting,
           attempts'[t] < MaxAttempts
    PROVE  WorkerSound(t)'
BY DEF WorkerSound, Waiting

LEMMA QueueTasksStep ==
    ASSUME ReplayInv, NEW q \in Requests, QueueTasks(q)
    PROVE  ReplayInv'
<1>1. q \in Sessions /\ q \notin Task
  BY SessionFacts
<1>2. /\ lock = q /\ impact # None /\ loaded[q] = impact /\ impact \in ImpactRow
      /\ impact.replay_recommended /\ impact.replay_task_ids = None
  BY DEF ReplayInv, SessionsSound, RequestSound, QueueTasks, TypeOK
<1>3. IsOpen(impact) /\ events = {}
  BY <1>2 DEF ReplayInv, RowsSound, RowSound, IsFinal
<1>4. \A t \in Task : t.plan \in Nat
  BY TaskFacts, BoundsAssumption
<1>5. Names(impact) = {}
  BY <1>2, <1>4, NullAssumption DEF Names
<1>6. PICK p \in Plans :
        /\ tasks' = [t \in Task |-> IF t.plan # p THEN tasks[t]
                                    ELSE IF t.kind = "draft" THEN "queued" ELSE "blocked"]
        /\ impact' = FlushImpact(impact, impact,
                        [impact EXCEPT !.replay_task_ids = p,
                                       !.replay_status = "queued",
                                       !.replay_closed_at = None,
                                       !.replay_closure = None,
                                       !.replay_closure_sha256 = None])
  BY <1>2 DEF QueueTasks
<1> DEFINE new == [impact EXCEPT !.replay_task_ids = p,
                                 !.replay_status = "queued",
                                 !.replay_closed_at = None,
                                 !.replay_closure = None,
                                 !.replay_closure_sha256 = None]
<1>7. /\ new \in ImpactRow
      /\ new.replay_recommended /\ new.replay_task_ids = p
      /\ new.replay_status = "queued" /\ new.replay_closed_at = None
      /\ new.replay_closure = None /\ new.replay_closure_sha256 = None
  BY <1>2, StatusFacts DEF ImpactRow
<1> HIDE DEF new
<1>8. impact' = new
  BY <1>2, <1>6, <1>7, FlushSelf DEF new
<1>9. impact' # None /\ impact' \in ImpactRow /\ IsOpen(impact') /\ events' = {}
  BY <1>3, <1>7, <1>8, RowAssumption, StatusFacts DEF IsOpen, QueueTasks
<1>10. \A t \in Task :
         /\ t \in Names(impact') <=> t.plan = p
         /\ tasks'[t] = IF t.plan # p THEN "absent"
                        ELSE IF t.kind = "draft" THEN "queued" ELSE "blocked"
  BY <1>5, <1>6, <1>7, <1>8, NoTasksYet DEF Names
<1>11. RowsSound'
  <2>1. RowSound' /\ TasksNamed' /\ BlockedSound'
    BY <1>7, <1>8, <1>9, <1>10 DEF RowSound, TasksNamed, BlockedSound
  <2>2. PICK draft \in Task : draft.plan = p /\ draft.kind = "draft"
    BY PlanHasDraft
  <2>3. draft \in Names(impact') /\ ~Over(draft)'
    BY <1>10, <2>2 DEF Over
  <2>4. \A t \in Names(impact') : tasks'[t] # "failed"
    BY <1>10 DEF Names
  <2> QED BY <2>1, <2>3, <2>4 DEF RowsSound, LastFinalizationSettles
<1>12. TypeOK'
  <2>1. /\ pc' \in [Sessions -> Locations]
        /\ lock' \in Sessions \cup {None}
        /\ loaded' \in [Sessions -> ImpactRow \cup {None}]
        /\ outcome' \in [Sessions -> {None, "completed", "retry_wait", "failed"}]
    BY <1>1 DEF ReplayInv, TypeOK, QueueTasks, Goto, Release, Locations
  <2>2. seen' \in [Sessions -> ViewType \cup {None}]
    BY <1>1 DEF ReplayInv, TypeOK, QueueTasks, Release, ViewType
  <2>3. tasks' \in [Task -> TaskStatuses]
    BY <1>6 DEF ReplayInv, TypeOK, TaskStatuses
  <2> QED BY <1>9, <2>1, <2>2, <2>3 DEF ReplayInv, TypeOK, ViewType, QueueTasks
<1>13. \A r \in Requests : RequestSound(r)'
  <2> TAKE r \in Requests
  <2>1. pc'[r] = "idle"
    BY <1>2, SessionFacts, WithoutLock DEF ReplayInv, TypeOK, QueueTasks, Goto
  <2> QED BY <2>1 DEF RequestSound
<1>14. \A t \in Task : WorkerSound(t)'
  <2> TAKE t \in Task
  <2>1. pc'[t] = "idle" /\ attempts'[t] < MaxAttempts
    BY <1>1, <1>5, NoTasksYet, SessionFacts DEF ReplayInv, TypeOK, QueueTasks, Goto
  <2>2. tasks'[t] \in Waiting
    BY <1>10 DEF Waiting
  <2> QED BY <2>1, <2>2, WorkerAtRest
<1> QED BY <1>11, <1>12, <1>13, <1>14 DEF ReplayInv, SessionsSound

LEMMA ActivateStep ==
    ASSUME ReplayInv, Activate
    PROVE  ReplayInv'
<1>1. impact = None /\ events = {}
  BY DEF Activate, ReplayInv, RowsSound, RowSound
<1>2. PICK recommended \in BOOLEAN :
        LET new == [replay_recommended    |-> recommended,
                    replay_task_ids       |-> None,
                    replay_status         |-> IF recommended THEN "pending"
                                              ELSE "no_action_required",
                    replay_closed_at      |-> None,
                    replay_closure        |-> None,
                    replay_closure_sha256 |-> None]
            row == IF recommended THEN new ELSE Refreshed(new, View)
        IN  impact' = row /\ Record(row)
  BY DEF Activate
<1> DEFINE new == [replay_recommended    |-> recommended,
                   replay_task_ids       |-> None,
                   replay_status         |-> IF recommended THEN "pending"
                                             ELSE "no_action_required",
                   replay_closed_at      |-> None,
                   replay_closure        |-> None,
                   replay_closure_sha256 |-> None]
           row == IF recommended THEN new ELSE Refreshed(new, View)
<1>3. /\ new \in ImpactRow /\ new.replay_recommended = recommended
      /\ new.replay_task_ids = None /\ new.replay_closed_at = None
      /\ new.replay_closure = None /\ new.replay_closure_sha256 = None
      /\ recommended => new.replay_status = "pending"
  BY StatusFacts DEF ImpactRow
<1> HIDE DEF new
<1>4. impact' = row /\ Record(row)
  BY <1>2 DEF new
<1>5. /\ impact' \in ImpactRow /\ impact'.replay_task_ids = None
      /\ impact'.replay_status # "blocked"
      /\ \/ IsOpen(impact') /\ events' = {}
         \/ IsFinal(impact') /\ events' = {1}
  <2>1. CASE recommended
    BY <1>1, <1>3, <1>4, <2>1, StatusFacts DEF Record, IsOpen
  <2>2. CASE ~recommended
    <3>1. row = Closed(new, "no_action_required")
      BY <1>3, <2>2 DEF Refreshed
    <3> QED BY <1>1, <1>3, <1>4, <2>2, <3>1, ClosedRow, NowFirst, StatusFacts
            DEF Record, IsFinal
  <2> QED BY <2>1, <2>2
<1>6. impact' # None /\ Names(impact') = {}
  <2>1. \A t \in Task : t.plan \in Nat
    BY TaskFacts, BoundsAssumption
  <2> QED BY <1>5, <2>1, NullAssumption, RowAssumption DEF Names
<1>7. UNCHANGED <<tasks, attempts, verdict, abandoned, lock, session>>
  BY DEF Activate
<1>8. \A t \in Task : tasks[t] = "absent" /\ pc[t] = "idle" /\ attempts[t] < MaxAttempts
  BY <1>1, NoTasksYet
<1>9. RowsSound'
  BY <1>5, <1>6, <1>7, <1>8
     DEF RowsSound, RowSound, TasksNamed, BlockedSound, LastFinalizationSettles
<1>10. TypeOK'
  <2>1. events' \subseteq Nat
    BY <1>5
  <2> QED BY <1>5, <1>7, <2>1 DEF ReplayInv, TypeOK, session
<1>11. \A q \in Requests : RequestSound(q)'
  BY <1>1, <1>7 DEF ReplayInv, SessionsSound, RequestSound, session
<1>12. \A t \in Task : WorkerSound(t)'
  BY <1>7, <1>8, WorkerAtRest DEF Waiting, session
<1> QED BY <1>9, <1>10, <1>11, <1>12 DEF ReplayInv, SessionsSound

-------------------------------------------------------------------------------
(* The invariant                                                           *)

LEMMA InitSound == Init => ReplayInv
<1> SUFFICES ASSUME Init PROVE ReplayInv
  OBVIOUS
<1>1. TypeOK
  BY BoundsAssumption DEF Init, TypeOK, TaskStatuses, Verdicts, Locations
<1>2. RowsSound
  BY DEF Init, RowsSound, RowSound, TasksNamed, BlockedSound, LastFinalizationSettles
<1>3. SessionsSound
  BY BoundsAssumption, SessionFacts DEF Init, SessionsSound, RequestSound, WorkerSound
<1> QED BY <1>1, <1>2, <1>3 DEF ReplayInv

LEMMA NextSound ==
    ASSUME ReplayInv, Next
    PROVE  ReplayInv'
<1>1. CASE Activate
  BY <1>1, ActivateStep
<1>2. ASSUME NEW q \in Requests,
             LockToQueue(q) \/ LockToRefresh(q) \/ QueueTasks(q)
             \/ CommitRefresh(q) \/ RequestLost(q)
      PROVE  ReplayInv'
  BY <1>2, LockToQueueStep, LockToRefreshStep, QueueTasksStep, CommitRefreshStep,
     RequestLostStep
<1>3. ASSUME NEW t \in Task,
             Unblock(t) \/ Claim(t) \/ Execute(t) \/ Succeed(t) \/ Fail(t)
             \/ FindImpact(t) \/ LockImpact(t) \/ Finalize(t)
             \/ WorkerDies(t) \/ Sweep(t)
      PROVE  ReplayInv'
  BY <1>3, UnblockStep, ClaimStep, ExecuteStep, SucceedStep, FailStep, FindImpactStep,
     LockImpactStep, FinalizeStep, WorkerDiesStep, SweepStep
<1> QED BY <1>1, <1>2, <1>3 DEF Next

LEMMA StutterSound ==
    ASSUME ReplayInv, UNCHANGED vars
    PROVE  ReplayInv'
<1>1. RowsSound'
  BY RowsKept DEF ReplayInv, vars
<1>2. TypeOK'
  BY DEF ReplayInv, TypeOK, vars, session
<1>3. (\A t : Moves(t)) /\ (\A s : SameSession(s))
  BY DEF Moves, SameSession, vars, session
<1>4. SessionsSound'
  <2>1. \A q \in Requests : RequestSound(q)'
    BY <1>3, RequestKept DEF ReplayInv, SessionsSound, vars
  <2>2. \A t \in Task : WorkerSound(t)'
    BY <1>3, WorkerKept DEF ReplayInv, SessionsSound, vars
  <2> QED BY <2>1, <2>2 DEF SessionsSound
<1> QED BY <1>1, <1>2, <1>4 DEF ReplayInv

LEMMA Invariance == Spec => []ReplayInv
<1>1. ReplayInv /\ [Next]_vars => ReplayInv'
  BY NextSound, StutterSound
<1> QED BY InitSound, <1>1, PTL DEF Spec

-------------------------------------------------------------------------------
(* The theorems                                                            *)

(* Every variable has its type.                                            *)
THEOREM TypeCorrect == Spec => []TypeOK
<1>1. ReplayInv => TypeOK
  BY DEF ReplayInv
<1> QED BY <1>1, Invariance, PTL

(* However requests overlap, tasks are created for a row once: there is no *)
(* replay task that the row does not name.                                 *)
THEOREM QueuedOnceCorrect == Spec => []QueuedOnce
<1>1. ReplayInv => QueuedOnce
  BY DEF ReplayInv, RowsSound, TasksNamed, QueuedOnce
<1> QED BY <1>1, Invariance, PTL

(* A row is closed only on the evidence of all its tasks, with a receipt   *)
(* that matches it and one event: no worker closes it on what it had read  *)
(* before it waited for the lock.                                          *)
THEOREM ClosedOnEvidenceCorrect == Spec => []ClosedOnEvidence
<1>1. ASSUME ReplayInv, impact # None, impact.replay_status \in TerminalStatuses
      PROVE  ClosedOnEvidence
  <2>1. /\ IsFinal(impact) /\ events = {1} /\ impact \in ImpactRow
        /\ \A t \in Names(impact) : Closes(t, View)
    BY <1>1, StatusFacts DEF ReplayInv, RowsSound, RowSound, IsOpen, TypeOK
  <2>2. \A t \in Names(impact) :
          tasks[t] = "completed" /\ (t.kind = "verify" => verdict[t] = "passed")
    BY <2>1 DEF Closes, View
  <2>3. impact.replay_recommended => Names(impact) # {}
    <3>1. SUFFICES ASSUME impact.replay_recommended PROVE Names(impact) # {}
      OBVIOUS
    <3>2. impact.replay_task_ids \in Plans
      BY <2>1, <3>1 DEF IsFinal, ImpactRow
    <3> QED BY <3>2, PlanHasDraft DEF Names
  <2>4. impact.replay_closure # None
    <3>1. [status |-> impact.replay_status, made |-> 1] \in Closure
      BY <1>1 DEF Closure
    <3> QED BY <2>1, <3>1, RowAssumption DEF IsFinal
  <2> QED BY <2>1, <2>2, <2>3, <2>4 DEF ClosedOnEvidence, IsFinal
<1>2. ReplayInv => ClosedOnEvidence
  BY <1>1 DEF ClosedOnEvidence
<1> QED BY <1>2, Invariance, PTL

(* Of two workers that finalize at the same time one sees the other: the   *)
(* last finalization closes or blocks the row, a failed one blocks it.     *)
THEOREM LastFinalizationCorrect == Spec => []LastFinalizationSettles
<1>1. ReplayInv => LastFinalizationSettles
  BY DEF ReplayInv, RowsSound
<1> QED BY <1>1, Invariance, PTL

(* No step of any session changes a closed row or records a second event   *)
(* for it, whatever it had loaded.                                         *)
THEOREM ClosureStandsCorrect == Spec => ClosureStands
<1> DEFINE Stands == impact # None /\ impact.replay_status \in TerminalStatuses =>
                         impact' = impact /\ events' = events
<1>1. ASSUME ReplayInv, Next, impact # None, impact.replay_status \in TerminalStatuses
      PROVE  impact' = impact /\ events' = events
  <2>1. /\ IsFinal(impact) /\ ~IsOpen(impact) /\ events = {1} /\ impact \in ImpactRow
        /\ impact.replay_closure # None
    <3>1. IsFinal(impact) /\ ~IsOpen(impact) /\ events = {1} /\ impact \in ImpactRow
      BY <1>1, StatusFacts DEF ReplayInv, RowsSound, RowSound, IsOpen, TypeOK
    <3>2. [status |-> impact.replay_status, made |-> 1] \in Closure
      BY <1>1 DEF Closure
    <3> QED BY <3>1, <3>2, RowAssumption DEF IsFinal
  <2>2. ASSUME NEW t \in Task, Finalize(t)
        PROVE  FALSE
    <3>1. tasks[t] = "processing"
      BY <1>1, <2>2 DEF ReplayInv, SessionsSound, WorkerSound, Finalize
    <3> QED BY <1>1, <2>1, <3>1, LiveTaskOpen DEF ReplayInv
  <2>3. ASSUME NEW q \in Requests, QueueTasks(q)
        PROVE  FALSE
    <3>1. impact.replay_recommended /\ impact.replay_task_ids = None
      BY <1>1, <2>3 DEF ReplayInv, SessionsSound, RequestSound, QueueTasks
    <3> QED BY <2>1, <3>1 DEF IsFinal
  <2>4. ASSUME NEW q \in Requests, CommitRefresh(q)
        PROVE  impact' = impact /\ events' = events
    <3>1. loaded[q] = impact
      BY <1>1, <2>4 DEF ReplayInv, SessionsSound, RequestSound, CommitRefresh
    <3>2. Refreshed(loaded[q], seen[q]) = impact
      BY <1>1, <2>1, <3>1 DEF Refreshed
    <3>3. impact' = FlushImpact(impact, impact, impact) /\ Record(impact)
      BY <2>4, <3>1, <3>2 DEF CommitRefresh
    <3>4. impact' = impact
      BY <2>1, <3>3, FlushSelf
    <3>5. events' = {1}
      BY <2>1, <3>3 DEF Record, IsFinal
    <3> QED BY <2>1, <3>4, <3>5
  <2>5. ~Activate
    BY <1>1 DEF Activate
  <2>6. ASSUME NEW q \in Requests,
               LockToQueue(q) \/ LockToRefresh(q) \/ RequestLost(q)
        PROVE  impact' = impact /\ events' = events
    BY <2>6 DEF LockToQueue, LockToRefresh, RequestLost
  <2>7. ASSUME NEW t \in Task,
               Unblock(t) \/ Claim(t) \/ Execute(t) \/ Succeed(t) \/ Fail(t)
               \/ FindImpact(t) \/ LockImpact(t) \/ WorkerDies(t) \/ Sweep(t)
        PROVE  impact' = impact /\ events' = events
    BY <2>7 DEF Unblock, Claim, Execute, Succeed, Fail, FindImpact, LockImpact,
                WorkerDies, Sweep
  <2> QED BY <1>1, <2>2, <2>3, <2>4, <2>5, <2>6, <2>7 DEF Next
<1>2. ReplayInv /\ [Next]_vars => [Stands]_vars
  BY <1>1
<1> QED BY <1>2, Invariance, PTL DEF Spec, ClosureStands

===============================================================================
