# A TLA+ model of docling-system

`docling-system` ingests PDF documents, parses them into chunks, tables and
figures, serves search over the result, and runs "agent tasks" that propose and
apply changes under an operator's approval. This directory models the parts in
which several processes work on the same rows, checks them with TLC and proves
the central ones with TLAPS. Paths below are relative to the repository root
(`app/...` is `src/app/...` in `PROJECT.json`).

## 1. The system

### Processes and shared state

| process | code | shares |
|---|---|---|
| API (many requests at a time) | `app/api`, services called by the routers | the database, `storage/` |
| run worker | `app/workers/poller.py`, `app/services/runs.py` | the database, `storage/` |
| agent worker | `app/workers/agent_poller.py`, `app/services/agent_task_worker*.py` | the database, `storage/`, `config/` |
| command line | `app/cli*.py` | the same |

All coordination goes through Postgres (READ COMMITTED): there are no queues or
messages. SQLAlchemy sessions are built with `autoflush=False` and
`expire_on_commit` (`app/db/session.py`), so a service reads a row, decides on
its copy, and commits later; the UPDATE names only the columns whose value
differs from the loaded one. `UnitOfWork.tla` holds that rule in one operator,
`Flush(stored, loaded, edited)`, and it is what makes the interleavings below
interesting: two sessions that overlap merge their changes column by column.

README.md:150-151 plan for one run worker and one agent worker. Two of a kind
overlap during a takeover by newer code (README.md:198-200), or when an operator
starts two.

### Components, state, operations

| component | state | operations | modelled |
|---|---|---|---|
| run worker: `runs.py`, `run_leases.py`, `run_persistence.py`, `run_post_promotion.py` | `document_runs`, `documents.active_run_id/latest_run_id`, chunk/table/figure rows, evaluations | sweep, claim, heartbeat, lease refresh, parse, persist, validate, promote, evaluate, fail | `RunLifecycle` |
| run queue: `document_run_queue.py` | the same | first upload, recovery run, reprocess, backpressure | `DocumentIngest`; where the document is read, locked and pointed at the new run, `RunLifecycle` |
| ingest and idempotency: `document_ingest.py`, `idempotency.py` | documents, runs, `api_idempotency_keys`, source files | upload, local ingest, replay of an answer, storing it | `DocumentIngest` |
| cleanup and audit: `cleanup.py`, `audit.py` | rows and files of old runs | delete superseded runs, expired failures; audit | `DocumentCleanup`; not the audit |
| ingest batches: `ingest_batches.py` | batches, items | ingest a directory, derive the status | `IngestBatches` |
| agent tasks: `agent_tasks.py`, `agent_task_lifecycle.py`, `agent_task_dependencies.py`, `agent_task_worker_*.py` | `agent_tasks`, dependencies, attempts | create, approve, reject, unblock, sweep, claim, execute, checkpoint, complete, fail | `AgentTasks` |
| claim-support policy impacts: `claim_support_policy_impact_replay*.py` | impact rows, replay tasks, closure events | activate, queue tasks, refresh, close | `ImpactReplay` |
| semantic governance: `semantic_*.py` | registry, ontology and graph snapshots, governance events | apply, activate, review | no |
| search harness and retrieval learning: `search_*.py`, `retrieval_learning*.py` | harness overrides, releases, datasets, artifacts | evaluate, gate, release | no |
| parsing, validation, search, ranking, evidence, reports, UI, tooling | | | no: computation on one payload, or read-only |

`PROJECT.json` lists all of them with the reason, and under `hazards` what is
hard to test in them, with the line where it bites and the property that covers
it, or why none does yet.

### What is hard here

* crashes: a worker may die between any two commits, and only the heartbeat
  column tells;
* leases: the sweep of stale leases reads without a lock; the stages of a run
  write without checking that they still own it;
* retries: attempts end in two places (failure, sweep) with two comparisons;
* transactions that overlap: approvals, rejections, unblock passes and claims;
* effects that are applied before they are recorded;
* promotion: what is served must never be touched by anything else;
* stale reads: `SELECT ... FOR UPDATE` waits for a row but does not refresh one
  the session has already loaded, so a service may decide, under the lock, on
  what it read before it;
* answers that are lost: a client repeats a request whose work was committed;
* derived states: the status of a batch, and of an impact row, is computed from
  rows that others change meanwhile.

## 2. The modules

| module | what it is |
|---|---|
| `UnitOfWork` | what a commit of the object-relational mapper writes (external) |
| `RunContract` | the abstract specification of ingest: runs end once, a document serves its last successful run, what it serves changes in that step only; and what follows for whoever implements it |
| `DocumentIngest` | uploads, recoveries, reprocess requests, idempotency keys, backpressure; a worker that behaves as `RunContract` says |
| `DocumentCleanup` | `DocumentIngest` with the cleanup command beside it |
| `RequestInvariant` | what requests hold where they are, in any deployment: `RequestInv` |
| `DocumentInvariant` | what requests and the cleanup hold, and why it is still so when they commit: `BaseInv`, `StoreInv`, `IngestInv` |
| `IngestBatches` | `DocumentIngest` with a directory that is ingested file by file |
| `BatchInvariant` | why readers of a batch are told the truth, in any deployment: `BatchInv` |
| `RunLifecycle` | the run worker in detail, with its properties and the refinement mapping to `RunContract` |
| `RunLifecycleInvariant` | the inductive strengthening, `SafetyInv` |
| `AgentTasks` | agent tasks: operators and agent workers |
| `AgentTaskInvariant` | why approvals hold: `ApprovalInv`, in any deployment, and `DecisionInv`; why attempts and effects are accounted for: `LeaseInv` |
| `ImpactReplay` | policy impact rows and the replay tasks they wait for |
| `MCRunLifecycle`, `MCAgentTasks`, `MCDocumentIngest`, `MCDocumentCleanup`, `MCIngestBatches`, `MCImpactReplay` | the instances TLC checks |
| `RunLifecycleProofs` | `RunLifecycle`: the inductive invariant, all its safety properties and the refinement |
| `AgentTaskProofs`, `AgentTaskLeaseProofs` | type correctness, the approval gate and decisions that last; attempts, effects and dependencies |
| `ImpactReplayProofs` | `ImpactReplay`, all its properties |
| `RequestProofs` | `DocumentIngest` in any deployment: the steps of requests and worker, types, the limit |
| `DocumentProofs` | `DocumentCleanup`, all its properties |
| `BatchProofs` | `IngestBatches`: all its safety properties, and that it implements `DocumentIngest` |

Some modules define operators whose name has a suffix after an underscore
(`Claimed_WithoutLease`, ...). No specification uses them: each is the operator
of the same name with a plausible mistake in it, and `PROJECT.json` pairs it
with the property that must notice.

### RunLifecycle

Each action is one transaction, or the read that starts one when something can
happen before the commit. Where the row locks of a transaction are held (the
persist transaction, the claim) they are held inside one action. `pc[w]` is
where the loop of worker `w` is:

    polling -> sweeping -> polling                 requeue_stale_runs
    polling -> claimed                             claim_next_run
    claimed -> parsing -> parsed                   PARSE, between its two heartbeats
    parsed -> persisting -> persisted              EMBEDDING .. RUN_PERSIST, one commit
    persisted -> marked -> validating -> validated VALIDATION
    validated -> promoted -> polling               PROMOTION, POST_PROMOTION_EVALUATION
    any of these -> failing -> polling             the except clause of process()
    anywhere -> down -> polling                    crash, restart

| variable | code |
|---|---|
| `runs` | `document_runs`: status, attempts, locked_by, last_heartbeat_at, next_attempt_at, validation_status, failure_stage |
| `documents` | active_run_id, latest_run_id |
| `corpus` | the child rows of a run: which attempt wrote them, and their status column |
| `evaluated` | runs with an evaluation row |
| `job`, `attempt`, `error`, `loaded`, `loadedDoc` | what the worker's stack and session hold |
| `recovering` | the `Document` that an upload of a known file has loaded and not locked yet |

Times are abstracted to what the queries compare: a heartbeat is fresh or stale,
a next attempt due or later; `LeaseExpires` and `BackoffElapses` let time pass.
Runs are numbered in the order of `created_at`. Runs are queued in two ways. A
first upload inserts the document, and `reprocess_document` reads it under the row
lock: both are `Submit`, which refuses while the latest run is in flight. An upload
of a file that is known already loads its document by checksum
(`document_ingest.py:116`, `FindDocument`) before it locks it, and the lock does not
refresh what the session has loaded (`document_run_queue.py:151-177`): `QueueRecovery`
refuses while the latest run *of the row it found* is in flight, which need not be
the latest run any more. `EndUpload` is every other end of such a request. The
other decisions of a request are the business of `DocumentIngest`.

Four assumptions about the deployment are Boolean constants, so that each can
be dropped; `SafeDeployment` is their conjunction:

* `LeasesTimely`: the lease of a live worker is not found stale. The heartbeat
  thread renews it every 30 s, it goes stale after 300 s. It fails when the
  process is suspended or cut off from the database for that long.
* `SweepsPrompt`: no worker acts between the read and the commit of another
  worker's sweep. Always true with one worker.
* `QuietAfterPromotion`: nothing raises between the promotion commit and the
  evaluation, which catches its own exceptions.
* `ReadsPrompt`: a document does not change between the read of an upload and its
  lock. The code does *not* ensure it when the same file is uploaded twice at a
  time; the constant of the same name in `DocumentIngest` says the same, and the run
  `ingest_recovery_race` shows what happens without it.

Each is needed. With `run_lifecycle`'s instance, TLC finds `OneWorkerPerRun` violated
without `LeasesTimely` and without `SweepsPrompt`, and `ActiveRunIsPublished` without
`QuietAfterPromotion`. Without `ReadsPrompt` two recovery runs are queued, and the
older one may be promoted last: `OneInflightRunPerDocument`, `NeverServesOlderRun` and
`ImplementsContract` fail. Three of these counterexamples are kept as runs, below.

### AgentTasks

Workers loop `polling -> unblocking`, `-> sweeping`, `-> claimed`, then
`executing -> (applied ->) executed -> finishing -> completing -> polling`, with
`failing` and `down` as above; operators' requests read a task and commit a
decision. Dependencies can only name tasks that exist, so they are acyclic by
construction, as in `create_agent_task`. `ledger` holds the attempt rows and
`effects` counts how often a promotable effect was applied. Actions whose effect
is in the task's own session are committed by the checkpoint
(`checkpoint_promotable_task_result`); those in `SelfCommitting`
(`enqueue_document_reprocess`, the ontology and registry applications, files)
have committed before. `LeasesTimely` and `SweepsPrompt` are as above;
`DecisionsPrompt` says that no session acts between the read and the commit of
a decision or of an unblock pass. It is *not* something the deployment gives:
the API and the worker are different processes. It separates what the code gets
right step by step from what only a lock would add.

### DocumentIngest

Every statement of a request whose result may be stale when the next one runs is
an action; what a transaction inserts becomes visible in `Commit`, and until then
only blocks others (`Locked`, `IndexFree`). `pc[q]` is where the handler is:

    idle -> received -> (Replay: replying)         get_idempotent_response
    received -> finding | locking                  upload | reprocess
    finding -> admitting -> inserting -> moving    a new file
    finding -> resolving                           a known file
    inserting -> outrun                            IntegrityError: another one was first
    resolving, outrun -> replying | storing        duplicate, in flight, or a recovery run
    locking -> storing | committing                reprocess, under the row lock
    moving, ... -> storing -> committing -> replying -> idle

| variable | code |
|---|---|
| `documents` | sha256, active_run_id, latest_run_id |
| `runs` | what became of each `document_runs` row; deleted rows are `superseded` or `purged` |
| `sources` | which `source/<id>.pdf` exist |
| `responses` | `api_idempotency_keys`, by scope and key: fingerprint and answer |
| `origin` | which key queued a run, and whether it is a recovery (for the properties) |
| `request`, `loaded`, `lookup`, `answer` | what the session of a request holds |

The worker is its contract: `RunSucceeds` and `RunFails`. `Abort` is an exception
or the death of the process anywhere before the answer; the client may then ask
again. `ImplementsContract` refines `RunContract` from the side that queues runs,
as `RunLifecycle` does from the side that processes them. Two assumptions about
the outside are constants: `KeysSequential`, a client does not send a keyed request
again while the first one is under way; and `ReadsPrompt`, nobody acts on a
document between its read and its lock, which the code does *not* ensure and the
run `ingest_recovery_race` drops.

### DocumentCleanup and IngestBatches

Both extend `DocumentIngest`. `DocumentCleanup` adds the two passes of
`app/services/cleanup.py`: `Begin...` loads rows, `DoomDocument` and `DoomRuns` look at
one document each (and delete its source file), `Commit...` deletes the rows, and
`CleanupDies` may come between. `CleanupUndisturbed` assumes that nothing writes a
document between the deletion of its source file and the commit, and that the
command is not killed there: without it `DocumentsComplete` fails.

`IngestBatches` gives one of the sessions, `Loader`, to the batch: `place` is where
`queue_local_ingest_directory` is, `items` and `batch` are what it has committed,
and `Resolution` and `DerivedStatus` are the operators readers compute. Requests of
the API and the worker go on beside it. The code picks the status of an item and the
counter of the batch by two chains of conditions, which are two operators here
(`ItemStatus`, `CounterFor`). A failed item has no checksum if the file is gone when the
failure is recorded (`ingest_batches.py:598`); a reader who resolves such an item hashes
the file again, and the model takes a file that is gone to stay away.

### ImpactReplay

An impact row, the replay tasks of a plan (one draft per report, one verification
for some), the requests of operators, and the worker of every task:

    request:  idle -> queueing | deciding -> idle           under FOR UPDATE
    worker:   idle -> running -> executed -> finding        the action, then the finalization
              finding -> locking -> deciding -> idle        FindImpact loads, LockImpact locks
              anywhere -> dead -> idle                      crash, sweep of stale leases

`loaded[s]` is the row as the session loaded it (a worker: *before* it has the
lock), `seen[s]` the statuses it read under the lock, `events` the closure events by
their hash, `abandoned` the tasks that a sweep has failed. Of the tasks it keeps
what `AgentTasks` has in detail: status, attempts, and one worker per task.

## 3. What TLC checks

| run | instance | result |
|---|---|---|
| `run_lifecycle` | 3 runs of 1 document, 2 workers, 1 upload, 3 attempts, safe deployment | all safety properties, the inductive invariant and the refinement hold |
| `run_lifecycle_live` | 2 runs of 2 documents, 2 workers, 3 attempts, safe deployment, fairness | a run in progress keeps a heartbeat to be found by, and completes or fails |
| `run_after_promotion` | 1 run, 1 worker, `QuietAfterPromotion` off | violation: the served corpus is rewritten in place |
| `run_lost_lease` | 1 run, 2 workers, `LeasesTimely` off | violation: the active run is not completed |
| `document_cleanup` | 2 documents with 3 and 2 runs, 2 files, 2 requests, 1 key, limit 2, cleanup | documents complete, no repeated work, answers stand, served runs kept, contract implemented |
| `ingest_recovery_race` | 1 document, 4 runs, 2 requests, `ReadsPrompt` off | violation: two runs of a document in flight |
| `ingest_batches` | 2 documents with 3 runs each, 2 files in the directory, which may disappear, 1 request beside it, limit 1, `ReadsPrompt` off, fairness | counters, derived outcomes, the limit; the batch settles |
| `agent_tasks` | 3 tasks, one on the two others, 2 need approval; 2 workers, 2 operators | approvals, rejections, dependencies, attempts and effects are consistent |
| `agent_tasks_live` | 2 tasks, 2 workers, fairness | what is granted ends |
| `task_lost_approval` | 2 tasks, 1 worker, 1 operator, `DecisionsPrompt` off | violation: an approved task stays in awaiting_approval |
| `task_rejected_runs` | 1 task, 1 worker, 2 operators, `DecisionsPrompt` off | violation: a rejected task is queued again |
| `impact_replay` | 2 drafts, 1 verification, 2 plans, 2 operators, 2 attempts | tasks queued once, closed on evidence, settled by the last finalization, never changed again |

**Bounds.** Two workers are enough for every overlap of a lease holder, its
successor and a sweep: the actions relate one worker to one row, and the
properties relate two. Three runs of one
document are an older one, a newer one and one that is queued for recovery while the
upload that queues it has waited, and they exercise the order of claims; in
`run_lifecycle_live` runs of two documents compete for the workers. `MaxAttempts = 3` is
the default of `app/core/config.py:61`: a first attempt, a retry and an exhausted run,
each by failure and by sweep. Two would hide what overlapping sweeps do (below). `run_after_promotion` and `run_lost_lease` need
only two. `FailableStages` has
one stage per transaction (one before and one after the persist transaction in
`run_lifecycle_live`); the other stages of a transaction differ only in the
recorded name. Attempts are bounded by the code itself, so no counter is cut
off. Symmetry is used for workers, operators, requests and checksums, and in
safety runs only.

Requests, documents and runs are not bounded by the code, so `DocumentIngest` has
a bound in its guards: run ids, of which `RoomFor` leaves enough for the requests
under way. `document_cleanup`, `ingest_recovery_race` and `ingest_batches` therefore
stop when the ids are used up (or the command has returned) and are the runs with
`CHECK_DEADLOCK FALSE`. Three runs of one document are what it takes for a failed,
a recovery and a reprocess run, and for a pass that keeps the active run and the
one before it. Limits of 2 and 1 are reached by both requests together. In
`ImpactReplay`, `Plans` bounds how often tasks could be created; the second one is
there for a request that creates them twice.

**Why `Recoverable` and `EveryRunEnds` need `SweepsPrompt`.** Let a run be on its second
attempt by `w1`, which claimed it while the sweep of `w2` still held the stale row of
the first. The commit of that sweep puts the claimed run back to `retry_wait`, and the
next heartbeat of `w1`, which looks at nothing but the id, dates the row. Now the stage
of `w1` fails and its session loads the row, `retry_wait` with a heartbeat; `w2` claims
the run, its third attempt. `w1` commits its failure: of the columns it assigns,
status and the others equal what it has loaded, and only the heartbeat, NULL now, is
written (`run_post_promotion.py:77,94-97`). If `w2` dies before it renews its lease, the
run stays `processing` without a heartbeat, and the sweep asks for a heartbeat
(`run_leases.py:31`): it is never found again. With two attempts the commit of `w1` would
have failed the run for good, so that the case does not exist. One worker cannot get
there; two can, and the first hazard of `PROJECT.json` says so.

**Fairness** (`FairSpec`). Weak fairness of the worker's own steps says that a
live worker goes on and that every stage returns or raises; a parser that never
returns would keep its lease for ever, because the heartbeat thread renews it,
and is listed as a hazard. Dead workers are restarted. Failures and crashes are
never required, and never excluded: they may happen in every attempt. Strong
fairness of sweep, unblock pass and claim says that not *every* poll of a worker
is cut off by a crash before it acts. Operators need not decide.
`BatchFairness` has strong fairness where a request waits for a row lock or the
unique index, because Postgres grants locks in the order of the requests; weak
fairness of workers and replies. The death of the batch stays possible, and
`BatchSettles` allows for it.

**Findings.** The five violation runs are disagreements between the code and
what README.md, SYSTEM_PLAN.md, a test and the code's own messages say;
`PROJECT.json` quotes the lines.

## 4. What is proved

### The run lifecycle

For every set of runs, documents and workers and every `MaxAttempts`:

* `TypeCorrect`: `Spec => []TypeOK`, in every deployment, safe or not.
* `SafetyCorrect`: in a safe deployment `SafetyInv` is invariant (by the lemma
  `Inductive`, with the type invariant).
* From it: `ActiveRunCorrect`, `LeaseExclusive`, `AttemptsCorrect`,
  `RecoveryPossible`, `OneInflight`, `ServedCorpusCorrect`, `NewerCorrect`.
* `ContractCorrect`: `Spec => Contract!Spec`, the refinement of `RunContract`.
* By the refinement, from the two theorems of `RunContract` about its own behaviours
  (`LastSuccessServed`, `OutcomesFinal`): `NewestSuccessServed`, a document serves the
  newest of its completed runs, and `EndsStand`, what has ended stays so.

None of the properties is inductive: that the active run is completed survives a
promotion only if the worker that promotes still owns the run, which needs that
leases are exclusive, which needs that whoever is inside `process_run` is named
by the row and that the row's status fits its location. `SafetyInv` is the
conjunction of exactly these facts, `LifecycleSound` and `UploadSound`:

* `LeaseHeld`: a worker inside `process_run` is the one in `locked_by`, the run's
  status is one its location allows (`StatusesAt`) and its heartbeat is fresh;
* `RowSound`: attempts are within the limit, a run that is not over and not under
  way has an attempt left, and a run under way has a heartbeat;
* `SweepSound`: one worker sweeps at a time, and what its sweep has loaded is
  still what the rows say, and still stale;
* `ViewCurrent`: what a worker's session has loaded is still current, so its dirty
  columns are the ones it means to write;
* `LatestSound`: runs are submitted in order, no run of a document is newer than
  its latest, and an in-flight run is the latest;
* `ActiveRunIsPublished` itself;
* `UploadSound`: the document that an upload has found is still as it found it. This
  is what `ReadsPrompt` gives (`StepsPrompt`, `UploadsSafe`), and `QueuesSound` takes from
  it that a recovery run, too, is queued only when no other is in flight.

The proof has one lemma per group of actions (`SafeQueue`, `SafeClaim`,
`SafeSweep`, `SafePersist`, `SafePromote`, `SafeFailure`, ...). For the refinement,
`Submit` and `QueueRecovery`, `Promote`, and the two ways to fail (`FinalizeFailure`, a sweep that gives
up several runs in one commit) are steps of the contract, everything else stutters.

The assumptions are the `ASSUME`s of `RunLifecycle` and, where it says so,
`SafeDeployment`.

### Agent tasks

For every set of tasks, workers and requests, all dependencies and every
`MaxAttempts`:

* `TypeCorrect`, `ApprovalCorrect` (`ApprovalInv`) and `GateCorrect`
  (`NoWorkWithoutApproval`), in *every* deployment: late leases, overlapping
  sweeps and overlapping decisions included;
* `DecisionCorrect` (`DecisionInv`), `ApprovalKept` (`ApprovalIsKept`) and
  `RejectionFinal` (`RejectionIsFinal`), assuming `DecisionsPrompt` and nothing
  about leases and sweeps. The two finding runs show that they fail without it;
* `OneWorkerCorrect` (`OneWorkerPerTask`), `AttemptsCorrect`
  (`AttemptsAccountedFor`), `EffectCorrect` (`EffectAppliedOnce`),
  `DependenciesCorrect` (`DependenciesFirst`) and `CheckpointCorrect`
  (`CheckpointHonoured`), assuming `PromptDeployment`: all three deployment
  assumptions.

The gate holds although sessions overwrite each other's columns, for two reasons
the invariant makes precise. `approved_at` only ever goes from unset to set: a
commit updates it only when the session assigned it, and only an approval does.
And every write that moves a task past the gate was judged on a row that was
already past it, or was the approval itself. So for each task that needs
approval either it is approved for good or it is `Untouched`: waiting, never
attempted, held by no worker, loaded by no sweep, and believed approved by no
session. The proof shows for each action what it does to the rows (`RowStep`) and
what it adds to what sessions hold (`NothingTaken`, `GateTaken`). `DecisionInv`
adds that a pending decision or unblock pass still fits the row it loaded;
`VerdictStep` is then what every step does to a verdict.

Attempts and effects need more, because what ends an attempt, a completion, a
failure or a sweep, is written from a loaded row and addresses the attempt by the
number loaded with it. `LeaseInv` says that the writer is alone with the task and
its row is current: whoever works on a task is the one in `locked_by`, with a fresh
lease (`LeaseSound`), and a sweep holds rows that are as stored and stale
(`SweepSound`). Then the row, its attempt rows and the count of its effect fit
together (`AttemptsSound`, `EffectSound`): a waiting task has no attempt, one that
waits for a retry has one left, an effect without checkpoint or completion was
never applied. `StepKeeps` is what every action is an instance of: it leaves each
task alone, or it is free to write it (`FreeOf`) and leaves it accounted for
(`TaskWritten`).

### Impact replay

For all reports, verifications, requests, plans and attempt limits:
`TypeCorrect`, `QueuedOnceCorrect`, `ClosedOnEvidenceCorrect`,
`LastFinalizationCorrect` and `ClosureStandsCorrect`, that is, every property of
`impact_replay`, in every step of every session.

The question is why a worker may decide on a row it loaded before it had the
lock. `ReplayInv` has the answer. A row is either open, without any trace of a
closure, or final (`RowSound`). A task that has a worker is not completed, so its
row cannot be final, and what the worker loaded was an open row with the same
tasks (`LoadedSound`); of the columns of an open row only the status differs
between two loads, so the columns it flushes are right. A stale status could still
hide that the row is blocked, but blocked is permanent: a failed task stays failed
(`BlockedSound`). What the holder of the lock has seen of another task stays true
once it is final (`Agrees`), because a finalization takes the same lock; only a
sweep does not, hence `abandoned`. `RefreshRows` is the lemma that puts this
together, `TaskStep`, `SessionStep` and `CommitStep` are what every action is an
instance of.

### Documents

For all documents, runs, files, requests and keys and every limit, of requests,
worker and cleanup command together:

* `RequestTypeCorrect` (`TypeOK`, without the cleanup) and `TypeCorrect`
  (`CleanupTypeOK`), in *every* deployment. Their invariant, `RequestInv`, counts: a
  run id is left for each request that may still queue a run, which is what makes
  the bound on run ids harmless;
* `CapacityCorrect` and `CleanupCapacityCorrect` (`WithinCapacity`), in *every*
  deployment too. The limit is read in one transaction and the run queued in
  another, so it can be exceeded; the sum of the runs that count and of the
  requests that were admitted for one shows by how much. A step moves a request
  from the second set to the first (`CapacityMoves`), takes something away
  (`CapacityShrinks`), or admits one while fewer runs than the limit are in flight
  (`CapacityEntered`);
* `StoreCorrect` (`StoreInv`), assuming `ReadsPrompt` and `CleanupUndisturbed`;
* `IngestCorrect` (`IngestInv`), assuming `KeysSequential` too (`CarefulDeployment`);
* from these, in a careful deployment: `OneRunInFlightCorrect`,
  `DocumentsCompleteCorrect`, `ServedRunsKeptCorrect`, `RepeatedCorrect`,
  `AnswersStandCorrect` and `ContractCorrect`, the refinement of `RunContract`. With
  the theorem of the same name about `RunLifecycle` the contract has been proved
  from both sides, the one that queues runs and the one that processes them, and
  `NewestSuccessServed` and `EndsStand` follow here as they do there.

What a request relies on changes as it goes on, and `StoreInv` says it for each
place. Once a document is loaded to be resolved it is left as it was loaded, or
deleted (`ResolvingSound`: this is `ReadsPrompt`). A document that is inserted is
seen by nobody and nobody else has its checksum (`InsertingSound`: the unique
index). A locked document is as it was read, and its next run id is still free
(`LockSound`). The rows themselves: runs are created in order, the one in flight is
the latest, the active one the last successful one (`DocumentSound`), and a run has
its document (`NoOrphans`). The cleanup command decides on a view from the start of
a pass: documents it will delete are still without success and not locked
(`ExpiredSound`); where the active run was overtaken since, the pass has kept the
old one, and of the runs before an unchanged active one it leaves one
(`ViewSound`). The answers need one thing more: the run of a reprocess request and
the answer to it are committed together (`OriginSound`), and nobody else is under
way with the same key and request (`KeySound`).

The Effect lemmas (`InsertEffect`, `LockEffect`, `CommitEffect`, ...) say what each
step does. After them a step is one of few kinds: it queues nothing (`QuietAll`), it
queues a run that is `Admissible` (`QueueingDocuments`), it ends a run
(`EndDocumentInv`) or it deletes (`ExpiredDocumentInv`, `SupersededDocumentInv`).
`StoreInv` is preserved because each of these spares what the others hold
(`OthersHold`, `SparedRequests`, `ExpiredKept`, `SupersededKept`).

### Ingest batches

For every directory, and all documents, runs, requests, keys and limits, in
*every* deployment (`ReadsPrompt` is not assumed, so recovery runs may race):
`BatchTypeCorrect` (`BatchTypeOK`), `CountsCorrect` (`CountsMatchItems`),
`ServedCorrect` (`ServedNeverFailed`) and `NeverEarlyCorrect` (`NeverDoneEarly`).
`BatchRefinesIngest` is `BatchSpec => Spec`: a batch is one more client of
`DocumentIngest`, and `BatchCapacityCorrect` follows from it. In a careful deployment
so do `BatchContractCorrect`, `BatchDocumentsComplete`, `BatchOneRunInFlight` and
`BatchAnswersStand`, from the theorems about `DocumentCleanup`; that the cleanup
command is not run is the premise `[]Uncleaned` about its variables, which
`BatchSpec` does not mention.

`CountsCorrect` rests on the two chains that pick an item's status and the batch's
counter: `ChainsAgree` says that they pick a pair that belongs together for every
answer of the single-file path, and `CountersDiffer` that no two statuses share a
counter. `ServedCorrect` has the one exception that the code has: a file whose failure
was recorded when it was gone is without checksum and stays failed for its readers,
although its run may have been queued, and may have succeeded, before.

The outcome of a file is recorded once, and what readers are told is computed much
later from the item, its run and the document as they are then. That this is never
wrong needs that nothing the item relies on goes away. `BatchInv` is the conjunction
of

* `RequestInv`, from `RequestInvariant`;
* `IngestSound`: what a row of a document names is a run of that document, the
  active one successful (`RowSound`); no two documents have the same content; and
  what a session has loaded is good enough to be written back: a document that is
  being inserted is nobody else's (`InsertingSound`), one that was loaded has the
  same content still (`LoadedSound`), and where a run will be created under a lock
  it is as it was read (`HeldSound`). This is the part of `StoreInv` that survives
  without `ReadsPrompt`: two recovery runs may be queued, but each belongs to the
  document, and a success is never lost;
* `LoaderSound`: the session of the batch works on the next file, and an answer it
  has been given names a run of the document with that file's content, or, for a
  duplicate, that document has a successful run (`Answered`);
* `BatchSound`: every recorded item was `Answered`, the items are those of the
  files in their order, with their checksums unless failed and gone
  (`ItemsInOrder`), the counters are those of the items, and a batch that has
  finished has been through the last file (`FinishedSound`).

The last two give what the runs do not check: `FilesAccounted`, a finished batch has
an item for every file and counts a failure exactly when one failed, and
`CompletedCorrect`, a finished batch that readers are told is completed has a
successful run for the content of every file of the directory. Only a *finished*
one: the derived status looks at the items alone, so that of a batch which is under
way, or died, speaks of the files it got to.

`Grows` is what every step of requests and worker does to the database: documents
and their content stay, so do runs, and what has succeeded. `Answered` is kept by any
such step (`AnsweredKept`), which leaves the batch's own steps, one lemma each:
`ResolveAnswers`, `RecoveryAnswers` and `CommitAnswers` for the answers,
`RecordSuccessBatch`, `RecordFailureBatch` and `LeavesFile` for the items.
`BatchRowAssumption` (`None` is neither a row of `ingest_batches` nor a checksum) is the
one assumption that `IngestBatches` adds for them: `batch = None` and a checksum of
`None` stand for what is not there.

### Only model-checked

Liveness (`EveryRunEnds`, `GrantedTaskEnds`, `BatchSettles`), which needs fairness and
ENABLED, out of the prover's reach. Every other property of a run has a theorem.

## 5. What is not modelled

In the run worker: failure artifacts on disk, error messages, the optional
semantics stage after promotion. In ingest: staged files and the checks of a PDF
that refuse it before anything is written; the scan of a batch directory;
artifacts of runs that cleanup deletes. In agent tasks: outcome labels and
artifacts. In impact replay: how an activation computes which reports are in
doubt, and the contents of closure receipts and events beyond their identity.
Two equal requests under one key at the same time do replace the stored answer
or do the work twice; `KeysSequential` excludes them and the hazard list says so.

Most of the repository's lines are transformations of one payload (parsing,
ranking, scoring, report and evidence construction, schema migrations, routing),
without shared state or steps of several actors; a state machine of them would
repeat the code. They are listed as components with that reason.

## 6. What could come next

1. The hash chain of semantic governance events, which takes its predecessor
   without a lock, and the activation of snapshots.
2. The release gate of search harnesses and the retrieval learning artifacts.
3. The evaluation that a crash after promotion leaves out, against the audit.
