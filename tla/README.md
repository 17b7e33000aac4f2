# TLA+ specifications of the 3dENA compute service

The repository is a browser workbench for epistemic network analysis with an optional
compute service. Most of its lines are numerics, parsers, user interface and release
tooling; its protocols, where order, failure and concurrency decide, are in the packages
`compute-service-core`, `compute-service-persistent`, `compute-service-node`,
`compute-service-http` and `dataset-workflow` and in the remote page of the web client, and
these specifications cover their main ones. Paths below are relative to the repository root; `core`, `persistent`, `node`,
`http` and `dataset-workflow` stand for the `src` directory of the package.

## 1. Inventory

| Component | State | Operations | Correct when |
| --- | --- | --- | --- |
| **Compute core** `core/service.ts`, `state-machine.ts`, `in-memory.ts` | job records behind a compare-and-set repository, the capacity table of the process, a promise continuation per launch and per child, result objects | create, claim, heartbeat, execute, publish, cancel, delete, sweep; launch deadline, late launch, start failure, child binding, observed termination, `#completeDeletion` | one process per task, never more than `maxConcurrency`; requeue, settlement and deletion only after the process was seen to end; an answer is never withdrawn nor published by a stale lease; stops and deletions are not lost |
| **Request objects** `createTask`, `#deleteUnregisteredRequestObject` | row and request objects of an identifier | lookup, put, insert, clean-up, deletion | the registered object survives losing creates; nothing else is left |
| **Lease coordinator** `persistent/postgres.ts` | `compute_jobs` with claim columns, `compute_capacity_slots` with fences and quarantine | claimNext, heartbeat, reconcileObservedTermination, reconcileQuarantinedClaim, recoverExpiredClaims, configureCapacity, fenced compareAndSet | slots and claims agree; a process whose end nobody saw keeps its slot; an isolated claim cannot write; every expired claim is recovered |
| **Worker, temporal sweeper** `persistent/worker.ts`, `temporal-sweeper.ts` | the claim a worker watches | tick, watch, release; periodic sweep | workers come back to claiming; deadlines, expiry and deletion happen without the API |
| **Object ledger** `persistent/vercel-blob.ts` | a row per key with generation and fence (`intent/available/deleting/deleted`), provider objects, orphan intents | putImmutable, delete, retention sweep, orphan reconciliation | no available object missing, no deleted object left behind or readable again |
| **Dataset sessions** `persistent/dataset-service.ts`, `dataset-storage.ts`, over `dataset-workflow/workflow.ts` | session row with control state and revision, active record, artifact rows, stored bytes, activation receipts | upload, select, map, preview, activate, delete; binding, execution and input deletion of a job | a job runs on what its receipt names; every byte goes away |
| **Process supervisor** `node/node-process-supervisor.ts` | a record per child, timers, message chain | spawn, handshake, abort, terminate, exit, close | a launch settles once; a rejection proves that no child runs; every child that is asked ends |
| **Scientific session** `node/scientific` | the child's program, adapter bindings, publication receipts | store artifact, publish, acknowledge | exit 0 means that the result was published, once |
| **HTTP router** `http/router.ts` | HTTP job rows with deletion facts | create, execute, result, events, delete, reconciliation | durable deletions finish and their receipts are true |
| Event broker `persistent/postgres.ts` | cursors, stored events | publish, subscribe, purge | a subscriber sees every event once, in order |
| Result generations, rate limiter, runtime | rows, environment | record/resolve, consume, start | append-only history |
| **Web client, remote page** `apps/web/components/remote-analysis-workspace.tsx` | generation counter, lock, stage, binding attempt, active job, queue of jobs to delete, retained source | run (prepared, ENA, derived), cancel, delete retained job, activate, end session; replacement of the workflow, leaving the page | no remote job is forgotten; a late answer never touches a newer run; the page never locks for good |
| Web client, local page `apps/web/lib/run-ownership.ts` | one token per run | begin, owns, release | a reply of another run is dropped |
| Numerics, parsers, exporters, UI, scripts, vendored code | – | – | not protocols; not modelled |

The parts in bold are modelled; `PROJECT.json` says for each what is left out.

Interaction: the router and the worker call the same core; the core sees the world through
four asynchronous interfaces (repository, object store, supervisor, clock). In production
the repository is PostgreSQL, several worker processes share it, each with a core of its
own (and so with its own capacity table), and the sweeper runs beside the API. The
core's supervisor is `NodeComputeProcessSupervisor`, whose scientific children publish
back through the core; its object store is the Blob ledger. The router binds an HTTP job
to a core task when the client executes it, from uploaded inputs or from an activated
dataset, and deletes task, objects and row again, by itself or through the sweeper. The browser's remote
page is a client of these routes; it holds the capability of each job until it has seen the
receipt of its deletion.

What is hard: every core operation is a chain of awaits between which any other may run;
replies arrive later than their effect; launches end after their deadline; adapter calls
fail half-way; workers die and leave processes behind; leases, deadlines and times to live
expire at the same instants. `PROJECT.json` lists these hazards at their lines.

## 2. Modules

| Module | Models |
| --- | --- |
| `JobStates` | `ComputeJobState`, the transition table and state classes of `state-machine.ts` |
| `ComputeServiceCore` | `ComputeServiceCore`, its capacity table and its adapters in one process |
| `CoreProperties` | what the core promises; fairness; refinement mapping |
| `ComputeJobs` | abstract job service: phases, one process per job, a limit, answers |
| `RequestObjects` | the creates and the deletion of one identifier, call by call |
| `LeaseCoordination` | several workers, the database, the sweeper, the operator, crashes |
| `LeaseProperties` | what leases, fences and quarantine are for; fairness; refinement mapping |
| `SupervisedProcess` | abstract contract of one `spawn`: it settles once, a rejection proves that nothing runs, a report is true |
| `ProcessSupervisor` | one child of `NodeComputeProcessSupervisor`: launch, timers, events, messages |
| `ScientificSession` | composes it with the child's program, the session adapter and the publisher |
| `SessionProperties` | what supervisor and session promise; fairness; refinement mapping |
| `ObjectLedger` | one key of the Blob object store, call by call, with its properties |
| `DatasetSessions` | one dataset session and one job bound to it, query by query, with its properties |
| `HttpJobs` | the router's record of one job, composed with `LeaseCoordination` |
| `HttpProperties` | what a durable deletion promises |
| `RemoteWorkspace` | the remote page: its handlers between their awaits, with its properties |
| `CoreProcess_proofs`, `CoreResults_proofs` | theorems about `ComputeServiceCore`: types, processes, records; results, slots, stops and the refinement of `ComputeJobs` |
| `ObjectLedger_proofs`, `RequestObjects_proofs`, `RemoteWorkspace_proofs` | theorems about these modules |
| `Lease_proofs` | theorems about `LeaseCoordination`, its refinement of `ComputeJobs`, and `HttpJobs` on top of it |
| `Dataset_proofs` | theorems about `DatasetSessions` |
| `Session_proofs` | theorems about `ScientificSession`, the refinement of `SupervisedProcess` among them |
| `MCCore`, `MCLease`, `MCRequestObjects`, `MCRemoteWorkspace` | instances for TLC; the other modules are checked directly |

Both `ComputeServiceCore` and `LeaseCoordination` are shown to implement `ComputeJobs`
with the same mapping idea: the job's state gives its phase, a launching or live child is
"working", a stored result of a succeeded or expired job is "answered". `Settle` of
`ComputeJobs` settles a set of waiting jobs, since one call of `recoverExpiredClaims` past the
deadline settles every due job that no worker had begun.

Definitions named `X_Something` with a comment "Mutant" are plausible bugs of `X`; no
specification uses them. Each property is violated when the mutant that `PROJECT.json`
pairs with it takes the place of `X`.

### ComputeServiceCore

*State.* `rec` is the repository (one record per task; a lease is its expiry time, an
absent field is 0 or "none"), `slots` the capacity table keyed by task reference, `att`,
`watch`, `erase` and `calls` the continuations that a suspended async function stands for,
`child` what the supervisor knows, `objects` the result objects.

*Steps.* An operation that neither awaits anything observable between reading and writing
a record nor does anything after it is one action. `execute`, `heartbeat`, `publish`,
launches, terminations and deletions are split at the awaits where others may come in
between. The record revision appears as the set `stale`: each write of a record adds the
readers that still hold the older one, and a compare-and-set succeeds for exactly those
that are not in it. A lease epoch identifies lease, attempt, child and result object,
since every claim takes a new one and each lease is executed at most once. The sweep with
which claim and execute begin is an occurrence of `Sweep`. The CAS retry limit (16) is not
modelled.

*Failures.* `AttemptRejected`, `StartReplyLost`, `WatchRejected` and `EraseRejected` are
rejected adapter calls at the places where the code's reaction differs: before or after
the write took effect, in a tracked background handler, inside a deletion. `LatePut` is a
put of the child's result that was in flight when the child ended: the session adapter
awaits the store without looking at the session (`node/scientific/session-adapter.ts`:308-323),
`#observeClose` neither awaits nor cancels it and the store has no guard, so it lands after
termination, clean-up or tombstone. `MaxFaults` bounds rejected calls and late puts together.

*`DelayedReplies`.* After `#handleObservedTermination` has committed, its continuation
frees the slot. With the in-memory repository that continuation runs before any other
call can both claim and execute; with a remote repository the reply may be late. FALSE
is the first case (`Prompt`), TRUE the second. `DeferDeletion` is the option
`deferProcessOwnedDeletionCompletion`, which the persistent runtime sets.

### LeaseCoordination

Every coordinator call is one serializable transaction, hence one action. A core operation
of a worker or of the API is one compare-and-set, guarded by `Fenced`, the `WHERE` clause
that PostgreSQL adds; only `publishResult` keeps its read and its write apart, because the
fence exists for exactly that gap. The record revision is represented by what can change
in a running record without a result, its lease. `RecoverExpiredClaims` treats all due
claims at once and is disabled when one of them is in conflict, as the throw rolls the
transaction back. Which queued job is claimed is left open (the code takes the oldest).
`ExecuteRefused` is always possible, as any adapter call of `executeTask` may be rejected.
A `Crash` leaves the worker's child without an owner: it may live on and exit, nobody
publishes for it or finalizes it, and only `ReconcileQuarantined` – the operator who has
seen it end – frees its slot. A worker's tick begins with a readiness check
(`ChecksReady`), which fails while the number of enabled slots is not the capacity the
workers were configured with (`Ready`; `runtime-support.ts`:170-180): after a quarantine, or
when the operator sets another limit, no worker recovers or claims anything until the operator
reconciles or sets it back. The sweeper is not gated. What follows the check uses its answer
later, so a recovery may run when readiness is gone. A heartbeat is not guarded by the
watch loop's check: it may occur more often than in the code. That the operator reports truthfully is an assumption, and
the mutant of `SlotsMatchClaims` shows that it is needed. The observation's time and
kind are free.

Not in this module: batch limits, the sweeper's own lease and HTTP work items (the latter
are in `HttpJobs`), receipts, the other parts of the readiness check (build approval,
migration, Blob store), `release`, which the PostgreSQL worker does not call.

### ProcessSupervisor, ScientificSession

*State.* `rec` holds the flags of an `ActiveChildRecord`, `launch` the promise of `spawn`,
`process` and `exit` the operating system's view, `toChild`/`toParent` the two directions
of the IPC channel, `chain` the bounded `sessionMessageChain`, `step` how far the adapter
is with the head of it. `pc` is the child's program.

*Steps.* One action per timer, event handler and message handler; what the adapter awaits
(the object's store, the core's publication, the source index) ends an action. `exit`
and `close` are separate events. The child may send messages out of turn (`MaxStray`),
ignore SIGTERM, or exit at any time; a store or a publication may be rejected; the payload
may come late or never. A failing `kill` is a child that does not react.

*Contract.* `SupervisedProcess` is what `ComputeServiceCore` assumes of its supervisor in
its actions of launch and termination; `SessionProperties!ImplementsSupervisedProcess`
discharges it.

### ObjectLedger

`row` is the ledger's row of one key, `blob` what the provider holds under each
generation's own pathname, `orphan` the orphan intents, `call` how far each process is.
Each ledger transaction and each provider call is an action. A caller may stop after any
of them for ever, which stands for its crash, for a provider error and for a lost answer.
The retention time is not counted: a row is due whenever a sweeper looks.

### DatasetSessions

`row`, `control` and `artifacts` are the rows of one session, `source` and `parsed` the
stored bytes, `job` an analysis job bound to a receipt. A call is the list `todo` of the
steps it still has to make, so that the workflow that each call builds anew and replays
(`#rehydrate`) is a list that is longer the further the session is; the revision it has
loaded is the flag `fresh`, cleared by every write of the row. `Steady` calls do not die
half-way, among them the sweeper's; the others may. The object store is used through its
contract: one put or delete is one step (its inside is `ObjectLedger`). An expired row is
emptied, since nothing reads it again.

### HttpJobs

It extends `LeaseCoordination`, so workers, crashes, quarantine, sweeper and operator go on
beneath it. `http` holds the facts of the job's row, `request` what a client's DELETE and
the sweeper's reconciliation remember between their awaits (of a core record only what they
make of it), `call` how far each upload (`PUT content`) and each execute is. `objects` are the
objects the router itself owns. A call checks the record as it was authorized and puts later:
an upload may put back the input, and a second execute of the same request the execution
object, after a first one has bound the task and a DELETE has erased both. A deletion erases,
verifies and records in three steps; an object that came back before the verification makes
it end with status 500, one that comes back later does not. Executes in flight are retries of
one request, with one key and one fingerprint. A handler may stop between any two of its
steps. `late` is a history variable for `DeletionReceiptIsTrue`.

### RemoteWorkspace

`ws` is the component: its refs (`lock`, `stage`, `attempt`, `active`, `deferred`,
`source`) and the state that locks controls (`status`, where everything that locks nothing
is "rest", and `pending`). `run[r]` is one call of `runPreparedAnalysis`/`runAnalysis`
(kind "source") or `runDerivedAnalysis`: `pc` is the await it is suspended at, `fresh` says
whether the generation counter still has the value it began with. Calls of
`cancelAnalysis` and the cancellations of effect cleanups are counted per job. Each answer
to a deletion may be a receipt, once the service has deleted, or a failure at any time; a
binding returns a capability or fails. The three runs of the page's handlers share their
error paths, so they are one set of actions. `Swap` is the cleanup and re-run of the
effects when the `workflow` prop changes, `Unmount` the cleanup when the page is left.
React state counts as assigned when the setter is called: a click that a stale rendering
still lets through is not modelled. A capability lost with its response is the service's
to expire.

## 3. Runs

| Run | Question | Result |
| --- | --- | --- |
| `core_safety` | one task, two leases, one concurrent heartbeat/publish, one rejected adapter call or late put, delayed replies, deferred deletion: safety of records, results and deletion, and `ImplementsComputeJobs` | holds, 1.3 M states |
| `core_capacity` | two tasks, one slot, late and failing launches: limit kept, every process holds its slot | holds, 2.0 M |
| `core_liveness` | stops reach their child, slots are given back, jobs settle | holds, 0.2 M |
| `request_objects` | three creates of two requests, deletion, dying callers | holds, 644 |
| `lease_safety` | two workers, one task claimed twice, crash, quarantine, operator; `ImplementsComputeJobs` | holds, 0.6 M |
| `lease_liveness` | two slots, a crash, an operator who changes the limit: if the workers end up ready, slots are recovered or refused and processes given up or isolated; deletions complete | holds, 0.2 M |
| `session` | one scientific child against payload, abort, deadline, stray messages, a full queue and an ignored SIGTERM: the supervisor's contract, and success means published | holds, 48 k |
| `object_ledger` | two callers and a retention loop over two generations: available means stored, deleted stays deleted, everything vanishes | holds, 0.2 M |
| `dataset_sessions` | remapping, overlapping activation, corrupt upload, dying DELETE, expiry: the job uses its receipt's dataset, its input is given up, bytes vanish for good | holds, 0.5 M |
| `http_jobs` | uploads, executes, DELETE and reconciliation interleaved with a worker that may crash: is a deletion receipt true? | holds, 3.6 M |
| `remote_workspace` | three runs, cancellations, failing deletions, two replaced workflows, the page is left: is every job within reach or being deleted, and is an idle page usable? | holds, 0.6 M |
| `lease_wedged` | is every held slot recovered in the end? | **no**, see below |

Deadlock is not checked: when the bounded clock, epochs, generations or receipts are used
up, everything may have ended.

*Bounds of core and leases.* Time: lease 1, deadline 2 (1 in `core_capacity` and `http_jobs`), time to live
one later (in `lease_liveness` and `http_jobs` with the deadline), so leases run out before, at and after a stop, and a
job can be requeued by its first lease, run under its second and then time out or expire;
beyond the time to live no comparison changes. `core_safety` stops the clock at 2, before
the time to live of 3; `core_liveness` and `core_capacity` reach theirs. Two epochs are
needed for a stale attempt to meet a current one, and the properties relate at most two
attempts of a task. Two tasks and one slot are the least with competition. One concurrent
call is enough because publish and heartbeat calls only meet through the record, where
every other write plays the second. One failure, late put or crash reaches each point of
failure once; `core_liveness` has neither failures nor late puts. The configured capacity
(`GlobalCapacity`) is the number of slots, so one quarantine or one change of the limit makes
the workers unready. Runs over two tasks use one epoch and symmetry; the liveness runs use no symmetry.

*Bounds of the others.* `session`: a queue of two (the code's limit is larger, but only
"full" and "not full" are told apart, and two lets a message wait behind one that is being
handled), two messages out of turn, so that each protocol message can be repeated or
replaced. `object_ledger`: two generations, so that an old one can meet a new one, and two
uploads per pathname, so that one provider object can replace another under a verifier's
eyes. `dataset_sessions`: two mappings of one sheet and one receipt (a remapping after it
is then final, the hard case), two contents of an upload, two calls of which the steady one
offers only `activate`: saves conflict through `fresh`, for which every other call is alike.
`Retain` is limited to ended sessions: the retention time of 23 hours is longer than a session's. `http_jobs`:
one slot, one worker, one epoch, one unit of time; any two of the client's DELETE, the sweeper's
reconciliation and two uploads or executes are at work together (`MaxInFlight`), which admits
an execute that is overtaken first by another one and then by a DELETE. The theorem about it
has no such bound. `remote_workspace`: three runs and two replacements, so that a run can own the page
while two older ones still have capabilities to give back and wait in the queue behind it;
two cancellations of a job at once, so that one is late for the other; symmetry over runs.

*Fairness.* Core: continuations run (event loop); `sweep()` is called on a schedule
(`packages/compute-service-core/README.md`:71 demands it); the supervisor settles each
spawn, and a child that was asked to stop exits, which the run `session` shows of the
supervisor. Workers: the loops of `run` and of the sweeper go on, a dead worker is
restarted; a tick passes its readiness check only while the slots are as configured, and
nobody has to make them so. `SlotIsRecoveredOrRefused`, `ProcessIsGivenUpOrIsolated` and
`SlotIsRecovered` therefore promise something only if the workers end up ready (`StaysReady`). Session: events and timers are delivered and SIGKILL ends a process; neither
payload, child, adapter store nor publication has to make progress. Ledger: the retention
loops go on with what they began (weak) and come back to each due row and orphan (strong,
as other calls may hold it in between); callers may stop. Dataset sessions: time passes,
the retention loop comes back to every object, steady calls go on, and the input deletion
of an ended job is taken up again once the session has expired, since the temporal sweeper
selects HTTP jobs past their own time to live, or with a requested deletion, until that is
complete (`persistent/postgres.ts`:292-319; of jobs that merely ended it selects only
longitudinal ones); no client has to act. Nobody is assumed to call the
API, to publish, to heartbeat, to exit unasked, or to reconcile a quarantine. No failing
adapter calls occur in the core's liveness run, since `#track` only records a rejected
handler and nothing repairs it.

### Finding

**`lease_wedged`**. When a job loses its lease while its claim stands – it is deleted
or its lease runs out before the worker executes it, or its worker dies before it
gives the slot back – `recoverExpiredClaims` throws at that claim in every tick of
every worker, and no worker claims anything again.

### Observations without a run

What the models showed along the way, each reachable in the module named:

* A result whose put was in flight when its child ended appears after the job's clean-up, or
  after the tombstone of its deletion (`node/scientific/session-adapter.ts`:316;
  `ComputeServiceCore!LatePut`). A deletion that begins later still finds it, since the record
  lists every key of its attempts; one that has ended does not look again, and only the object
  ledger knows of the object. `ResultsMatchRecords` allows exactly such objects.
* A deletion receipt may say `objects: deleted` while an object is stored: a PUT or POST that
  passed its checks before another execute bound the task puts it after the verification
  (`http/router.ts`:2287, 2341, 2115, 2908-2918; `HttpJobs`). Nobody erases it again: the
  deletion is recorded as complete. `DeletionReceiptIsTrue` allows such objects and no other.
* While a quarantined slot waits for the operator, and while the capacity differs from the
  configured one, no worker is ready: claims that expire meanwhile are not recovered, and
  nothing is claimed (`persistent/worker.ts`:128, `runtime-support.ts`:170; `LeaseCoordination`).
* `ComputeServiceCore` with `DelayedReplies = TRUE` violates `LiveChildHoldsSlot`
  (`core/service.ts`:1388): the next attempt takes the slot its task still holds, and the
  late handler of the former attempt frees it. The worker executes one claim at a time and
  does not reach this; an embedding with several callers and a remote repository does.
* The loop with which `execute` binds its core task does not look at the deletion the row
  may carry by then (`http/router.ts`:2367, 2616; `HttpJobs`). An execute that passed its
  checks before a DELETE binds a task to the completed deletion: the record names a queued
  task, which a worker runs, and its execution object stays. `contracts.ts`:63-67 says
  otherwise. `DeletionReceiptIsTrue` therefore speaks of deletions that knew their task.
* After a replacement of the workflow, a user's cancellation of a job that the
  replacement's own cancellation releases first returns without an effect
  (`remote-analysis-workspace.tsx`:994), and nothing else resets the status: it stays
  "cancelling", every control is disabled, and only reloading the page helps.
  `IdlePageIsUsable` excludes that status after a replacement and nothing else.
* A publication whose lease ran out between the clock's read and the write succeeds when
  no sweep came in between (`core/service.ts`:702).
* A create that looked its row up before it existed can put the request object again after
  its deletion verified it absent (`core/service.ts`:325; `RequestObjects`).
* A deletion of a leased task whose worker dies before it starts a process waits for a
  termination receipt nobody writes: DELETE answers 500 and the sweeper gives up again in
  each round (`http/router.ts`:2839, 1024; `HttpJobs`).
* When the dataset was mapped anew after a job bound its receipt, `deleteActivated` throws
  until the session expires (`persistent/dataset-service.ts`:323). After the expiry the row
  is not found, so the job records its input as deleted while `source.bin` may still be
  stored; the ledger's retention removes it, which is why `DataVanishes` speaks of "in the
  end" and not of the receipt. Nothing purges expired session rows.
* An activation that loses its compare-and-set has already replaced the active record
  under the stored receipt (`persistent/dataset-storage.ts`:316): executions of that receipt
  are refused from then on (`ExecutionUsesItsReceipt` holds because the payload is compared).
* `uploadContent` stores its bytes before their digest is checked
  (`persistent/dataset-service.ts`:131-140): a corrupt upload of the right length occupies
  the immutable key, and the correct one is refused until the session is deleted.
* A put that races a deletion of the session leaves an object after DELETE has answered
  `sourceDeleted: true`, until retention (`persistent/dataset-storage.ts`:264).

## 4. Proofs

Checked by TLAPS, for all sets of tasks and calls, capacities, durations, requests,
bounds and both values of `DelayedReplies` and `DeferDeletion`, from `CoreAssumption`
(naturals, positive limits, deadline not after time to live, calls are not named
"execute"):

* `CoreProcess_proofs!TypeCorrect`: `Spec => []TypeOK`. Lemmas type the record operators;
  one step per action.
* `CoreProcess_proofs!LiveChildCurrent`: `Spec => []LiveChildIsCurrentAttempt`: a process
  that is starting or alive is the attempt its record names, and its job is starting,
  running or cancelling. Hence no task ever has two processes, and none is requeued,
  settled or deleted under a running one – in contrast to the capacity table, whose
  guarantee fails with delayed replies (section 3, observations).
* `CoreProcess_proofs!RecordsConsistent`, `HistoriesOrdered`: `Spec => []RecordConsistent`
  and `Spec => HistoryIsOrdered`.

`LiveChildIsCurrentAttempt` is not inductive: the write that starts an attempt must not
overwrite an older one whose child lives, the late rejection of a launch may release the
record only if there is no child, and a deletion may finish only without one.
`ProcessInv` therefore adds that a reservation belongs to the record's latest lease and is
not overtaken, that there is one per task, that a failed start has no child, and that
objects are verified only for a job in deletion. TLC checked it on instances of the core
runs before it was proved.

`RecordInv` adds what a delayed write relies on. `GoodRecord` says of one record how its
fields, times and state go together; a reservation that is not overtaken is of the record's
epoch; a heartbeat or publication that is not overtaken finds the record in the state it
read. So a late write neither extends a lease that has ended nor leaves the transition
table, and `assertJobStateTransition` never throws in the middle of an operation. One lemma
per kind of write (`...Writes`) says that a good record becomes a good one.

* `CoreResults_proofs!ResultsMatch`: `Spec => []ResultsMatchRecords`, for both values of
  `DelayedReplies` and with `LatePut`: a record names no missing object, and the only object a
  cleaned-up or deleted job may have is one that a late put brought back.
* `CoreResults_proofs!LiveChildrenHoldSlots`, `CapacityIsRespected`, `NoStopIsLost`:
  `Spec => []LiveChildHoldsSlot`, `Spec => []CapacityRespected` and
  `Spec => []StopReachesChild`, assuming `~DelayedReplies`.
* `CoreResults_proofs!ServiceImplementsJobs`: `Spec => ImplementsComputeJobs`, assuming
  `Uncrowded`: replies are not delayed, or there are no more tasks than slots.
* `CoreResults_proofs!AnswersStay`: an answer that could be fetched stays until the deletion of
  its job begins, without that assumption: only the beginning of a process depends on the
  limit (`NextShowsOrStarts`).

The assumption `~DelayedReplies` is not a convenience of the proof: with delayed replies
`LiveChildHoldsSlot` is false (section 3, observations), so slots can be given away under a
process, and with more tasks than slots the limit of `ComputeJobs` is then exceeded.

The argument for results: between the read of a publication and its write, and between the
commit of a termination and the clean-up after it, anything may happen. `ResultInv` says, of
each handler that is suspended, that the object it will drop is not the one the record names
(`WatchAt`); of each object, that an attempt of the record owns it (`StoreAt`); and of each
publication that is not overtaken, that its object is in the store and of the record's attempt
(`Publishing`). `StageInv` orders launch, binding and observation of one attempt. For the
slots, `SlotInv` says that a reservation or a live child holds the slot its attempt reserved,
and that a handler that has committed a termination finds its task without child and
reservation, which is where a late reply would break it. The limit follows because the tasks
of live processes are among those that hold a slot (`Bounded`). `StopInv` says which
continuation still owes the child its stop: an unbound child has a binding step ahead of
it, and a bound one whose stop is recorded was asked. The refinement has one lemma per action:
each step changes at most one task's phase, process or answer, in one of the ways
`ComputeJobs` allows.

About the ledger, for all sets of callers and sweepers and all bounds, from
`LedgerAssumption` (positive bounds; a process is a caller or a sweeper):

* `ObjectLedger_proofs!AvailableObjectsAreStored`: `Spec => []AvailableIsStored`.
* `ObjectLedger_proofs!DeletedGenerationsStayDeleted`: `Spec => DeletionIsFinal`.
* `ObjectLedger_proofs!LedgerTypes`: `Spec => []TypeOK`. The argument for the other two needs no
  bounds; `CountInv` adds that an upload seen by anybody was counted, and that an orphan's
  lease names the upload it was given for.

`AvailableIsStored` is not inductive, as a deletion at the provider is decided on one view
of the row and done under another. `LedgerInv` rests on the notion of a *doomed*
generation, one that is overtaken or whose deletion was begun: dooming is never undone
(`DoomedStays`), every process about to delete a pathname works on a doomed one
(`RemoverInv`), every put either works on a doomed one too or holds the row's current fence
and, when it is about to mark it available, has its bytes stored (`WriterInv`), and orphan
intents exist for doomed ones only.

About one request's creates, for all sets of callers and requests:

* `RequestObjects_proofs!RequestTypes`: `Spec => []TypeOK`.
* `RequestObjects_proofs!RegisteredStays`, `OnlyRegisteredLeft`: `Spec => []RegisteredRequestPresent`
  and `Spec => []OnlyAuthoritativeRequestKept`. `RequestInv` adds that the row is written once,
  that whoever is about to remove a candidate removes one that can never be registered, and
  that every other object has a caller who still has to decide about it.

About one scientific child, for every queue limit and every number of stray messages:

* `Session_proofs!SessionTypes`: `Spec => []TypeOK`.
* `Session_proofs!SuccessIsPublished`: `Spec => []PublishedBeforeSuccess`.
* `Session_proofs!SupervisorImplementsContract`: `Spec => ImplementsSupervisedProcess`, the
  refinement of `SupervisedProcess`: initial states map to initial states, and each step of
  the supervisor, the session and the child to a step of the contract or to a stutter.

`RecordInv` says which combinations of launch, record and process exist (a rejected launch has
no live child, a closed record has no timer). `FailureInv` says that a child that reported a
failure says nothing else afterwards, in the pipe or in the chain. `PublishInv` says that each
acknowledgement means what it says, and that a published session keeps its binding and its
receipt unless a failure is all that is left to be handled: the case in which success could
be reported of an unpublished result, or a published one be reported as anything else.

About the remote page, for any set of runs and any numbers of workflow replacements and
cancellations, from `NoneAssumption` (no run is called `None`) and `BoundsAssumption`
(naturals):

* `RemoteWorkspace_proofs!NoJobIsForgotten`: `Spec => []NoJobForgotten`.
* `RemoteWorkspace_proofs!PageTypes`: `Spec => []TypeOK`.
* `RemoteWorkspace_proofs!IdlePagesAreUsable`: `Spec => []IdlePageIsUsable`.

An assignment to `activeJobRef` or `sourceJobRef` that covers up another job would forget it,
so `PageInv` says why none does: the page binds or owns one job at a time (`MutexShape`);
a current run owns the page, and if it is to become the source, the place of the source is
empty (`RunInv`); a job that is being cancelled has no current run, so its answer and its
handler do not both release it; a source session that is being ended keeps its source. The
lemmas of the first part say of each helper (`releaseBoundRemoteJob`,
`promoteDeferredCleanup`, `retainStaleCleanup`, …) which jobs it keeps in hand;
`UnmountKeeps` shows that what leaving the page asks for is all that was held.

`IdlePageIsUsable` asks more: when the last handler has returned, it must have left the page
open. `UsableInv` names, for each status that disables the controls, the one who is still
under way and will end it: "running" has a current run or a check, "cancelling" has the end of
a session, a run that gives up its job or a cancellation of the active one (`StatusInv`), and
the queue of retained jobs is empty unless a job or an attempt is in front of it (`QueueInv`).
After a replacement of the workflow nobody need answer for "cancelling": that is the
observation in section 3.

About the leases, for any tasks and workers, numbers of slots and crashes, durations and
bounds, from `LeaseAssumption`:

* `Lease_proofs!SlotsMatch`: `Spec => []SlotsMatchClaims`: slots, claim columns and live
  processes agree, so that no crash, expiry or release gives a slot away under a process.
* `Lease_proofs!QuarantinedJobsAreFrozen`, `HoldersPublish`: `Spec => QuarantineFreezesJob`
  and `Spec => PublishedByHolder`.
* `Lease_proofs!LeaseTypes`: `Spec => []TypeOK`.

`SlotsMatchClaims` says nothing of a worker that works on with a claim it has lost, nor of
which claims may be given back. `LeaseInv` adds both: a record with an attempt is in a
process-owning state and has a slot (`GoodRecord`), so that only a claim without a process is
released; and a worker's claim is the job's own, with slot and fence, or the job has gone on to
a later attempt or has no slot (`WorkerInv`). The latter makes a stale worker's writes fail,
because quarantine puts the slot one fence ahead (`SlotInv`). One lemma `...Keeps` per action;
`StepKeeps` joins them.

* `Lease_proofs!WorkersImplementJobs`: `Spec => ImplementsComputeJobs`: to the submitter of a
  job, any number of workers that crash and recover each other's claims are the service that
  one process is.
* `Lease_proofs!AnswersStay`, `ProcessesFitTheSlots`: what follows for the rows and machines: no
  answer is withdrawn before the deletion of its job begins, and there are never more
  processes, orphaned ones included, than slots.

`AnswerInv` adds to `LeaseInv` which states a record with a lease or a result can be in.
`GoodMove` says of one write to a record which move of the abstract job it is, and for which
of them no process may work on the job; `LeaseInv` supplies that, orphaned processes
included. The limit is met because each process has a slot of its own (`RoomForOne`: from
working jobs to held slots is an injection). `RecoverExpiredClaims` settles several jobs in
one step: TLC refuted an earlier `Settle` of a single job on an instance with two tasks and two
slots, which the run with one task cannot tell apart.

About the HTTP record of a job above these leases, with `HttpAssumption` (its task is one):

* `Lease_proofs!RoutesRunTheCore`: `HttpSpec => Spec`: the routes and the reconciliation do to the
  task only what workers and API may do, so all theorems about the leases hold beneath them.
* `Lease_proofs!ReceiptsAreTrue`: `HttpSpec => DeletionReceiptIsTrue`, for any number of uploads
  and executes at work at once (`MaxInFlight` bounds only the runs).
* `Lease_proofs!HttpTypesHold`: `HttpSpec => []HttpTypeOK`.

A deletion completes on what its handler saw several awaits before. `GoodRequest` says that
what it remembers still holds: a task it saw deleted is deleted (no step of the core leaves
that state, `GoneStays`), and while it erases, verifies and records a bound record it knows
the job to be `Gone`, deleted without a slot. `LeaseInv` gives that such a job has no process
on any machine. The record's own objects need the history variable `late`, the objects put
since the handler verified: `Verified` says that a handler about to record its receipt finds
nothing stored but those. The receipt is therefore true of the moment of verification and not
always of the moment it is written (section 3, observations).

About a dataset session, for any calls, finitely many sheets, any mappings, contents and
number of receipts, from `DatasetAssumption`:

* `Dataset_proofs!JobsRunOnTheirReceipt`: `Spec => []ExecutionUsesItsReceipt`.
* `Dataset_proofs!DatasetTypes`: `Spec => []TypeOK`.

What a call still has to do was planned from a control state that may be gone by now.
`DatasetInv` therefore says what each step in such a list is on (`StepsFor`): a match is on
the receipt of the job, which is written once, whatever became of the dataset; and that a
call whose revision still is the row's (`fresh`) stores only what follows from the control
state of now (`ArgOK`), unless the session has ended.

Every invariant, action property and refinement that a passing run checks is proved by one of
these theorems. Model-checked only, since the prover handles neither fairness nor ENABLED, are
the liveness properties: `SlotIsGivenBack`, `JobSettles`, `SlotIsRecoveredOrRefused`,
`ProcessIsGivenUpOrIsolated`, `DeletionCompletes`, `LaunchSettles`, `EndedSessionCloses`,
`GenerationsVanish`, `InputDeletionSettles` and `DataVanishes`; `SlotIsRecovered` is the one that
TLC refutes. That the children of `ComputeServiceCore` admit every behaviour of
`SupervisedProcess` is neither checked nor proved; the actions were written from that contract.

## 5. Plan

What is left, in this order:

1. The children of `ComputeServiceCore`: every behaviour of `SupervisedProcess` is one that its
   actions of launch and termination admit.
2. The event broker's cursors and replay.
3. A dataset workflow over several generations, and the failure journal's ring.

## 6. Not modelled

Numerics, parsers, exporters and the rest of the user interface: computations and rendering
without protocol state; the local page compares one token per run. Request validation, capabilities, idempotency keys and rate limits of the
router: checks on one request, or one SQL statement. The event broker and result
generations: one transaction each. Runtime wiring, configuration and build approval: read
once at the start. Scripts, oracles, recorded output and vendored code: not part of the
running system; the bundles under `output/` repeat the packages' code. These make up nearly all of the repository's lines.
