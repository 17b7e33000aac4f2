-------------------------- MODULE LeaseCoordination --------------------------
(***************************************************************************)
(* Several worker processes over one PostgreSQL database: the coordinator  *)
(* PostgresDistributedLeaseCoordinator and the fenced compareAndSet of      *)
(* packages/compute-service-persistent/src/postgres.ts, the loop of         *)
(* PersistentComputeWorker (worker.ts) and the temporal sweeper.            *)
(*                                                                         *)
(* Every coordinator call is one serializable transaction, so it is one    *)
(* action.  What a worker does with its claimed job goes through            *)
(* ComputeServiceCore; that module has the interleavings inside one         *)
(* process, here each of its compare-and-set writes is one action, guarded  *)
(* by the fence that PostgreSQL adds to it.  Workers may crash at any step   *)
(* and leave their child process behind.                                    *)
(***************************************************************************)
EXTENDS Naturals, FiniteSets, JobStates

CONSTANTS
  Tasks,          \* task identifiers
  Workers,        \* worker processes (holder identifiers)
  NoTask,
  NoWorker,
  MaxSlots,       \* rows of compute_capacity_slots
  GlobalCapacity, \* globalCapacity in the configuration of every worker
  LeaseDuration,  \* leaseDurationMs of every worker
  Deadline,       \* deadline and time to live of every job
  Ttl,
  MaxEpoch,       \* bound: claims of one task
  MaxTime,        \* bound: the clock stops here
  MaxCrashes      \* bound: worker crashes

ASSUME LeaseAssumption ==
  /\ NoTask \notin Tasks
  /\ NoWorker \notin Workers
  /\ {MaxSlots, LeaseDuration} \subseteq Nat \ {0}
  /\ GlobalCapacity \in 1..MaxSlots
  /\ {Deadline, Ttl, MaxEpoch, MaxTime, MaxCrashes} \subseteq Nat
  /\ Deadline <= Ttl

Slots == 1..MaxSlots
Epochs == 1..MaxEpoch

VARIABLES
  now,      \* the database clock
  limit,    \* the capacity the operator configured last
  job,      \* compute_jobs: the record and its claim columns
  slot,     \* compute_capacity_slots
  worker,   \* each worker's loop and the claim it works on
  child,    \* the process of each attempt, and the worker that supervises it
  crashes   \* worker crashes so far

vars == <<now, limit, job, slot, worker, child, crashes>>

\* lease = 0 is no lease, exec says whether the record has an execution
\* attempt (always of epoch), slot = 0 stands for NULL claim columns.
NewJob ==
  [state |-> "absent", epoch |-> 0, lease |-> 0, exec |-> FALSE,
   pending |-> "none", result |-> FALSE, slot |-> 0, fence |-> 0]

FreeSlot(enabled, fence) ==
  [enabled |-> enabled, fence |-> fence, holder |-> NoWorker, task |-> NoTask,
   epoch |-> 0, expires |-> 0, quarantined |-> FALSE]

NoClaim == [pc |-> "idle", task |-> NoTask, slot |-> 0, epoch |-> 0, fence |-> 0]

NoChild == [st |-> "none", owner |-> NoWorker, stop |-> FALSE, at |-> 0,
            read |-> 0]

TypeOK ==
  /\ now \in 0..MaxTime
  /\ limit \in Slots
  /\ job \in [Tasks ->
       [state : States \cup {"absent"}, epoch : 0..MaxEpoch, lease : Nat,
        exec : BOOLEAN, pending : PendingStopOutcomes \cup {"none"},
        result : BOOLEAN, slot : 0..MaxSlots, fence : Nat]]
  /\ slot \in [Slots ->
       [enabled : BOOLEAN, fence : Nat, holder : Workers \cup {NoWorker},
        task : Tasks \cup {NoTask}, epoch : 0..MaxEpoch, expires : Nat,
        quarantined : BOOLEAN]]
  /\ worker \in [Workers ->
       [pc : {"idle", "ready", "recovered", "claimed", "launching", "watching", "ending",
              "down"},
        task : Tasks \cup {NoTask}, slot : 0..MaxSlots, epoch : 0..MaxEpoch,
        fence : Nat]]
  /\ child \in [Tasks -> [Epochs ->
       [st : {"none", "spawning", "rejected", "alive", "exited", "gone"},
        owner : Workers \cup {NoWorker}, stop : BOOLEAN, at : Nat,
        read : Nat]]]
  /\ crashes \in 0..MaxCrashes

Init ==
  /\ now = 0
  /\ limit = MaxSlots
  /\ job = [t \in Tasks |-> NewJob]
  /\ slot = [s \in Slots |-> FreeSlot(TRUE, 0)]
  /\ worker = [w \in Workers |-> NoClaim]
  /\ child = [t \in Tasks |-> [e \in Epochs |-> NoChild]]
  /\ crashes = 0

-----------------------------------------------------------------------------
(* Records, as module ComputeServiceCore has them, without its bookkeeping *)

Earliest(a, b) == IF a <= b THEN a ELSE b

LeaseExpiry == Earliest(now + LeaseDuration, Earliest(Deadline, Ttl))

Final == {"succeeded", "failed", "cancelled", "timed_out", "expired", "deleted"}

\* The outcome of a stop caused by the clock.
TemporalOutcome(at) ==
  IF at >= Ttl THEN "expired" ELSE IF at >= Deadline THEN "timed_out" ELSE "queued"

\* The record leaves the states with a lease or a process.
Settled(r, state, result) ==
  [r EXCEPT !.state = state, !.lease = 0, !.exec = FALSE, !.pending = "none",
            !.result = result]

\* Mutant: the record does not remember why it is being stopped.
Stopping_NoOutcome(r, pending) == [r EXCEPT !.state = "cancelling"]

Stopping(r, pending) == [r EXCEPT !.state = "cancelling", !.pending = pending]

StopTarget(r) == IF r.pending = "deleted" THEN "deleting" ELSE r.pending

LeaseExpired(r) == r.lease # 0 /\ now >= r.lease

\* Mutant: a job whose lease ran out is put back without stopping its process.
Swept_AtOnce(r) ==
  IF LeaseExpired(r) \/ now >= Deadline
  THEN IF r.state \in ProcessOwningStates \cup {"leased"}
       THEN Settled(r, TemporalOutcome(now), FALSE) ELSE r
  ELSE r

\* sweepTask of the core.
Swept(r) ==
  IF ~(now >= Deadline \/ LeaseExpired(r)) THEN r
  ELSE IF r.state = "cancelling"
  THEN IF r.pending \in {"deleted", "cancelled", "failed"} \/ now < Deadline
       THEN r ELSE [r EXCEPT !.pending = TemporalOutcome(now)]
  ELSE IF r.state \in {"starting", "running"}
  THEN Stopping(r, TemporalOutcome(now))
  ELSE IF now >= Ttl /\ r.state \notin {"absent", "deleting", "deleted"}
  THEN Settled(r, "expired", r.result)
  ELSE IF r.state \in {"queued", "leased"}
  THEN Settled(r, TemporalOutcome(now), FALSE)
  ELSE r

\* #handleObservedTermination of the core: exit code 0 or not, at time at.
Terminated(r, ok, at) ==
  IF r.state = "cancelling" THEN Settled(r, StopTarget(r), FALSE)
  ELSE IF at >= Deadline \/ (r.lease # 0 /\ at >= r.lease)
  THEN Settled(r, TemporalOutcome(at), FALSE)
  ELSE IF ok /\ r.result THEN Settled(r, "succeeded", TRUE)
  ELSE Settled(r, "failed", FALSE)

\* Mutant: the fence compares the slot but not its fencing epoch.
Fenced_SlotOnly(t) ==
  job[t].slot # 0 => slot[job[t].slot].task = t

\* compareAndSet: the row has no claim columns, or they are those of the slot.
Fenced(t) ==
  job[t].slot # 0 =>
    LET s == slot[job[t].slot] IN
    s.task = t /\ s.fence = job[t].fence /\ s.epoch = job[t].epoch

\* An applied compareAndSet of the core.
Write(t, r) == Fenced(t) /\ r # job[t] /\ job' = [job EXCEPT ![t] = r]

Held(s) == slot[s].holder # NoWorker

\* The slot row matches a claim exactly.
HoldsClaim(w) ==
  LET c == worker[w]
      s == slot[c.slot]
  IN  s.fence = c.fence /\ s.holder = w /\ s.task = c.task /\ s.epoch = c.epoch

SetWorker(w, pc) == worker' = [worker EXCEPT ![w] = [@ EXCEPT !.pc = pc]]

SetChild(t, e, c) == child' = [child EXCEPT ![t] = [@ EXCEPT ![e] = c]]

-----------------------------------------------------------------------------
(* PersistentComputeWorker.tick: check readiness, recover, claim *)

\* verifyCapacity, the part of the readiness probe that this state decides: a
\* quarantined slot makes every worker unready until the operator has reconciled
\* it, and so does a capacity other than the one the workers were started with.
Ready == Cardinality({s \in Slots : slot[s].enabled}) = GlobalCapacity

\* The tick begins with a readiness check; what follows uses its answer later.
ChecksReady(w) ==
  /\ worker[w].pc = "idle" /\ Ready
  /\ SetWorker(w, "ready")
  /\ UNCHANGED <<now, limit, job, slot, child, crashes>>

\* Mutant: only claims whose job has not started are looked for.
ExpiredClaim_Unstarted(s) ==
  Held(s) /\ ~slot[s].quarantined /\ slot[s].expires <= now
    /\ ~job[slot[s].task].exec

ExpiredClaim(s) == Held(s) /\ ~slot[s].quarantined /\ slot[s].expires <= now

\* An attempt whose termination nobody observed is isolated, not released.
MustIsolate(r) == r.exec \/ r.state \in ProcessOwningStates

\* Mutant: a claim whose attempt was started is a conflict.
RecoveryConflict_Started(s) ==
  LET r == job[slot[s].task] IN
  ~(r.lease # 0 /\ r.epoch = slot[s].epoch /\ ~r.exec)

\* The recovery of a claim throws, and with it the whole transaction.
RecoveryConflict(s) ==
  LET r == job[slot[s].task] IN
  \/ r.lease = 0 \/ r.epoch # slot[s].epoch
  \/ ~MustIsolate(r) /\ (r.slot # s \/ r.fence # slot[s].fence)

\* recoveryState
Recovered(r) ==
  LET state == IF now >= Deadline THEN TemporalOutcome(now)
               ELSE IF r.result THEN "succeeded" ELSE "queued"
  IN  [Settled(r, state, r.result /\ state = "succeeded") EXCEPT
         !.slot = 0, !.fence = 0]

\* recoverExpiredClaims: all expired claims or, on a conflict, none.
RecoverExpiredClaims(w) ==
  LET due == {s \in Slots : ExpiredClaim(s)}
      isolated == {s \in due : MustIsolate(job[slot[s].task])}
      released == {slot[s].task : s \in due \ isolated}
  IN
  /\ worker[w].pc = "ready"
  /\ \A s \in due : ~RecoveryConflict(s)
  /\ job' = [t \in Tasks |-> IF t \in released THEN Recovered(job[t]) ELSE job[t]]
  /\ slot' = [s \in Slots |->
       IF s \in isolated
       THEN [slot[s] EXCEPT !.enabled = FALSE, !.fence = @ + 1,
                            !.quarantined = TRUE]
       ELSE IF s \in due THEN FreeSlot(slot[s].enabled, slot[s].fence)
       ELSE slot[s]]
  /\ SetWorker(w, "recovered")
  /\ UNCHANGED <<now, limit, child, crashes>>

\* Recovery throws: the transaction is rolled back and the tick ends.
RecoveryFails(w) ==
  /\ worker[w].pc = "ready"
  /\ \E s \in Slots : ExpiredClaim(s) /\ RecoveryConflict(s)
  /\ SetWorker(w, "idle")
  /\ UNCHANGED <<now, limit, job, slot, child, crashes>>

\* claimNext with a free slot and a queued job.  A job that is still in another
\* slot violates compute_capacity_one_task_idx: then the claim fails.
ClaimNext(w, t) ==
  LET free == {s \in Slots : slot[s].enabled /\ ~Held(s)}
      r == job[t]
  IN
  /\ worker[w].pc = "recovered"
  /\ r.state = "queued" /\ now < Deadline /\ r.epoch < MaxEpoch
  /\ \A x \in Slots : slot[x].task # t
  /\ \E s \in free :
       LET fence == slot[s].fence + 1 IN
       /\ \A x \in free : s <= x
       /\ job' = [job EXCEPT ![t] = [r EXCEPT !.state = "leased", !.epoch = @ + 1,
                                             !.lease = LeaseExpiry,
                                             !.slot = s, !.fence = fence]]
       /\ slot' = [slot EXCEPT ![s] =
            [@ EXCEPT !.fence = fence, !.holder = w, !.task = t,
                      !.epoch = r.epoch + 1, !.expires = LeaseExpiry]]
       /\ worker' = [worker EXCEPT ![w] =
            [pc |-> "claimed", task |-> t, slot |-> s, epoch |-> r.epoch + 1,
             fence |-> fence]]
  /\ UNCHANGED <<now, limit, child, crashes>>

\* Nothing to claim, or the claim failed: the tick ends.
ClaimNothing(w) ==
  /\ worker[w].pc = "recovered"
  /\ worker' = [worker EXCEPT ![w] = NoClaim]
  /\ UNCHANGED <<now, limit, job, slot, child, crashes>>

-----------------------------------------------------------------------------
(* executeTask in the worker's process, and its supervisor *)

Live(t, e) == child[t][e].st \in {"spawning", "alive"}

\* The record's attempt is e's and the database accepts a write for it.
Owns(t, e) == job[t].exec /\ job[t].epoch = e /\ Fenced(t)

\* Neither another attempt of the process (maxConcurrency 1) nor the clock nor
\* another write stands in the way.
MayExecute(w) ==
  LET c == worker[w]
      r == job[c.task]
  IN  /\ r.state = "leased" /\ r.epoch = c.epoch
      /\ ~LeaseExpired(r) /\ now < Deadline /\ Fenced(c.task)
      /\ \A t \in Tasks, e \in Epochs :
           child[t][e].owner = w => child[t][e].st \in {"none", "gone"}

ExecuteStart(w) ==
  LET c == worker[w] IN
  /\ c.pc = "claimed"
  /\ MayExecute(w)
  /\ job' = [job EXCEPT ![c.task] = [@ EXCEPT !.state = "starting", !.exec = TRUE]]
  /\ SetChild(c.task, c.epoch, [NoChild EXCEPT !.st = "spawning", !.owner = w])
  /\ SetWorker(w, "launching")
  /\ UNCHANGED <<now, limit, slot, crashes>>

\* executeTask throws, after the sweepTask it begins with: MayExecute is false,
\* or an earlier refusal has used up the capacity of the process.
ExecuteRefused(w) ==
  LET t == worker[w].task IN
  /\ worker[w].pc = "claimed"
  /\ job' = [job EXCEPT ![t] = IF Fenced(t) THEN Swept(@) ELSE @]
  /\ SetWorker(w, "ending")
  /\ UNCHANGED <<now, limit, slot, child, crashes>>

\* executeTask returns to the loop, or throws when its write was refused.
LaunchSettled(t, e) ==
  worker' = [w \in Workers |->
    IF w = child[t][e].owner /\ worker[w].pc = "launching"
    THEN [worker[w] EXCEPT !.pc = IF Owns(t, e) THEN "watching" ELSE "ending"]
    ELSE worker[w]]

\* A child of a dead worker has nobody to bind it.
Spawned(t, e) ==
  LET c == child[t][e]
      supervised == c.owner # NoWorker
      stop == supervised /\ ~(Owns(t, e) /\ job[t].state = "starting")
  IN
  /\ c.st = "spawning"
  /\ SetChild(t, e, [c EXCEPT !.st = "alive", !.stop = stop])
  /\ IF supervised /\ ~stop
     THEN job' = [job EXCEPT ![t] = [@ EXCEPT !.state = "running"]]
     ELSE UNCHANGED job
  /\ LaunchSettled(t, e)
  /\ UNCHANGED <<now, limit, slot, crashes>>

SpawnFails(t, e) ==
  /\ child[t][e].st = "spawning"
  /\ SetChild(t, e, [child[t][e] EXCEPT !.st = "rejected"])
  /\ UNCHANGED <<now, limit, job, slot, worker, crashes>>

\* The supervisor's launch is rejected: the job settles without a process.
LaunchRejected(t, e) ==
  LET c == child[t][e] IN
  /\ c.st = "rejected" /\ c.owner # NoWorker
  /\ SetChild(t, e, [c EXCEPT !.st = "gone"])
  /\ IF Owns(t, e)
     THEN job' = [job EXCEPT ![t] =
            Settled(@, IF @.state = "cancelling" THEN StopTarget(@) ELSE "failed",
                    FALSE)]
     ELSE UNCHANGED job
  /\ LaunchSettled(t, e)
  /\ UNCHANGED <<now, limit, slot, crashes>>

\* The launch deadline: the job is stopped, the spawn settles later.
LaunchTimedOut(w) ==
  LET t == worker[w].task IN
  /\ worker[w].pc = "launching"
  /\ IF Owns(t, worker[w].epoch) /\ job[t].state = "starting"
     THEN job' = [job EXCEPT ![t] = Stopping(@, "failed")]
     ELSE UNCHANGED job
  /\ SetWorker(w, IF Owns(t, worker[w].epoch) THEN "watching" ELSE "ending")
  /\ UNCHANGED <<now, limit, slot, child, crashes>>

ChildExits(t, e) ==
  /\ child[t][e].st = "alive"
  /\ SetChild(t, e, [child[t][e] EXCEPT !.st = "exited", !.at = now])
  /\ UNCHANGED <<now, limit, job, slot, worker, crashes>>

\* publishResult on behalf of the child reads record and clock; then it awaits
\* the head of the result object.
PublishRead(t, e) ==
  LET c == child[t][e] IN
  /\ c.st = "alive" /\ c.owner # NoWorker /\ c.read = 0
  /\ job[t].exec /\ job[t].epoch = e /\ job[t].state = "running"
  /\ ~LeaseExpired(job[t]) /\ ~job[t].result
  /\ SetChild(t, e, [c EXCEPT !.read = job[t].lease])
  /\ UNCHANGED <<now, limit, job, slot, worker, crashes>>

\* Its write is applied when the record is still the one it read.  A running
\* record without a result only changes by its lease.
PublishCommit(t, e) ==
  LET c == child[t][e]
      current == /\ Owns(t, e) /\ job[t].state = "running"
                 /\ job[t].lease = c.read /\ ~job[t].result
  IN
  /\ c.read # 0 /\ c.owner # NoWorker
  /\ job' = [job EXCEPT ![t].result = @ \/ current]
  /\ SetChild(t, e, [c EXCEPT !.read = 0])
  /\ UNCHANGED <<now, limit, slot, worker, crashes>>

\* #handleObservedTermination; its write may be refused.
Finalize(t, e) ==
  /\ child[t][e].st = "exited" /\ child[t][e].owner # NoWorker
  /\ IF Owns(t, e)
     THEN \E ok \in BOOLEAN :
            job' = [job EXCEPT ![t] = Terminated(@, ok, child[t][e].at)]
     ELSE UNCHANGED job
  /\ SetChild(t, e, [child[t][e] EXCEPT !.st = "gone"])
  /\ UNCHANGED <<now, limit, slot, worker, crashes>>

-----------------------------------------------------------------------------
(* PersistentComputeWorker.#watch and the end of the tick *)

WatchSweep(w) ==
  LET t == worker[w].task IN
  /\ worker[w].pc = "watching"
  /\ Write(t, Swept(job[t]))
  /\ UNCHANGED <<now, limit, slot, worker, child, crashes>>

\* sweepTask and cancelTask on a cancelling job ask this worker's child again.
WatchStop(w) ==
  LET t == worker[w].task
      r == job[t]
  IN
  /\ worker[w].pc = "watching"
  /\ r.state = "cancelling" /\ r.exec
  /\ r.pending \in {"deleted", "cancelled"} \/ now >= Deadline \/ LeaseExpired(r)
  /\ child[t][r.epoch].owner = w /\ child[t][r.epoch].st = "alive"
  /\ ~child[t][r.epoch].stop
  /\ SetChild(t, r.epoch, [child[t][r.epoch] EXCEPT !.stop = TRUE])
  /\ UNCHANGED <<now, limit, job, slot, worker, crashes>>

\* Mutant: only the job's lease is compared, not the slot's fence.
Heartbeat_Unfenced(w) ==
  LET c == worker[w]
      r == job[c.task]
  IN
  /\ c.pc = "watching"
  /\ r.lease # 0 /\ r.epoch = c.epoch
  /\ r.state \in {"leased", "starting", "running"}
  /\ LeaseExpiry > now /\ LeaseExpiry # r.lease
  /\ job' = [job EXCEPT ![c.task] = [@ EXCEPT !.lease = LeaseExpiry]]
  /\ slot' = [slot EXCEPT ![c.slot] = [@ EXCEPT !.expires = LeaseExpiry]]
  /\ UNCHANGED <<now, limit, worker, child, crashes>>

\* heartbeat: the claim's slot and the record's lease are extended together.
\* Neither the old lease nor the old slot needs to be unexpired.
Heartbeat(w) ==
  LET c == worker[w]
      r == job[c.task]
  IN
  /\ c.pc = "watching"
  /\ slot[c.slot].task = c.task /\ slot[c.slot].fence = c.fence
  /\ slot[c.slot].epoch = c.epoch
  /\ r.lease # 0 /\ r.epoch = c.epoch
  /\ r.state \in {"leased", "starting", "running"}
  /\ LeaseExpiry > now /\ LeaseExpiry # r.lease
  /\ job' = [job EXCEPT ![c.task] = [@ EXCEPT !.lease = LeaseExpiry]]
  /\ slot' = [slot EXCEPT ![c.slot] = [@ EXCEPT !.expires = LeaseExpiry]]
  /\ UNCHANGED <<now, limit, worker, child, crashes>>

\* reconcileObservedTermination: slot row and claim columns are cleared when
\* both still carry this claim.
ReconcileTermination(w) ==
  LET c == worker[w] IN
  IF HoldsClaim(w) /\ job[c.task].slot = c.slot /\ job[c.task].fence = c.fence
  THEN /\ job' = [job EXCEPT ![c.task] = [@ EXCEPT !.slot = 0, !.fence = 0]]
       /\ slot' = [slot EXCEPT ![c.slot] = FreeSlot(@.enabled, @.fence)]
  ELSE UNCHANGED <<job, slot>>

WatchFinal(w) ==
  /\ worker[w].pc = "watching"
  /\ job[worker[w].task].state \in Final
  /\ SetWorker(w, "ending")
  /\ UNCHANGED <<now, limit, job, slot, child, crashes>>

\* The slot is given back before the deletion is completed.
WatchDeleting(w) ==
  /\ worker[w].pc = "watching"
  /\ job[worker[w].task].state = "deleting"
  /\ ReconcileTermination(w)
  /\ worker' = [worker EXCEPT ![w] = NoClaim]
  /\ UNCHANGED <<now, limit, child, crashes>>

\* The finally block of tick: a job that is not final keeps its slot.
EndTick(w) ==
  /\ worker[w].pc = "ending"
  /\ IF job[worker[w].task].state \in Final THEN ReconcileTermination(w)
                                            ELSE UNCHANGED <<job, slot>>
  /\ worker' = [worker EXCEPT ![w] = NoClaim]
  /\ UNCHANGED <<now, limit, child, crashes>>

-----------------------------------------------------------------------------
(* The API, the temporal sweeper and the operator *)

Create(t) ==
  /\ job[t].state = "absent" /\ now < Deadline
  /\ job' = [job EXCEPT ![t] = [NewJob EXCEPT !.state = "queued"]]
  /\ UNCHANGED <<now, limit, slot, worker, child, crashes>>

\* cancelTask, by the API, or by a worker that shuts down or is not ready.
Cancel(t) ==
  LET r == job[t] IN
  /\ \/ r.state \in {"queued", "leased"} /\ Write(t, Settled(r, "cancelled", FALSE))
     \/ /\ r.state \in ProcessOwningStates
        /\ r.pending \notin {"deleted", "cancelled"}
        /\ Write(t, Stopping(r, "cancelled"))
  /\ UNCHANGED <<now, limit, slot, worker, child, crashes>>

\* deleteTask, by the API, and by the sweeper for an expired job.
Delete(t) ==
  LET r == job[t] IN
  /\ \/ /\ r.state \notin ProcessOwningStates \cup {"absent", "deleting", "deleted"}
        /\ Write(t, Settled(r, "deleting", FALSE))
     \/ r.state \in ProcessOwningStates /\ Write(t, Stopping(r, "deleted"))
  /\ UNCHANGED <<now, limit, slot, worker, child, crashes>>

\* deleteTask on a deleting job: #completeDeletion.
CompleteDeletion(t) ==
  /\ job[t].state = "deleting"
  /\ Write(t, Settled(job[t], "deleted", FALSE))
  /\ UNCHANGED <<now, limit, slot, worker, child, crashes>>

\* Mutant: only jobs that could still run are due.
TemporallyDue_Active(t) ==
  job[t].state \in {"queued", "leased"} \cup ProcessOwningStates /\ now >= Deadline

\* PostgresTemporalDueSource.claimDue: which jobs the sweeper visits.
TemporallyDue(t) ==
  \/ /\ job[t].state \in {"queued", "leased"} \cup ProcessOwningStates
     /\ now >= Deadline
  \/ job[t].state \notin {"absent", "deleted"} /\ now >= Ttl
  \/ job[t].state = "deleting" /\ \A s \in Slots : slot[s].task # t

\* PersistentTemporalTaskSweeper.sweep on one job.
TemporalSweep(t) ==
  /\ TemporallyDue(t)
  /\ \/ job[t].state = "deleting" /\ CompleteDeletion(t)
     \/ job[t].state = "expired" /\ Delete(t)
     \/ /\ job[t].state \notin {"deleting", "expired"}
        /\ Write(t, Swept(job[t]))
        /\ UNCHANGED <<now, limit, slot, worker, child, crashes>>

\* configureCapacity fails when a slot beyond the new limit is held.
ConfigureCapacity(n) ==
  /\ n # limit
  /\ \A s \in Slots : s > n => ~Held(s)
  /\ limit' = n
  /\ slot' = [s \in Slots |->
       [slot[s] EXCEPT !.enabled = IF s <= n THEN ~slot[s].quarantined ELSE FALSE]]
  /\ UNCHANGED <<now, job, worker, child, crashes>>

\* The state left by a termination of some kind that was observed at time at
\* (a rejected launch counts as a crash).
Reconciled(r, kind, at) ==
  IF at >= Ttl THEN Settled(r, "expired", FALSE)
  ELSE IF at >= Deadline THEN Settled(r, "timed_out", FALSE)
  ELSE IF r.pending = "deleted" THEN Settled(r, "deleting", FALSE)
  ELSE IF r.pending \notin {"none", "queued"} THEN Settled(r, r.pending, FALSE)
  ELSE IF kind = "completed" /\ r.result THEN Settled(r, "succeeded", TRUE)
  ELSE IF kind = "crashed" THEN Settled(r, "failed", FALSE)
  ELSE Settled(r, "queued", FALSE)

\* Mutant: the operator reconciles without a termination observation.
ReconcileQuarantined_Unobserved(s) ==
  LET t == slot[s].task
      r == job[t]
  IN
  /\ slot[s].quarantined /\ r.exec
  /\ r.slot = s /\ r.fence + 1 = slot[s].fence
  /\ \E kind \in {"completed", "crashed", "terminated"}, at \in 0..now :
       job' = [job EXCEPT ![t] = [Reconciled(r, kind, at) EXCEPT
                                    !.slot = 0, !.fence = 0]]
  /\ slot' = [slot EXCEPT ![s] = FreeSlot(TRUE, @.fence)]
  /\ UNCHANGED <<now, limit, worker, child, crashes>>

\* reconcileQuarantinedClaim: somebody who can see the dead worker's machine
\* reports how the process of the attempt ended.
ReconcileQuarantined(s) ==
  LET t == slot[s].task
      r == job[t]
  IN
  /\ slot[s].quarantined /\ r.exec
  /\ ~Live(t, r.epoch)
  /\ r.slot = s /\ r.fence + 1 = slot[s].fence
  /\ \E kind \in {"completed", "crashed", "terminated"}, at \in 0..now :
       job' = [job EXCEPT ![t] = [Reconciled(r, kind, at) EXCEPT
                                    !.slot = 0, !.fence = 0]]
  /\ slot' = [slot EXCEPT ![s] = FreeSlot(TRUE, @.fence)]
  /\ UNCHANGED <<now, limit, worker, child, crashes>>

-----------------------------------------------------------------------------
Crash(w) ==
  /\ worker[w].pc # "down" /\ crashes < MaxCrashes
  /\ crashes' = crashes + 1
  /\ worker' = [worker EXCEPT ![w] = [NoClaim EXCEPT !.pc = "down"]]
  /\ child' = [t \in Tasks |-> [e \in Epochs |->
       IF child[t][e].owner = w THEN [child[t][e] EXCEPT !.owner = NoWorker]
                                ELSE child[t][e]]]
  /\ UNCHANGED <<now, limit, job, slot>>

Restart(w) ==
  /\ worker[w].pc = "down"
  /\ worker' = [worker EXCEPT ![w] = NoClaim]
  /\ UNCHANGED <<now, limit, job, slot, child, crashes>>

Tick ==
  /\ now < MaxTime
  /\ now' = now + 1
  /\ UNCHANGED <<limit, job, slot, worker, child, crashes>>

WorkerStep(w) ==
  \/ ChecksReady(w) \/ RecoverExpiredClaims(w) \/ RecoveryFails(w) \/ ClaimNothing(w)
  \/ \E t \in Tasks : ClaimNext(w, t)
  \/ ExecuteStart(w) \/ ExecuteRefused(w) \/ LaunchTimedOut(w)
  \/ WatchSweep(w) \/ WatchStop(w) \/ Heartbeat(w)
  \/ WatchFinal(w) \/ WatchDeleting(w) \/ EndTick(w)

ChildStep(t, e) ==
  \/ Spawned(t, e) \/ SpawnFails(t, e) \/ LaunchRejected(t, e) \/ ChildExits(t, e)
  \/ PublishRead(t, e) \/ PublishCommit(t, e) \/ Finalize(t, e)

ControlStep(t) ==
  \/ Create(t) \/ Cancel(t) \/ Delete(t) \/ CompleteDeletion(t) \/ TemporalSweep(t)

Next ==
  \/ Tick
  \/ \E w \in Workers : WorkerStep(w) \/ Crash(w) \/ Restart(w)
  \/ \E t \in Tasks : ControlStep(t) \/ \E e \in Epochs : ChildStep(t, e)
  \/ \E s \in Slots : ReconcileQuarantined(s) \/ ConfigureCapacity(s)

Spec == Init /\ [][Next]_vars
=============================================================================
