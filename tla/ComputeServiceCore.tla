-------------------------- MODULE ComputeServiceCore --------------------------
(***************************************************************************)
(* The orchestration core of packages/compute-service-core/src/service.ts: *)
(* claim, heartbeat, execute, publish, cancel, delete and sweep of compute *)
(* tasks over a compare-and-set repository, a capacity table that lives in *)
(* the service process, a process supervisor and an object store.          *)
(*                                                                         *)
(* Every operation of the service is an async function.  It reads a record,*)
(* computes a successor and writes it with compareAndSet, and retries when *)
(* another write came first.  An operation that does nothing observable    *)
(* between the read and the write is one action.  The operations that do   *)
(* (execute, heartbeat, publish, the launch and termination continuations) *)
(* are split at their awaits.  The repository revision is abstracted to     *)
(* the set `stale' of readers that another write has overtaken: a          *)
(* compareAndSet is applied exactly when its reader is not in it.          *)
(*                                                                         *)
(* Lease epochs identify leases, execution attempts, children and result   *)
(* objects: a claim takes a new epoch and a lease is executed at most once. *)
(***************************************************************************)
EXTENDS Naturals, FiniteSets, JobStates

CONSTANTS
  Tasks,            \* task identifiers
  Calls,            \* concurrent publish and heartbeat calls on one task
  MaxConcurrency,   \* options.maxConcurrency
  MaxLaunch,        \* options.maxProcessLaunchDurationMs
  LeaseDurations,   \* durations callers ask for
  Requests,         \* [deadline, ttl] of the requests callers submit
  DelayedReplies,   \* other steps run between a commit and its reply
  DeferDeletion,    \* options.deferProcessOwnedDeletionCompletion
  MaxEpoch,         \* bound: claims of one task
  MaxTime,          \* bound: the clock stops here
  MaxFaults         \* bound: rejected adapter calls and late puts

ASSUME CoreAssumption ==
  /\ MaxConcurrency \in Nat \ {0}
  /\ MaxLaunch \in Nat \ {0}
  /\ LeaseDurations \subseteq Nat \ {0}
  /\ Requests \subseteq [deadline : Nat, ttl : Nat]
  /\ \A q \in Requests : q.deadline <= q.ttl
  /\ DelayedReplies \in BOOLEAN
  /\ DeferDeletion \in BOOLEAN
  /\ MaxEpoch \in Nat
  /\ MaxTime \in Nat
  /\ MaxFaults \in Nat
  /\ "execute" \notin Calls

Epochs == 1..MaxEpoch

VARIABLES
  now,       \* the clock
  rec,       \* the repository: one job record per task
  slots,     \* the capacity table: the slot of each task, if any
  att,       \* the continuation of each execution attempt
  child,     \* the supervisor's view of each spawned child
  watch,     \* the continuation of each observed termination
  objects,   \* result objects present in the object store
  erase,     \* progress of #completeDeletion per task
  calls,     \* publish and heartbeat calls between their read and their write
  stale,     \* readers overtaken by another write of their record
  failures   \* adapter calls rejected so far

vars == <<now, rec, slots, att, child, watch, objects, erase, calls, stale,
          failures>>

-----------------------------------------------------------------------------
(* Types *)

\* lease = 0, exec = 0 and result = 0 stand for an absent optional field;
\* lease is the expiry time and the lease's own epoch is the record's.
JobRecord ==
  [state : States \cup {"absent"}, epoch : 0..MaxEpoch, lease : Nat,
   exec : 0..MaxEpoch, bound : BOOLEAN, stop : BOOLEAN,
   result : 0..MaxEpoch, pending : PendingStopOutcomes \cup {"none"},
   failure : BOOLEAN, deletion : BOOLEAN, owned : SUBSET Epochs,
   deadline : Nat, ttl : Nat]

NoRecord ==
  [state |-> "absent", epoch |-> 0, lease |-> 0, exec |-> 0, bound |-> FALSE,
   stop |-> FALSE, result |-> 0, pending |-> "none", failure |-> FALSE,
   deletion |-> FALSE, owned |-> {}, deadline |-> 0, ttl |-> 0]

\* A slot is named by the epoch that reserved it; child = 0 is unbound.
Slot == [id : 0..MaxEpoch, child : 0..MaxEpoch]
NoSlot == [id |-> 0, child |-> 0]

Attempt ==
  [pc : {"none", "reserved", "racing", "deadline", "late", "startFailed",
         "binding", "done"},
   late : BOOLEAN, slot : 0..MaxEpoch, until : Nat]
NoAttempt == [pc |-> "none", late |-> FALSE, slot |-> 0, until |-> 0]

Child ==
  [st : {"none", "spawning", "rejected", "alive", "exited"},
   stop : BOOLEAN, ok : BOOLEAN, at : Nat, late : BOOLEAN]
NoChild ==
  [st |-> "none", stop |-> FALSE, ok |-> FALSE, at |-> 0, late |-> FALSE]

Watch ==
  [pc : {"none", "tracked", "finalized", "cleanup", "done"},
   drop : BOOLEAN, deleting : BOOLEAN]
NoWatch == [pc |-> "none", drop |-> FALSE, deleting |-> FALSE]
WatchDone == [pc |-> "done", drop |-> FALSE, deleting |-> FALSE]

Call ==
  [op : {"none", "heartbeat", "publish"}, key : 0..MaxEpoch, until : Nat]
NoCall == [op |-> "none", key |-> 0, until |-> 0]

\* Who may be between the read and the write of a record of a task.
Readers == Calls \cup {"execute"}

TypeOK ==
  /\ now \in 0..MaxTime
  /\ rec \in [Tasks -> JobRecord]
  /\ slots \in [Tasks -> Slot]
  /\ att \in [Tasks -> [Epochs -> Attempt]]
  /\ child \in [Tasks -> [Epochs -> Child]]
  /\ watch \in [Tasks -> [Epochs -> Watch]]
  /\ objects \in SUBSET (Tasks \X Epochs)
  /\ erase \in [Tasks -> {"idle", "erasing", "verifying"}]
  /\ calls \in [Tasks -> [Calls -> Call]]
  /\ stale \in SUBSET (Tasks \X Readers)
  /\ failures \in Nat

Init ==
  /\ now = 0
  /\ rec = [t \in Tasks |-> NoRecord]
  /\ slots = [t \in Tasks |-> NoSlot]
  /\ att = [t \in Tasks |-> [e \in Epochs |-> NoAttempt]]
  /\ child = [t \in Tasks |-> [e \in Epochs |-> NoChild]]
  /\ watch = [t \in Tasks |-> [e \in Epochs |-> NoWatch]]
  /\ objects = {}
  /\ erase = [t \in Tasks |-> "idle"]
  /\ calls = [t \in Tasks |-> [p \in Calls |-> NoCall]]
  /\ stale = {}
  /\ failures = 0

-----------------------------------------------------------------------------
(* Records *)

\* A function of two arguments with one value replaced.
PutAt(f, x, y, v) == [f EXCEPT ![x][y] = v]

Earliest(a, b) == IF a <= b THEN a ELSE b

\* Math.min(now + duration, deadlineAtMs, expiresAtMs)
LeaseExpiry(r, at, d) == Earliest(at + d, Earliest(r.deadline, r.ttl))

\* #assertActiveLease: the token of epoch e still owns the task.
LeaseActive(r, e) == r.lease # 0 /\ r.epoch = e /\ now < r.lease

TtlExpired(r, at) == at >= r.ttl
DeadlineExpired(r, at) == at >= r.deadline
LeaseExpired(r, at) == r.lease # 0 /\ at >= r.lease

\* Mutant: the termination reason is stored where the outcome belongs.
TemporalOutcome_Reason(r, at) ==
  IF TtlExpired(r, at) THEN "ttl_expired"
  ELSE IF DeadlineExpired(r, at) THEN "deadline" ELSE "lease_expired"

\* What a stop that is caused by the clock will turn the job into.
TemporalOutcome(r, at) ==
  IF TtlExpired(r, at) THEN "expired"
  ELSE IF DeadlineExpired(r, at) THEN "timed_out" ELSE "queued"

\* A record without lease and execution.
Detached(r) ==
  [r EXCEPT !.lease = 0, !.exec = 0, !.bound = FALSE, !.stop = FALSE]

\* Leave the process-owning states: lease, execution and pending outcome go.
Released(r, state, result, failure) ==
  [Detached(r) EXCEPT !.state = state, !.pending = "none", !.result = result,
                      !.failure = failure]

\* Mutant: the job takes its outcome without waiting for its process.
Stopping_AtOnce(r, pending) ==
  Released(r, IF pending = "deleted" THEN "deleting" ELSE pending, 0, FALSE)

\* #markTerminationRequested and the cancelling record that carries it.
Stopping(r, pending) ==
  [r EXCEPT !.state = "cancelling", !.stop = TRUE, !.pending = pending]

\* Mutant: a deletion is treated like a cancellation.
StopTarget_NoDeletion(r) ==
  IF r.pending \in {"none", "deleted"} THEN "cancelled" ELSE r.pending

\* The state a cancelling record ends in: pendingStopOutcome ?? "cancelled".
StopTarget(r) ==
  IF r.pending = "deleted" THEN "deleting"
  ELSE IF r.pending = "none" THEN "cancelled" ELSE r.pending

\* Mutant: a recorded failure survives every outcome.
Stopped_KeepsFailure(r) == Released(r, StopTarget(r), 0, r.failure)

\* The record of a cancelling job whose process is gone.
Stopped(r) ==
  Released(r, StopTarget(r), 0, StopTarget(r) = "failed" /\ r.failure)

\* The readers of t that are waiting for their compareAndSet.
Waiting(t) ==
  {x \in {"execute"} : \E e \in Epochs : att[t][e].pc = "reserved"}
    \cup {p \in Calls : calls[t][p].op # "none"}

\* An applied compareAndSet.
Commit(t, r) ==
  /\ rec' = [rec EXCEPT ![t] = r]
  /\ stale' = stale \cup ({t} \X Waiting(t))

NoCommit == UNCHANGED <<rec, stale>>

\* Puts that outlived their child.
LatePuts == {x \in Tasks \X Epochs : child[x[1]][x[2]].late}

FaultsLeft == failures + Cardinality(LatePuts) < MaxFaults

\* One adapter call may be rejected, as long as faults are left.
Fail ==
  /\ FaultsLeft
  /\ failures' = failures + 1

-----------------------------------------------------------------------------
(* The capacity table *)

Occupied == Cardinality({t \in Tasks : slots[t].id # 0})

\* Mutant: off by one.
CanReserve_OneMore(t) == slots[t].id # 0 \/ Occupied <= MaxConcurrency

CanReserve(t) == slots[t].id # 0 \/ Occupied < MaxConcurrency

\* reserve: the slot the task already has, else a new one.
ReservedSlot(t, e) ==
  IF slots[t].id # 0 THEN slots[t] ELSE [id |-> e, child |-> 0]

Reserve(t, e) == slots' = [slots EXCEPT ![t] = ReservedSlot(t, e)]

\* bindChild throws on an unknown slot and on one that owns another child.
CanBindChild(t, id, e) == slots[t].id = id /\ slots[t].child \in {0, e}

BindChild(t, e) == slots' = [slots EXCEPT ![t] = [@ EXCEPT !.child = e]]

\* releaseUnstarted: returns on an unknown slot, throws on a bound one.
ReleaseThrows(t, id) == slots[t].id = id /\ slots[t].child # 0

\* Mutant: the slot of a launch that did not happen is kept.
ReleaseUnstarted_Never(t, id) == UNCHANGED slots

ReleaseUnstarted(t, id) ==
  slots' = [slots EXCEPT ![t] =
              IF @.id = id /\ @.child = 0 THEN NoSlot ELSE @]

\* observeTermination: returns on an unknown slot, throws on another's child.
ObserveThrows(t, id, e) == slots[t].id = id /\ slots[t].child # e

ObserveTermination(t, id, e) ==
  slots' = [slots EXCEPT ![t] =
              IF @.id = id /\ @.child = e THEN NoSlot ELSE @]

-----------------------------------------------------------------------------
(* The supervisor *)

\* requestTermination on the child of attempt e.
AskChild(t, e) == PutAt(child, t, e, [child[t][e] EXCEPT !.stop = TRUE])

\* Mutant: a child that is bound after the stop was recorded is not asked.
Asked_BoundBefore(t, r) ==
  IF r.exec # 0 /\ rec[t].bound /\ r.stop /\ child[t][r.exec].st = "alive"
  THEN AskChild(t, r.exec) ELSE child

\* #requestTerminationIfNeeded(r): nothing without a bound child and a
\* recorded reason; the call itself may be rejected.
Asked(t, r) ==
  IF r.exec # 0 /\ r.bound /\ r.stop /\ child[t][r.exec].st = "alive"
  THEN AskChild(t, r.exec) ELSE child

RequestTermination(t, r) ==
  \/ child' = Asked(t, r) /\ UNCHANGED failures
  \/ r.bound /\ r.stop /\ Fail /\ UNCHANGED child

\* spawn() resolves with a child.
SpawnResolves(t, e) ==
  /\ child[t][e].st = "spawning"
  /\ child' = PutAt(child, t, e, [child[t][e] EXCEPT !.st = "alive"])
  /\ UNCHANGED <<now, rec, slots, att, watch, objects, erase, calls, stale,
                 failures>>

\* spawn() rejects: the certificate that no child exists.
SpawnRejects(t, e) ==
  /\ child[t][e].st = "spawning"
  /\ child' = PutAt(child, t, e, [child[t][e] EXCEPT !.st = "rejected"])
  /\ UNCHANGED <<now, rec, slots, att, watch, objects, erase, calls, stale,
                 failures>>

\* The child sends its result and the session adapter stores it, before the
\* child asks for publication.
PutResult(t, e) ==
  /\ child[t][e].st = "alive"
  /\ <<t, e>> \notin objects
  /\ objects' = objects \cup {<<t, e>>}
  /\ UNCHANGED <<now, rec, slots, att, child, watch, erase, calls, stale,
                 failures>>

\* The child's termination promise resolves: exit 0 or anything else.
ChildExits(t, e) ==
  /\ child[t][e].st = "alive"
  /\ \E ok \in BOOLEAN :
       child' = PutAt(child, t, e, [child[t][e] EXCEPT !.st = "exited",
                                                       !.ok = ok, !.at = now])
  /\ UNCHANGED <<now, rec, slots, att, watch, objects, erase, calls, stale,
                 failures>>

\* A put that was in flight when its child ended takes effect: the end of a
\* child neither awaits nor cancels it, the adapter looks at the session only
\* after it, and the store does not ask who puts.  There is at most one per
\* child; one that finds the object present changes nothing.
LatePut(t, e) ==
  /\ child[t][e].st = "exited" /\ ~child[t][e].late
  /\ FaultsLeft
  /\ <<t, e>> \notin objects
  /\ objects' = objects \cup {<<t, e>>}
  /\ child' = PutAt(child, t, e, [child[t][e] EXCEPT !.late = TRUE])
  /\ UNCHANGED <<now, rec, slots, att, watch, erase, calls, stale, failures>>

-----------------------------------------------------------------------------
(* Create, claim, heartbeat and publish *)

\* createTask on an unused identifier.  A replay returns the stored record.
\* (The request object and racing creates are modelled in RequestObjects.)
Create(t, q) ==
  /\ rec[t].state = "absent"
  /\ q.deadline > now
  /\ Commit(t, [NoRecord EXCEPT !.state = "queued", !.deadline = q.deadline,
                                !.ttl = q.ttl])
  /\ UNCHANGED <<now, slots, att, child, watch, objects, erase, calls,
                 failures>>

\* claimTask.  The sweepTask it starts with is an occurrence of Sweep: on a
\* queued record that is still claimable it changes nothing.
Claim(t, d) ==
  LET r == rec[t] IN
  /\ r.state = "queued"
  /\ ~TtlExpired(r, now) /\ ~DeadlineExpired(r, now)
  /\ r.epoch < MaxEpoch
  /\ Commit(t, [r EXCEPT !.state = "leased", !.epoch = @ + 1,
                         !.lease = LeaseExpiry(r, now, d),
                         !.failure = FALSE, !.pending = "none"])
  /\ UNCHANGED <<now, slots, att, child, watch, objects, erase, calls,
                 failures>>

\* heartbeatLease up to its compareAndSet: the clock is read here.
HeartbeatRead(t, p, e, d) ==
  /\ calls[t][p].op = "none"
  /\ LeaseActive(rec[t], e)
  /\ rec[t].state \in {"leased", "starting", "running"}
  /\ calls' = PutAt(calls, t, p, [op |-> "heartbeat", key |-> 0,
                                  until |-> LeaseExpiry(rec[t], now, d)])
  /\ UNCHANGED <<now, rec, slots, att, child, watch, objects, erase, stale,
                 failures>>

HeartbeatCommit(t, p) ==
  /\ calls[t][p].op = "heartbeat"
  /\ <<t, p>> \notin stale
  /\ rec' = [rec EXCEPT ![t] = [@ EXCEPT !.lease = calls[t][p].until]]
  /\ stale' = stale \cup ({t} \X (Waiting(t) \ {p}))
  /\ calls' = PutAt(calls, t, p, NoCall)
  /\ UNCHANGED <<now, slots, att, child, watch, objects, erase, failures>>

\* publishResult up to its compareAndSet: token of epoch e, object of epoch k.
PublishRead(t, p, e, k) ==
  /\ calls[t][p].op = "none"
  /\ LeaseActive(rec[t], e)
  /\ rec[t].state = "running" /\ rec[t].exec # 0
  /\ rec[t].exec = k
  /\ rec[t].result = 0
  /\ <<t, k>> \in objects
  /\ calls' = PutAt(calls, t, p, [op |-> "publish", key |-> k, until |-> 0])
  /\ UNCHANGED <<now, rec, slots, att, child, watch, objects, erase, stale,
                 failures>>

PublishCommit(t, p) ==
  /\ calls[t][p].op = "publish"
  /\ <<t, p>> \notin stale
  /\ rec' = [rec EXCEPT ![t] = [@ EXCEPT !.result = calls[t][p].key]]
  /\ stale' = stale \cup ({t} \X (Waiting(t) \ {p}))
  /\ calls' = PutAt(calls, t, p, NoCall)
  /\ UNCHANGED <<now, slots, att, child, watch, objects, erase, failures>>

\* compareAndSet was not applied: the loop reads the record again.
CallOvertaken(t, p) ==
  /\ <<t, p>> \in stale
  /\ calls' = PutAt(calls, t, p, NoCall)
  /\ stale' = stale \ {<<t, p>>}
  /\ UNCHANGED <<now, rec, slots, att, child, watch, objects, erase, failures>>

-----------------------------------------------------------------------------
(* executeTask and the launch race *)

SetAttempt(t, e, pc) == att' = PutAt(att, t, e, [att[t][e] EXCEPT !.pc = pc])

\* #executeOperations: one executeTask per task is under way at a time.
Executing(t) ==
  \E e \in Epochs : att[t][e].pc \notin {"none", "late", "done"}
                      /\ ~att[t][e].late

\* #executeTaskInternal up to its compareAndSet.  The sweep it starts with
\* changes nothing on a record whose lease is active.
ExecuteReserve(t, e) ==
  LET r == rec[t] IN
  /\ ~Executing(t)
  /\ LeaseActive(r, e)
  /\ r.state = "leased"
  /\ CanReserve(t)
  /\ Reserve(t, e)
  /\ att' = PutAt(att, t, e,
               [pc |-> "reserved", late |-> FALSE,
                slot |-> ReservedSlot(t, e).id,
                until |-> Earliest(LeaseExpiry(r, now, MaxLaunch), r.lease)])
  /\ UNCHANGED <<now, rec, child, watch, objects, erase, calls, stale,
                 failures>>

\* The record of a task whose attempt e has reserved its slot.
StartingOwning(r, e, owned) ==
  [Released(r, "starting", 0, FALSE) EXCEPT !.lease = r.lease, !.exec = e,
                                            !.owned = owned]

\* Mutant: the attempt's result key is not added to the owned keys.
StartingRecord_Unowned(r, e) == StartingOwning(r, e, r.owned)

StartingRecord(r, e) == StartingOwning(r, e, r.owned \cup {e})

\* The write is applied and #raceProcessLaunch calls spawn().
ExecuteCommit(t, e) ==
  /\ att[t][e].pc = "reserved"
  /\ <<t, "execute">> \notin stale
  /\ rec' = [rec EXCEPT ![t] = StartingRecord(@, e)]
  /\ stale' = stale \cup ({t} \X (Waiting(t) \ {"execute"}))
  /\ SetAttempt(t, e, "racing")
  /\ child' = PutAt(child, t, e, [child[t][e] EXCEPT !.st = "spawning"])
  /\ UNCHANGED <<now, slots, watch, objects, erase, calls, failures>>

\* The write is not applied: the slot goes back and the loop starts again.
ExecuteOvertaken(t, e) ==
  /\ att[t][e].pc = "reserved"
  /\ <<t, "execute">> \in stale
  /\ stale' = stale \ {<<t, "execute">>}
  /\ ReleaseUnstarted(t, att[t][e].slot)
  /\ att' = PutAt(att, t, e, NoAttempt)
  /\ UNCHANGED <<now, rec, child, watch, objects, erase, calls, failures>>

\* Mutant: a launch that timed out gives its slot back at once.
LaunchDeadline_FreesSlot(t, e) ==
  /\ att[t][e].pc = "racing"
  /\ child[t][e].st = "spawning"
  /\ now >= att[t][e].until
  /\ SetAttempt(t, e, "deadline")
  /\ ReleaseUnstarted(t, att[t][e].slot)
  /\ UNCHANGED <<now, rec, child, watch, objects, erase, calls, stale, failures>>

\* The launch timer fires first and the controller aborts the launch.
LaunchDeadline(t, e) ==
  /\ att[t][e].pc = "racing"
  /\ child[t][e].st = "spawning"
  /\ now >= att[t][e].until
  /\ SetAttempt(t, e, "deadline")
  /\ UNCHANGED <<now, rec, slots, child, watch, objects, erase, calls, stale,
                 failures>>

\* #markProcessLaunchTimedOut, after which the late settlement is awaited.
MarkLaunchTimedOut(t, e) ==
  LET r == rec[t] IN
  /\ att[t][e].pc = "deadline"
  /\ IF r.exec = e /\ r.state = "starting"
     THEN Commit(t, [Stopping(r, "failed") EXCEPT !.failure = TRUE,
                                                  !.result = 0])
     ELSE NoCommit
  /\ att' = PutAt(att, t, e, [att[t][e] EXCEPT !.pc = "late", !.late = TRUE])
  /\ UNCHANGED <<now, slots, child, watch, objects, erase, calls, failures>>

SetWatch(t, e, pc) ==
  watch' = PutAt(watch, t, e, [watch[t][e] EXCEPT !.pc = pc])

\* spawn() won the race: the child is bound to the slot, then its termination
\* is tracked.  A throw of bindChild ends executeTask before the tracking.
Launched(t, e) ==
  /\ att[t][e].pc = "racing"
  /\ child[t][e].st \in {"alive", "exited"}
  /\ IF CanBindChild(t, att[t][e].slot, e)
     THEN BindChild(t, e) /\ SetWatch(t, e, "tracked") /\ SetAttempt(t, e, "binding")
     ELSE SetAttempt(t, e, "done") /\ UNCHANGED <<slots, watch>>
  /\ UNCHANGED <<now, rec, child, objects, erase, calls, stale, failures>>

\* #handleLateProcessLaunch with a child: it is tracked first, then bound.
LateLaunched(t, e) ==
  /\ att[t][e].pc = "late"
  /\ child[t][e].st \in {"alive", "exited"}
  /\ SetWatch(t, e, "tracked")
  /\ IF CanBindChild(t, att[t][e].slot, e)
     THEN BindChild(t, e) /\ SetAttempt(t, e, "binding")
     ELSE SetAttempt(t, e, "done") /\ UNCHANGED slots
  /\ UNCHANGED <<now, rec, child, objects, erase, calls, stale, failures>>

\* spawn() rejected, in time or late: the unbound slot is released.
LaunchRejected(t, e) ==
  /\ att[t][e].pc \in {"racing", "late"}
  /\ child[t][e].st = "rejected"
  /\ ReleaseUnstarted(t, att[t][e].slot)
  /\ SetAttempt(t, e,
       IF ReleaseThrows(t, att[t][e].slot) THEN "done" ELSE "startFailed")
  /\ UNCHANGED <<now, rec, child, watch, objects, erase, calls, stale,
                 failures>>

\* Start #completeDeletion, unless the job's owner asked to defer it.
StartErase(t) ==
  erase' = IF DeferDeletion \/ erase[t] # "idle" THEN erase
           ELSE [erase EXCEPT ![t] = "erasing"]

\* #markProcessStartFailed.
StartFailed(t, e) ==
  LET r == rec[t] IN
  /\ att[t][e].pc = "startFailed"
  /\ \/ /\ r.exec = e /\ r.state = "cancelling"
        /\ Commit(t, Stopped(r))
        /\ IF StopTarget(r) = "deleting" THEN StartErase(t)
                                         ELSE UNCHANGED erase
     \/ /\ r.exec = e /\ r.state = "starting"
        /\ Commit(t, Released(r, "failed", 0, TRUE))
        /\ UNCHANGED erase
     \/ /\ ~(r.exec = e /\ r.state \in {"cancelling", "starting"})
        /\ NoCommit /\ UNCHANGED erase
  /\ SetAttempt(t, e, "done")
  /\ UNCHANGED <<now, slots, child, watch, objects, calls, failures>>

\* #bindStartedChild and the termination request that follows it: for the
\* recorded reason, or "orchestration_failure" when the attempt is gone.
BindStarted(t, e) ==
  LET r == rec[t]
      b == [r EXCEPT !.bound = TRUE,
                     !.state = IF @ = "starting" THEN "running" ELSE @]
  IN
  /\ att[t][e].pc = "binding"
  /\ IF r.exec = e
     THEN Commit(t, b) /\ RequestTermination(t, b)
     ELSE /\ NoCommit
          /\ RequestTermination(t, [r EXCEPT !.exec = e, !.bound = TRUE,
                                             !.stop = TRUE])
  /\ SetAttempt(t, e, "done")
  /\ UNCHANGED <<now, slots, watch, objects, erase, calls>>

-----------------------------------------------------------------------------
(* #handleObservedTermination *)

\* The record a termination leaves on a job that was not being stopped.
Finalized(r, x) ==
  IF TtlExpired(r, x.at) \/ DeadlineExpired(r, x.at) \/ LeaseExpired(r, x.at)
  THEN Released(r, TemporalOutcome(r, x.at), 0, FALSE)
  ELSE IF x.ok /\ r.result # 0
  THEN Released(r, "succeeded", r.result, FALSE)
  ELSE Released(r, "failed", 0, TRUE)

\* The record is finalized; the reply has not reached the handler yet.  A
\* record whose execution is another attempt's is left alone.
Finalize(t, e) ==
  LET r == rec[t]
      f == IF r.state = "cancelling"
           THEN [Stopped(r) EXCEPT !.deletion = @ \/ StopTarget(r) = "deleting"]
           ELSE Finalized(r, child[t][e])
      mine == r.exec = e /\ r.state \in ProcessOwningStates
  IN
  /\ watch[t][e].pc = "tracked"
  /\ child[t][e].st = "exited"
  /\ IF mine THEN Commit(t, f) ELSE NoCommit
  /\ watch' = PutAt(watch, t, e,
                 [pc |-> "finalized",
                  drop |-> ~(mine /\ f.state = "succeeded"),
                  deleting |-> (IF mine THEN f ELSE r).state = "deleting"])
  /\ UNCHANGED <<now, slots, att, child, objects, erase, calls, failures>>

\* The reply arrives: the termination is observed and the slot given back.
FinalizeReply(t, e) ==
  LET id == att[t][e].slot IN
  /\ watch[t][e].pc = "finalized"
  /\ ObserveTermination(t, id, e)
  /\ SetWatch(t, e, IF ObserveThrows(t, id, e) THEN "done" ELSE "cleanup")
  /\ UNCHANGED <<now, rec, att, child, objects, erase, calls, stale, failures>>

\* Mutant: the result object is dropped after a success, too.
Cleanup_DropsAlways(t, e) ==
  /\ watch[t][e].pc = "cleanup"
  /\ objects' = objects \ {<<t, e>>}
  /\ IF watch[t][e].deleting THEN StartErase(t) ELSE UNCHANGED erase
  /\ watch' = PutAt(watch, t, e, WatchDone)
  /\ UNCHANGED <<now, rec, slots, att, child, calls, stale, failures>>

\* The attempt's result object is dropped unless the job succeeded with it.
Cleanup(t, e) ==
  /\ watch[t][e].pc = "cleanup"
  /\ objects' = IF watch[t][e].drop THEN objects \ {<<t, e>>} ELSE objects
  /\ IF watch[t][e].deleting THEN StartErase(t) ELSE UNCHANGED erase
  /\ watch' = PutAt(watch, t, e, WatchDone)
  /\ UNCHANGED <<now, rec, slots, att, child, calls, stale, failures>>

-----------------------------------------------------------------------------
(* Cancel, delete and sweep *)

Cancel(t) ==
  LET r == rec[t]
      stopping == Stopping(r, "cancelled")
  IN
  /\ \/ /\ r.state \in {"queued", "leased"}
        /\ Commit(t, Released(r, "cancelled", 0, FALSE))
        /\ UNCHANGED <<child, failures>>
     \/ /\ r.state = "cancelling" /\ r.pending \in {"deleted", "cancelled"}
        /\ NoCommit
        /\ RequestTermination(t, r)
     \/ /\ r.state \in ProcessOwningStates
        /\ r.pending \notin {"deleted", "cancelled"}
        /\ Commit(t, stopping)
        /\ RequestTermination(t, stopping)
  /\ UNCHANGED <<now, slots, att, watch, objects, erase, calls>>

\* deleteTask on a job that owns no process: the record turns to deleting and
\* #completeDeletion starts in the same call, deferred or not.
DeleteIdle(t) ==
  LET r == rec[t] IN
  /\ r.state \notin ProcessOwningStates \cup {"absent", "deleting", "deleted"}
  /\ Commit(t, [Released(r, "deleting", 0, FALSE) EXCEPT !.deletion = TRUE])
  /\ erase' = [erase EXCEPT ![t] = "erasing"]
  /\ UNCHANGED <<now, slots, att, child, watch, objects, calls, failures>>

\* deleteTask on a job that owns a process: the intent is recorded and the
\* process is asked to stop.
DeleteOwning(t) ==
  LET r == rec[t]
      stopping == [Stopping(r, "deleted") EXCEPT !.deletion = TRUE]
  IN
  /\ r.state \in ProcessOwningStates /\ r.exec # 0
  /\ IF r.state = "cancelling" /\ r.pending = "deleted" /\ r.deletion
     THEN NoCommit /\ RequestTermination(t, r)
     ELSE Commit(t, stopping) /\ RequestTermination(t, stopping)
  /\ UNCHANGED <<now, slots, att, watch, objects, erase, calls>>

\* deleteTask on a deleting job completes the deletion.
DeleteAgain(t) ==
  /\ rec[t].state = "deleting"
  /\ erase[t] = "idle"
  /\ erase' = [erase EXCEPT ![t] = "erasing"]
  /\ UNCHANGED <<now, rec, slots, att, child, watch, objects, calls, stale,
                 failures>>

\* #completeDeletion deletes every owned result object ...
EraseObjects(t) ==
  /\ erase[t] = "erasing"
  /\ objects' = objects \ ({t} \X rec[t].owned)
  /\ erase' = [erase EXCEPT ![t] =
                 IF rec[t].state = "deleting" THEN "verifying" ELSE "idle"]
  /\ UNCHANGED <<now, rec, slots, att, child, watch, calls, stale, failures>>

\* ... then checks that each is absent and writes the tombstone.
CompleteDeletion(t) ==
  /\ erase[t] = "verifying"
  /\ IF objects \cap ({t} \X rec[t].owned) = {}
     THEN Commit(t, Released(rec[t], "deleted", 0, FALSE))
     ELSE NoCommit
  /\ erase' = [erase EXCEPT ![t] = "idle"]
  /\ UNCHANGED <<now, slots, att, child, watch, objects, calls, failures>>

\* sweepTask on a cancelling job: a stop nobody chose follows the clock.
SweepCancelling(t) ==
  LET r == rec[t]
      desired == IF TtlExpired(r, now) \/ DeadlineExpired(r, now)
                 THEN TemporalOutcome(r, now)
                 ELSE IF r.pending = "none" THEN "queued" ELSE r.pending
  IN
  /\ r.state = "cancelling"
  /\ IF r.pending \in {"deleted", "cancelled", "failed", desired}
     THEN NoCommit /\ RequestTermination(t, r)
     ELSE /\ Commit(t, [r EXCEPT !.pending = desired])
          /\ UNCHANGED <<child, failures>>
  /\ UNCHANGED <<now, slots, att, watch, objects, erase, calls>>

\* sweepTask on a job with a process: the process is asked to stop.
SweepOwning(t) ==
  LET stopping == Stopping(rec[t], TemporalOutcome(rec[t], now)) IN
  /\ rec[t].state \in {"starting", "running"}
  /\ Commit(t, stopping)
  /\ RequestTermination(t, stopping)
  /\ UNCHANGED <<now, slots, att, watch, objects, erase, calls>>

\* sweepTask on any other job.
SweepIdle(t) ==
  LET r == rec[t] IN
  /\ \/ /\ TtlExpired(r, now)
        /\ r.state \notin ProcessOwningStates \cup {"expired"}
        /\ Commit(t, Released(r, "expired", r.result, FALSE))
     \/ /\ ~TtlExpired(r, now) /\ DeadlineExpired(r, now)
        /\ r.state \in {"queued", "leased"}
        /\ Commit(t, Released(r, "timed_out", 0, FALSE))
     \/ /\ ~TtlExpired(r, now) /\ ~DeadlineExpired(r, now)
        /\ r.state = "leased"
        /\ Commit(t, [r EXCEPT !.state = "queued", !.lease = 0])
  /\ UNCHANGED <<now, slots, att, child, watch, objects, erase, calls,
                 failures>>

\* Mutant: only leases are looked at.
Sweep_LeasesOnly(t) ==
  /\ rec[t].state \notin {"absent", "deleting", "deleted"}
  /\ LeaseExpired(rec[t], now)
  /\ SweepCancelling(t) \/ SweepOwning(t) \/ SweepIdle(t)

\* sweepTask: nothing before a lease, a deadline or a TTL has run out.
Sweep(t) ==
  /\ rec[t].state \notin {"absent", "deleting", "deleted"}
  /\ TtlExpired(rec[t], now) \/ DeadlineExpired(rec[t], now)
       \/ LeaseExpired(rec[t], now)
  /\ SweepCancelling(t) \/ SweepOwning(t) \/ SweepIdle(t)

-----------------------------------------------------------------------------
(* Rejected adapter calls *)

\* The repository rejects the call an attempt's continuation is waiting for.
\* The continuation ends there; what it reserved stays reserved, and a child
\* that could not be bound is asked to stop.
AttemptRejected(t, e) ==
  /\ att[t][e].pc \in {"reserved", "deadline", "startFailed", "binding"}
  /\ Fail
  /\ SetAttempt(t, e, "done")
  /\ child' = IF att[t][e].pc = "binding" /\ child[t][e].st = "alive"
              THEN AskChild(t, e) ELSE child
  /\ stale' = IF att[t][e].pc = "reserved" THEN stale \ {<<t, "execute">>}
                                           ELSE stale
  /\ UNCHANGED <<now, rec, slots, watch, objects, erase, calls>>

\* The write that starts an attempt is applied but its reply is lost.
StartReplyLost(t, e) ==
  /\ att[t][e].pc = "reserved"
  /\ <<t, "execute">> \notin stale
  /\ Fail
  /\ rec' = [rec EXCEPT ![t] = StartingRecord(@, e)]
  /\ stale' = stale \cup ({t} \X (Waiting(t) \ {"execute"}))
  /\ SetAttempt(t, e, "done")
  /\ UNCHANGED <<now, slots, child, watch, objects, erase, calls>>

\* A call of the termination handler is rejected: the slot stays occupied
\* unless it was already given back.
WatchRejected(t, e) ==
  /\ watch[t][e].pc \in {"tracked", "finalized", "cleanup"}
  /\ child[t][e].st = "exited"
  /\ Fail
  /\ watch' = PutAt(watch, t, e, WatchDone)
  /\ UNCHANGED <<now, rec, slots, att, child, objects, erase, calls, stale>>

\* #completeDeletion fails; a later deleteTask starts it again.
EraseRejected(t) ==
  /\ erase[t] # "idle"
  /\ Fail
  /\ erase' = [erase EXCEPT ![t] = "idle"]
  /\ UNCHANGED <<now, rec, slots, att, child, watch, objects, calls, stale>>

-----------------------------------------------------------------------------
Tick ==
  /\ now < MaxTime
  /\ now' = now + 1
  /\ UNCHANGED <<rec, slots, att, child, watch, objects, erase, calls, stale,
                 failures>>

\* Either replies may be delayed, or no handler is waiting for one.
Prompt ==
  DelayedReplies \/ \A t \in Tasks, e \in Epochs : watch[t][e].pc # "finalized"

Requested(t) ==
  \/ \E q \in Requests : Create(t, q)
  \/ \E d \in LeaseDurations : Claim(t, d)
  \/ Cancel(t) \/ DeleteIdle(t) \/ DeleteOwning(t) \/ DeleteAgain(t)
  \/ \E p \in Calls, e \in Epochs :
        \/ \E d \in LeaseDurations : HeartbeatRead(t, p, e, d)
        \/ \E k \in Epochs : PublishRead(t, p, e, k)

Continuation(t) ==
  \/ EraseObjects(t) \/ CompleteDeletion(t)
  \/ \E p \in Calls : \/ HeartbeatCommit(t, p)
                      \/ PublishCommit(t, p)
                      \/ CallOvertaken(t, p)

Execution(t, e) ==
  \/ ExecuteReserve(t, e) \/ ExecuteCommit(t, e) \/ ExecuteOvertaken(t, e)
  \/ LaunchDeadline(t, e) \/ MarkLaunchTimedOut(t, e)
  \/ Launched(t, e) \/ LateLaunched(t, e) \/ LaunchRejected(t, e)
  \/ StartFailed(t, e) \/ BindStarted(t, e)
  \/ Finalize(t, e) \/ Cleanup(t, e)

Supervisor(t, e) ==
  \/ SpawnResolves(t, e) \/ SpawnRejects(t, e)
  \/ PutResult(t, e) \/ ChildExits(t, e) \/ LatePut(t, e)

Rejection(t, e) ==
  \/ AttemptRejected(t, e) \/ StartReplyLost(t, e)

Step ==
  \/ Tick
  \/ \E t \in Tasks :
       \/ Requested(t) \/ Continuation(t) \/ Sweep(t) \/ EraseRejected(t)
       \/ \E e \in Epochs : \/ Execution(t, e)
                            \/ Supervisor(t, e)
                            \/ Rejection(t, e)

Next ==
  \/ Prompt /\ Step
  \/ \E t \in Tasks, e \in Epochs : FinalizeReply(t, e) \/ WatchRejected(t, e)

Spec == Init /\ [][Next]_vars

=============================================================================
