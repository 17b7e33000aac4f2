--------------------------- MODULE LeaseProperties ---------------------------
(***************************************************************************)
(* What leases, fences and quarantine are for: the promises of the README   *)
(* of packages/compute-service-persistent and of                            *)
(* docs/architecture/persistent-compute-service-v1.md, over the states of   *)
(* module LeaseCoordination.                                                *)
(***************************************************************************)
EXTENDS LeaseCoordination

\* Slots and jobs agree.  A held slot and the claim columns of its job name each
\* other, with equal fences, or with the slot one ahead once the claim is
\* quarantined.  A process, supervised or orphaned, has a slot that is still its
\* own: held by its task's latest attempt, quarantined or not.  So a task never
\* has two processes, on whatever machines, and the processes of all workers
\* together never exceed the configured slots, whoever crashed.
SlotsMatchClaims ==
  /\ \A s \in Slots : Held(s) =>
       LET r == job[slot[s].task] IN
       /\ r.slot = s /\ r.epoch = slot[s].epoch
       /\ slot[s].fence = r.fence + (IF slot[s].quarantined THEN 1 ELSE 0)
  /\ \A t \in Tasks : job[t].slot # 0 => slot[job[t].slot].task = t
  /\ \A t \in Tasks, e \in Epochs : Live(t, e) =>
       /\ job[t].exec /\ job[t].epoch = e
       /\ \E s \in Slots : slot[s].task = t /\ slot[s].epoch = e

\* While a claim is quarantined nobody changes its job: only the observation
\* of the termination does, in the step that frees the slot.
QuarantineFreezesJob ==
  [][\A s \in Slots :
       slot[s].quarantined /\ slot'[s].quarantined
         => job'[slot[s].task] = job[slot[s].task]]_vars

\* A result is published only by the attempt that holds a slot, never by one
\* whose claim was replaced or isolated (docs: an expired or replaced lease
\* cannot publish a result).
PublishedByHolder ==
  [][\A t \in Tasks :
       ~job[t].result /\ job'[t].result =>
         \E s \in Slots : /\ slot[s].task = t /\ slot[s].epoch = job[t].epoch
                          /\ slot[s].fence = job[t].fence]_vars

-----------------------------------------------------------------------------
(* The workers together implement the abstract job service *)

Phase(state) ==
  CASE state = "absent" -> "absent"
    [] state \in {"queued", "leased"} -> "waiting"
    [] state \in ProcessOwningStates -> "owned"
    [] state = "deleting" -> "removing"
    [] state = "deleted" -> "removed"
    [] OTHER -> "settled"

PhaseOf == [t \in Tasks |-> Phase(job[t].state)]
WorkingOf == [t \in Tasks |-> \E e \in Epochs : Live(t, e)]
AnsweredOf ==
  [t \in Tasks |-> job[t].state \in {"succeeded", "expired"} /\ job[t].result]

Abstract ==
  INSTANCE ComputeJobs WITH Jobs <- Tasks, Limit <- MaxSlots,
                            phase <- PhaseOf, working <- WorkingOf,
                            answered <- AnsweredOf

\* Several workers that crash and recover each other's claims are, to the
\* submitter of a job, the same service as one process is: no second process
\* for a job, no more processes than slots, no withdrawn answer.
ImplementsComputeJobs == Abstract!Spec

-----------------------------------------------------------------------------
(* Liveness *)

\* Workers that are up run their loop, a crashed one is restarted, the sweeper
\* runs and time passes.  Spawns settle and an asked process exits.  A worker
\* begins a tick only while it is ready, and nobody has to make it so: nobody has
\* to call the API, publish, crash, configure a capacity or report the end of an
\* orphan.
Fairness ==
  /\ WF_vars(Tick)
  /\ \A w \in Workers :
       /\ WF_vars(Restart(w))
       /\ WF_vars(ChecksReady(w))
       /\ WF_vars(RecoverExpiredClaims(w) \/ RecoveryFails(w))
       /\ WF_vars(ClaimNothing(w) \/ \E t \in Tasks : ClaimNext(w, t))
       /\ WF_vars(ExecuteStart(w) \/ ExecuteRefused(w))
       /\ WF_vars(WatchSweep(w)) /\ WF_vars(WatchStop(w))
       /\ WF_vars(WatchFinal(w)) /\ WF_vars(WatchDeleting(w)) /\ WF_vars(EndTick(w))
  /\ \A t \in Tasks :
       /\ WF_vars(TemporalSweep(t))
       /\ \A e \in Epochs :
            /\ WF_vars(Spawned(t, e) \/ SpawnFails(t, e))
            /\ WF_vars(LaunchRejected(t, e))
            /\ WF_vars(child[t][e].stop /\ ChildExits(t, e))
            /\ WF_vars(Finalize(t, e))

FairSpec == Spec /\ Fairness

\* The operator does not leave the workers unready for ever: what is quarantined
\* is reconciled, and a capacity other than theirs is taken back.
StaysReady == <>[]Ready

\* README: an expired attempt is fenced and requeued or reaches a terminal
\* outcome; worker.ts: a slot is retained until restart recovery.  If the workers
\* end up ready, a slot that is held is freed or quarantined in the end.
SlotIsRecovered ==
  StaysReady => \A s \in Slots : Held(s) ~> ~Held(s) \/ slot[s].quarantined

\* The same, unless recovery has met a claim it refuses to recover.
SlotIsRecoveredOrRefused ==
  StaysReady =>
    \A s \in Slots :
      Held(s) ~> \/ ~Held(s) \/ slot[s].quarantined
                 \/ ExpiredClaim(s) /\ RecoveryConflict(s)

\* If the workers end up ready, a job that owns a process gives it up or is
\* quarantined, crashes or not.
ProcessIsGivenUpOrIsolated ==
  StaysReady =>
    \A t \in Tasks :
      job[t].state \in ProcessOwningStates
        ~> \/ job[t].state \notin ProcessOwningStates
           \/ \E s \in Slots : slot[s].task = t /\ slot[s].quarantined

\* Deletions complete, also when the worker dies before it deletes the task.
DeletionCompletes ==
  \A t \in Tasks : job[t].state = "deleting" ~> job[t].state = "deleted"
=============================================================================
