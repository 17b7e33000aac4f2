--------------------------- MODULE CoreProperties ---------------------------
(***************************************************************************)
(* What ComputeServiceCore promises: the claims of its README and of        *)
(* docs/architecture/persistent-compute-service-v1.md, and what its callers *)
(* rely on, over the states of module ComputeServiceCore.                   *)
(***************************************************************************)
EXTENDS ComputeServiceCore

Live(t, e) == child[t][e].st \in {"spawning", "alive"}

-----------------------------------------------------------------------------
(* Records *)

\* The optional fields of a record agree with its state, whatever operations
\* interleaved: a process-owning state has an execution attempt of the current
\* lease epoch and still its lease, leased has a lease and no attempt, every
\* other state neither; a pending outcome and a recorded stop exist exactly
\* while cancelling; a job cancelling towards deletion carries its intent; and
\* failed is the only resting state with a failure descriptor, and always has
\* one, although a launch timeout records it before the job is stopped and a
\* cancel, a deletion or the TTL may then take the job over.
RecordConsistent ==
  \A t \in Tasks :
    LET r == rec[t] IN
    /\ r.state \in ProcessOwningStates => r.exec = r.epoch /\ r.epoch # 0
    /\ r.state \notin ProcessOwningStates => r.exec = 0
    /\ r.lease # 0 <=> r.state \in ProcessOwningStates \cup {"leased"}
    /\ r.pending # "none" <=> r.state = "cancelling"
    /\ r.stop <=> r.state = "cancelling"
    /\ r.state = "starting" => ~r.bound
    /\ r.state = "running" => r.bound
    /\ r.deletion <=> r.pending = "deleted" \/ r.state \in {"deleting", "deleted"}
    /\ r.lease <= r.deadline
    /\ r.state = "failed" \/ r.pending = "failed" => r.failure
    /\ r.failure => r.state \in {"failed", "cancelling"}

-----------------------------------------------------------------------------
(* Processes and capacity *)

\* A child that is being launched or runs is the attempt its record names and
\* its job is starting, running or cancelling.  So a job is requeued, finished
\* or deleted only after its process was observed to be gone, and a task never
\* has two live children (README: requeued only after termination is observed).
LiveChildIsCurrentAttempt ==
  \A t \in Tasks, e \in Epochs :
    Live(t, e) => rec[t].exec = e /\ rec[t].state \in ProcessOwningStates

\* Every child that is being launched or runs occupies the slot its attempt
\* reserved (README: the slot is released only by the supervised child's
\* resolved termination observation), even after rejected adapter calls; and
\* unless one was rejected the slot is not bound to any other child.
LiveChildHoldsSlot ==
  \A t \in Tasks, e \in Epochs :
    Live(t, e) =>
      /\ slots[t].id # 0 /\ slots[t].id = att[t][e].slot
      /\ failures = 0 => slots[t].child \in {0, e}

\* There are never more processes than maxConcurrency, rejected adapter calls
\* and children that outlive their launch deadline included.
CapacityRespected ==
  /\ Occupied <= MaxConcurrency
  /\ Cardinality({x \in Tasks \X Epochs : Live(x[1], x[2])}) <= MaxConcurrency

\* No stop is lost.  While a job is cancelling and no adapter call has been
\* rejected, its live child has been asked to terminate, or the continuation
\* that will bind the child (and ask it then) has still to run; so a cancel
\* that comes before the child is bound reaches it all the same.
StopReachesChild ==
  failures = 0 =>
    \A t \in Tasks, e \in Epochs :
      rec[t].state = "cancelling" /\ rec[t].exec = e /\ child[t][e].st = "alive"
        => \/ child[t][e].stop
           \/ att[t][e].pc \in {"racing", "deadline", "late", "binding"}

-----------------------------------------------------------------------------
(* Results and deletion *)

\* Records and result objects agree.  A published result belongs to the latest
\* lease epoch, and its object is in the store for as long as the record names
\* it: the cleanup of an earlier or of the same attempt never removes what a
\* reader is about to fetch.  A succeeded job has one (README: normal process
\* exit finalizes success only when a published result exists).  Every object
\* is one that a deletion of the job will look for, whoever wrote it and
\* whenever.  No process of a deleted job is left, and an object of it can only
\* be one whose put was in flight when its child ended and landed after that.
ResultsMatchRecords ==
  \A t \in Tasks :
    /\ rec[t].result # 0 =>
         rec[t].result = rec[t].epoch /\ <<t, rec[t].result>> \in objects
    /\ rec[t].state = "succeeded" => rec[t].result # 0
    /\ \A e \in Epochs :
         /\ <<t, e>> \in objects => e \in rec[t].owned
         /\ rec[t].state = "deleted" =>
              ~Live(t, e) /\ (<<t, e>> \in objects => child[t][e].late)

FollowsTable(t) ==
  IF rec[t].state = "absent" THEN rec'[t].state \in {"absent", "queued"}
  ELSE TransitionAllowed(rec[t].state, rec'[t].state)

DeletionStands(t) ==
  rec[t].deletion =>
    /\ rec'[t].deletion
    /\ rec'[t].state \in {"cancelling", "deleting", "deleted"}

\* The history of a record: no operation, however late, attempts a transition
\* outside the table, in which case assertJobStateTransition would throw in
\* the middle of it; and once deletion is requested the job only moves
\* towards its tombstone, whatever stop, expiry or requeue was pending.
HistoryIsOrdered ==
  [][\A t \in Tasks : FollowsTable(t) /\ DeletionStands(t)]_vars

-----------------------------------------------------------------------------
(* The service implements ComputeJobs *)

Phase(state) ==
  CASE state = "absent" -> "absent"
    [] state \in {"queued", "leased"} -> "waiting"
    [] state \in ProcessOwningStates -> "owned"
    [] state = "deleting" -> "removing"
    [] state = "deleted" -> "removed"
    [] OTHER -> "settled"

PhaseOf == [t \in Tasks |-> Phase(rec[t].state)]

WorkingOf == [t \in Tasks |-> \E e \in Epochs : Live(t, e)]

AnsweredOf ==
  [t \in Tasks |-> rec[t].state \in {"succeeded", "expired"} /\ rec[t].result # 0]

Abstract ==
  INSTANCE ComputeJobs WITH Jobs <- Tasks, Limit <- MaxConcurrency,
                            phase <- PhaseOf, working <- WorkingOf,
                            answered <- AnsweredOf

\* Seen through its job states, its live children and its available results,
\* the service is the abstract job service: at most one process per job and
\* maxConcurrency in all, no job put back, settled or removed under a running
\* process, and no answer that is withdrawn before the job is removed.
ImplementsComputeJobs == Abstract!Spec

-----------------------------------------------------------------------------
(* Liveness *)

\* The service's own continuations run (the event loop), sweep() is called on
\* a schedule (README: callers must run sweep on a durable schedule) and time
\* passes.  The supervisor settles every spawn and a child that was asked to
\* stop exits (SIGTERM, then SIGKILL).  Nobody has to call the API.
Fairness ==
  /\ WF_vars(Prompt /\ Tick)
  /\ \A t \in Tasks :
       /\ WF_vars(Prompt /\ Sweep(t))
       /\ WF_vars(Prompt /\ EraseObjects(t))
       /\ WF_vars(Prompt /\ CompleteDeletion(t))
       /\ \A e \in Epochs :
            /\ WF_vars(Prompt /\ (ExecuteCommit(t, e) \/ ExecuteOvertaken(t, e)))
            /\ WF_vars(Prompt /\ LaunchDeadline(t, e))
            /\ WF_vars(Prompt /\ MarkLaunchTimedOut(t, e))
            /\ WF_vars(Prompt /\ (Launched(t, e) \/ LateLaunched(t, e)))
            /\ WF_vars(Prompt /\ LaunchRejected(t, e))
            /\ WF_vars(Prompt /\ StartFailed(t, e))
            /\ WF_vars(Prompt /\ BindStarted(t, e))
            /\ WF_vars(Prompt /\ Finalize(t, e))
            /\ WF_vars(FinalizeReply(t, e))
            /\ WF_vars(Prompt /\ Cleanup(t, e))
            /\ WF_vars(Prompt /\ (SpawnResolves(t, e) \/ SpawnRejects(t, e)))
            /\ WF_vars(Prompt /\ child[t][e].stop /\ ChildExits(t, e))

FairSpec == Spec /\ Fairness

\* A slot that was taken is given back, also when the launch timed out, was
\* rejected late or was overtaken by another write.
SlotIsGivenBack ==
  \A t \in Tasks : slots[t].id # 0 ~> slots[t].id = 0

\* Every job comes to rest: it is not worked on and not waiting for ever.
JobSettles ==
  \A t \in Tasks :
    rec[t].state # "absent" ~> rec[t].state \in TerminalStates
=============================================================================
