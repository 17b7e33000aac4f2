--------------------------- MODULE ProcessSupervisor ---------------------------
(***************************************************************************)
(* NodeComputeProcessSupervisor: one call of spawn, from the preparation of *)
(* its launch payload to the close of its child, with the abort signal and  *)
(* the deadline of the launch, the events of the Node child_process and the *)
(* messages of its IPC channel.  Supervisors share nothing between          *)
(* children.  What the child does, and what the session adapter does with   *)
(* its messages, is module ScientificSession.                               *)
(*                                                                          *)
(* An `error' event of a child that has a pid only comes from a kill that   *)
(* fails, when the child is already being terminated: it changes nothing.   *)
(* A signal that cannot be delivered is a child that does not react to it.  *)
(***************************************************************************)
EXTENDS Naturals, Sequences

CONSTANT MaxPending  \* MAX_PENDING_SESSION_MESSAGES

ASSUME PendingAssumption == MaxPending \in Nat \ {0}

VARIABLES
  launch,    \* preparing, prepared, pending (a record exists), resolved, rejected
  aborted,   \* the launch's abort signal
  expired,   \* the launch deadline has passed
  rec,       \* the ActiveChildRecord's flags
  process,   \* the operating system's process: none, unspawnable, live, ended
  exit,      \* how it ended: none, zero, nonzero (or by a signal)
  report,    \* the kind resolveTermination was called with
  toChild,   \* messages on their way to the child
  toParent,  \* messages on their way to the supervisor
  chain      \* sessionMessageChain: the messages whose handlers have not ended

supervisorVars ==
  <<launch, aborted, expired, rec, process, exit, report, toChild, toParent, chain>>

Messages == {"launch", "ready", "artifact", "publication", "failed",
             "artifact-ack", "publication-ack"}

\* failed: launchFailure is set; stopping: terminationRequested;
\* timer: the timer to SIGKILL is armed; quiet: the session is aborted.
NewRecord ==
  [spawned |-> FALSE, ready |-> FALSE, failed |-> FALSE, stopping |-> FALSE,
   timer |-> FALSE, quiet |-> FALSE, exitSeen |-> FALSE, closed |-> FALSE]

SupervisorTypeOK ==
  /\ launch \in {"preparing", "prepared", "pending", "resolved", "rejected"}
  /\ aborted \in BOOLEAN /\ expired \in BOOLEAN
  /\ rec \in [DOMAIN NewRecord -> BOOLEAN]
  /\ process \in {"none", "unspawnable", "live", "ended"}
  /\ exit \in {"none", "zero", "nonzero"}
  /\ report \in {"none", "completed", "terminated", "crashed"}
  /\ toChild \in Seq(Messages) /\ toParent \in Seq(Messages)
  /\ chain \in Seq(Messages) /\ Len(chain) <= MaxPending

SupervisorInit ==
  /\ launch = "preparing"
  /\ aborted = FALSE /\ expired = FALSE
  /\ rec = NewRecord
  /\ process = "none" /\ exit = "none" /\ report = "none"
  /\ toChild = <<>> /\ toParent = <<>> /\ chain = <<>>

Unsettled == launch \in {"preparing", "prepared", "pending"}

-----------------------------------------------------------------------------
(* Termination *)

\* Mutant: nothing follows a SIGTERM that the child ignores.
Terminated_NoKillTimer(r) ==
  IF r.closed \/ r.stopping THEN r
  ELSE IF r.exitSeen THEN [r EXCEPT !.quiet = TRUE]
  ELSE [r EXCEPT !.quiet = TRUE, !.stopping = TRUE]

\* #requestTermination: the session ends, SIGTERM is sent and the grace timer
\* armed, unless the exit was already observed.
Terminated(r) ==
  IF r.closed \/ r.stopping THEN r
  ELSE IF r.exitSeen THEN [r EXCEPT !.quiet = TRUE]
  ELSE [r EXCEPT !.quiet = TRUE, !.stopping = TRUE, !.timer = TRUE]

\* #failPendingLaunch
LaunchFailed(r) ==
  IF r.closed \/ r.ready \/ r.failed THEN r
  ELSE Terminated([r EXCEPT !.failed = TRUE])

\* The SIGKILL timer fires; the kernel ends the process.
GraceEnds ==
  /\ rec.timer
  /\ rec' = [rec EXCEPT !.timer = FALSE]
  /\ process' = IF process = "live" THEN "ended" ELSE process
  /\ exit' = IF process = "live" THEN "nonzero" ELSE exit
  /\ UNCHANGED <<launch, aborted, expired, report, toChild, toParent, chain>>

\* requestTermination of a returned child, by the core.
StopRequested ==
  /\ launch = "resolved"
  /\ rec' = Terminated(rec)
  /\ UNCHANGED <<launch, aborted, expired, process, exit, report,
                 toChild, toParent, chain>>

-----------------------------------------------------------------------------
(* Launch *)

\* Mutant: an aborted launch is rejected before its child has ended.
Abort_RejectsAtOnce ==
  /\ Unsettled /\ ~aborted
  /\ aborted' = TRUE
  /\ launch' = "rejected"
  /\ rec' = IF launch = "pending" THEN LaunchFailed(rec) ELSE rec
  /\ UNCHANGED <<expired, process, exit, report, toChild, toParent, chain>>

\* The abort signal fires: the payload race is lost, or the pending launch
\* fails; between the two nobody listens.
Abort ==
  /\ Unsettled /\ ~aborted
  /\ aborted' = TRUE
  /\ launch' = IF launch = "preparing" THEN "rejected" ELSE launch
  /\ rec' = IF launch = "pending" THEN LaunchFailed(rec) ELSE rec
  /\ UNCHANGED <<expired, process, exit, report, toChild, toParent, chain>>

DeadlinePasses ==
  /\ Unsettled /\ ~expired
  /\ expired' = TRUE
  /\ UNCHANGED <<launch, aborted, rec, process, exit, report,
                 toChild, toParent, chain>>

\* Mutant: the deadline is armed for the payload only.
DeadlineTimer_PayloadOnly ==
  /\ expired /\ launch = "preparing"
  /\ launch' = "rejected"
  /\ UNCHANGED <<aborted, expired, rec, process, exit, report,
                 toChild, toParent, chain>>

\* The deadline timer of the payload race or of the record fires.
DeadlineTimer ==
  /\ expired
  /\ \/ launch = "preparing" /\ launch' = "rejected" /\ rec' = rec
     \/ launch = "pending" /\ ~rec.failed /\ rec' = LaunchFailed(rec) /\ launch' = launch
  /\ UNCHANGED <<aborted, expired, process, exit, report,
                 toChild, toParent, chain>>

\* The adapter fails to prepare the payload, or its payload cannot be cloned.
PayloadFails ==
  /\ launch = "preparing"
  /\ launch' = "rejected"
  /\ UNCHANGED <<aborted, expired, rec, process, exit, report,
                 toChild, toParent, chain>>

\* The payload wins the race; the listeners of the race are removed.
PayloadReady ==
  /\ launch = "preparing"
  /\ launch' = "prepared"
  /\ UNCHANGED <<aborted, expired, rec, process, exit, report,
                 toChild, toParent, chain>>

\* spawnChild returns and the record is made; an abort or a deadline that came
\* meanwhile counts at once.  Whether the program could be started is only
\* known from the event that follows.
Spawn ==
  /\ launch = "prepared"
  /\ launch' = "pending"
  /\ process' \in {"live", "unspawnable"}
  /\ rec' = IF aborted \/ expired THEN LaunchFailed(NewRecord) ELSE NewRecord
  /\ UNCHANGED <<aborted, expired, exit, report, toChild, toParent, chain>>

SpawnThrows ==
  /\ launch = "prepared"
  /\ launch' = "rejected"
  /\ UNCHANGED <<aborted, expired, rec, process, exit, report,
                 toChild, toParent, chain>>

\* onSpawn: the launch message is sent unless the launch has failed.
ObserveSpawn ==
  /\ launch = "pending" /\ ~rec.spawned /\ process # "unspawnable"
  /\ \/ /\ rec' = [rec EXCEPT !.spawned = TRUE]
        /\ toChild' = IF rec.failed THEN toChild ELSE Append(toChild, "launch")
     \/ /\ rec' = LaunchFailed([rec EXCEPT !.spawned = TRUE])  \* send fails
        /\ toChild' = toChild
  /\ UNCHANGED <<launch, aborted, expired, process, exit, report, toParent, chain>>

-----------------------------------------------------------------------------
(* Messages *)

\* #observeMessage before readiness: the first message must be `ready'.
ObserveReady ==
  /\ rec.spawned /\ ~rec.closed /\ ~rec.ready /\ toParent # <<>>
  /\ toParent' = Tail(toParent)
  /\ IF rec.failed THEN UNCHANGED <<launch, rec>>
     ELSE IF Head(toParent) = "ready"
     THEN launch' = "resolved" /\ rec' = [rec EXCEPT !.ready = TRUE]
     ELSE launch' = launch /\ rec' = LaunchFailed(rec)
  /\ UNCHANGED <<aborted, expired, process, exit, report, toChild, chain>>

\* Mutant: the queue takes whatever the child sends.
ObserveSessionMessage_Unlimited ==
  /\ rec.ready /\ ~rec.closed /\ toParent # <<>>
  /\ toParent' = Tail(toParent)
  /\ chain' = IF rec.quiet THEN chain ELSE Append(chain, Head(toParent))
  /\ UNCHANGED <<launch, aborted, expired, rec, process, exit, report, toChild>>

\* #handleSessionMessage: queued for the adapter, unless the session is over
\* or too much is queued already.
ObserveSessionMessage ==
  /\ rec.ready /\ ~rec.closed /\ toParent # <<>>
  /\ toParent' = Tail(toParent)
  /\ IF rec.quiet THEN UNCHANGED <<rec, chain>>
     ELSE IF Len(chain) >= MaxPending
     THEN rec' = Terminated(rec) /\ chain' = chain
     ELSE rec' = rec /\ chain' = Append(chain, Head(toParent))
  /\ UNCHANGED <<launch, aborted, expired, process, exit, report, toChild>>

-----------------------------------------------------------------------------
(* The end of the child *)

ObserveExit ==
  /\ rec.spawned /\ ~rec.exitSeen /\ process = "ended"
  /\ rec' = [rec EXCEPT !.exitSeen = TRUE]
  /\ UNCHANGED <<launch, aborted, expired, process, exit, report,
                 toChild, toParent, chain>>

\* #observeClose.  A launch that is still pending is rejected only here.
Closed(kind) ==
  /\ rec' = [rec EXCEPT !.closed = TRUE, !.quiet = TRUE, !.timer = FALSE]
  /\ report' = kind
  /\ launch' = IF launch = "pending" THEN "rejected" ELSE launch

\* Node emits `close' after `exit' and after the channel has been drained.
ObserveClose ==
  /\ rec.exitSeen /\ ~rec.closed /\ toParent = <<>>
  /\ Closed(IF rec.stopping THEN "terminated"
            ELSE IF exit = "zero" THEN "completed" ELSE "crashed")
  /\ UNCHANGED <<aborted, expired, process, exit, toChild, toParent, chain>>

\* #observeProcessError of a child without a pid.
ObserveSpawnError ==
  /\ process = "unspawnable" /\ ~rec.closed
  /\ Closed(IF rec.stopping THEN "terminated" ELSE "crashed")
  /\ UNCHANGED <<aborted, expired, process, exit, toChild, toParent, chain>>

SupervisorNext ==
  \/ GraceEnds \/ StopRequested
  \/ Abort \/ DeadlinePasses \/ DeadlineTimer
  \/ PayloadFails \/ PayloadReady \/ Spawn \/ SpawnThrows \/ ObserveSpawn
  \/ ObserveReady \/ ObserveSessionMessage
  \/ ObserveExit \/ ObserveClose \/ ObserveSpawnError
=============================================================================
