--------------------------- MODULE RemoteWorkspace ---------------------------
(***************************************************************************)
(* The remote analysis page of the web client (apps/web/components/         *)
(* remote-analysis-workspace.tsx): which remote job the page owns while      *)
(* runs are bound, observed, cancelled and cleaned up, the workflow adapter  *)
(* is replaced under them and the page is left.                              *)
(*                                                                          *)
(* Every handler is async.  An action is the code between two awaits; what   *)
(* happens at an await is decided by the record of the run, and anything     *)
(* may come in between.  Run r asks the service for one job, which is named  *)
(* r as well.  The generation counter is only ever compared for equality     *)
(* with the value a handler started under: run[r].fresh and ws.activating    *)
(* are those comparisons.  React state is read as of the last assignment.    *)
(***************************************************************************)
EXTENDS Naturals, Sequences, SequencesExt, FiniteSets

CONSTANTS Runs, None, MaxSwaps, MaxCancels

ASSUME NoneAssumption == None \notin Runs
ASSUME BoundsAssumption == MaxSwaps \in Nat /\ MaxCancels \in Nat

VARIABLES
  ws,      \* the page: refs and state of the component, see Workspaces
  run,     \* the handler of each run: where it waits, and what it remembers
  job,     \* the service's job of each run, once its capability was returned
  asked,   \* jobs whose deletion the page asked the service for
  cancels, \* cancelAnalysis calls in flight for each job
  evictions,   \* cancellations in flight for each job, begun by an effect cleanup
  mounted, \* mountedRef
  swaps    \* replacements of the workflow so far, at most MaxSwaps

vars == <<ws, run, job, asked, cancels, evictions, mounted, swaps>>

Statuses == {"rest", "running", "cancelling"}
Waits == {"new", "binding", "dropping", "erasing", "observing", "finishing", "cleaning", "done"}

Workspaces ==
  [status: Statuses,          \* "rest" stands for every status that locks nothing
   pending: BOOLEAN,          \* cleanupPending
   lock: BOOLEAN,             \* remoteJobLockRef
   stage: {"idle", "binding", "bound"},
   attempt: Runs \cup {None}, \* bindingAttemptRef
   active: Runs \cup {None},  \* activeJobRef
   deferred: Seq(Runs),       \* deferredCleanupRef
   source: Runs \cup {None},  \* sourceJobRef, and enaSource with it
   checking: BOOLEAN,         \* a readiness check that has not been aborted
   activating: BOOLEAN,       \* a current activation deletes the source
   ending: {"no", "closing", "deleting"}] \* sourceDeleting, and which call waits

Init ==
  /\ ws = [status |-> "rest", pending |-> FALSE, lock |-> FALSE, stage |-> "idle",
           attempt |-> None, active |-> None, deferred |-> <<>>, source |-> None,
           checking |-> FALSE, activating |-> FALSE, ending |-> "no"]
  /\ run = [r \in Runs |-> [pc |-> "new", kind |-> "source", fresh |-> FALSE, cancel |-> FALSE]]
  /\ job = [r \in Runs |-> "none"]
  /\ asked = {}
  /\ cancels = [r \in Runs |-> 0]
  /\ evictions = [r \in Runs |-> 0]
  /\ mounted = TRUE
  /\ swaps = 0

-----------------------------------------------------------------------------
\* promoteDeferredCleanup: the oldest retained job becomes the active one.
Promotable(w) == w.active = None /\ w.attempt = None /\ w.deferred # <<>>

Promoted(w) ==
  [w EXCEPT !.active = Head(w.deferred), !.deferred = Tail(w.deferred),
            !.lock = TRUE, !.pending = TRUE, !.stage = "bound", !.status = "rest"]

\* releaseRemoteBinding, for the attempt that is still current.
BindingReleased(w) ==
  LET freed == [w EXCEPT !.attempt = None]
  IN  IF Promotable(freed) THEN Promoted(freed)
      ELSE [freed EXCEPT !.lock = FALSE, !.stage = "idle"]

\* Mutant: the lock is released although other jobs wait for their deletion.
BoundReleased_KeepsDeferred(w) ==
  [w EXCEPT !.active = None, !.pending = FALSE, !.lock = FALSE, !.stage = "idle"]

\* releaseBoundRemoteJob.
BoundReleased(w) ==
  LET freed == [w EXCEPT !.active = None]
  IN  IF Promotable(freed) THEN Promoted(freed)
      ELSE [freed EXCEPT !.pending = FALSE, !.lock = FALSE, !.stage = "idle"]

\* recordBoundRemoteJob.
Recorded(w, r) ==
  [w EXCEPT !.attempt = None, !.active = r, !.pending = TRUE, !.stage = "bound"]

\* Mutant: the retained job takes the place of the active one.
Retained_Overwrites(w, r) ==
  [w EXCEPT !.active = r, !.lock = TRUE, !.pending = TRUE, !.stage = "bound", !.status = "rest"]

\* retainStaleCleanup.
Retained(w, r) ==
  IF w.active # None \/ w.attempt # None
  THEN [w EXCEPT !.deferred = Append(@, r), !.lock = TRUE, !.pending = TRUE]
  ELSE [w EXCEPT !.active = r, !.lock = TRUE, !.pending = TRUE, !.stage = "bound",
                 !.status = "rest"]

Resting(w) == [w EXCEPT !.status = "rest"]

\* A new generation: no handler that waits is current any more.
Stale == [r \in Runs |-> [run[r] EXCEPT !.fresh = FALSE]]

\* abortRequests, as far as the page itself is concerned.
Aborted(w) == [w EXCEPT !.checking = FALSE, !.activating = FALSE]

Goes(r, pc) == run' = [run EXCEPT ![r].pc = pc]

\* workflowMutationLocked
MutationLocked ==
  ws.stage # "idle" \/ ws.status # "rest" \/ ws.pending \/ ws.ending # "no"

Deleted(r) == job[r] = "deleted"

-----------------------------------------------------------------------------
\* The service: a deletion that was asked for happens at some time, whether or
\* not the client still waits for the answer.
ServiceDeletes(r) ==
  /\ r \in asked /\ job[r] = "live"
  /\ job' = [job EXCEPT ![r] = "deleted"]
  /\ UNCHANGED <<ws, run, asked, cancels, evictions, mounted, swaps>>

\* runPreparedAnalysis, runAnalysis ("source") and runDerivedAnalysis, up to the
\* binding request.
StartRun(r, kind) ==
  /\ mounted /\ run[r].pc = "new"
  /\ ~MutationLocked /\ ~ws.lock
  /\ (kind = "source") <=> (ws.source = None)
  /\ ws' = [Aborted(ws) EXCEPT !.status = "running", !.lock = TRUE,
                               !.stage = "binding", !.attempt = r]
  /\ run' = [Stale EXCEPT ![r] = [pc |-> "binding", kind |-> kind, fresh |-> TRUE, cancel |-> FALSE]]
  /\ UNCHANGED <<job, asked, cancels, evictions, mounted, swaps>>

\* The binding request returns a capability: the job is recorded and observed,
\* unless the run was cancelled or replaced.  deleteReturnedBinding erases it
\* then, without recording it over a newer attempt.
BindReturns(r) ==
  /\ run[r].pc = "binding"
  /\ job' = [job EXCEPT ![r] = "live"]
  /\ \/ /\ ws.attempt = r /\ run[r].fresh /\ ~run[r].cancel
        /\ ws' = Recorded(ws, r)
        /\ Goes(r, "observing")
        /\ asked' = asked
     \/ /\ ws.attempt = r /\ (~run[r].fresh \/ run[r].cancel)
        /\ ws' = Recorded(ws, r)
        /\ Goes(r, "erasing")
        /\ asked' = asked \cup {r}
     \/ /\ ws.attempt # r
        /\ ws' = ws
        /\ Goes(r, "dropping")
        /\ asked' = asked \cup {r}
  /\ UNCHANGED <<cancels, evictions, mounted, swaps>>

\* The binding request fails: handleBindingFailure.
BindRejects(r) ==
  /\ run[r].pc = "binding"
  /\ LET released == BindingReleased(ws)
     IN  ws' = IF ws.attempt # r THEN ws
               ELSE IF ~run[r].fresh \/ released.stage = "bound" THEN released
               ELSE IF run[r].cancel THEN [Resting(released) EXCEPT !.pending = FALSE]
               ELSE Resting(released)
  /\ Goes(r, "done")
  /\ UNCHANGED <<job, asked, cancels, evictions, mounted, swaps>>

-----------------------------------------------------------------------------
\* runRemoteAnalysis returns a verified result: a source is kept for derived
\* runs, a derived job is deleted at once.
Verified(r) ==
  /\ run[r].pc = "observing"
  /\ IF ~run[r].fresh
     THEN Goes(r, "done") /\ UNCHANGED <<ws, asked>>
     ELSE IF run[r].kind = "source"
     THEN /\ ws' = Resting(BoundReleased([ws EXCEPT !.source = r]))
          /\ Goes(r, "done")
          /\ asked' = asked
     ELSE /\ Goes(r, "finishing")
          /\ asked' = asked \cup {r}
          /\ ws' = ws
  /\ UNCHANGED <<job, cancels, evictions, mounted, swaps>>

\* runRemoteAnalysis throws: observation that was given up retains the job
\* (shouldRetainRemoteJob), any other error cleans it up.
ObserveFails(r) ==
  /\ run[r].pc = "observing"
  /\ \/ /\ run[r].fresh
        /\ ws' = Resting([ws EXCEPT !.pending = TRUE])
        /\ Goes(r, "done")
        /\ asked' = asked
     \/ /\ run[r].fresh /\ ws.active # None
        /\ Goes(r, "cleaning")
        /\ asked' = asked \cup {ws.active}
        /\ ws' = ws
     \/ /\ ~run[r].fresh
        /\ Goes(r, "done")
        /\ UNCHANGED <<ws, asked>>
  /\ UNCHANGED <<job, cancels, evictions, mounted, swaps>>

\* The deletion of a finished derived job is answered.
FinishReply(r) ==
  /\ run[r].pc = "finishing"
  /\ \/ /\ Deleted(r)
        /\ ws' = IF run[r].fresh THEN Resting(BoundReleased(ws)) ELSE ws
        /\ Goes(r, "done")
        /\ asked' = asked
     \/ /\ run[r].fresh /\ ws.active # None
        /\ Goes(r, "cleaning")
        /\ asked' = asked \cup {ws.active}
        /\ ws' = ws
     \/ /\ ~run[r].fresh
        /\ Goes(r, "done")
        /\ UNCHANGED <<ws, asked>>
  /\ UNCHANGED <<job, cancels, evictions, mounted, swaps>>

\* The clean-up of a failed run is answered.
CleanReply(r) ==
  /\ run[r].pc = "cleaning"
  /\ \/ /\ Deleted(r)
        /\ ws' = IF run[r].fresh THEN Resting(BoundReleased(ws)) ELSE ws
     \/ ws' = IF run[r].fresh THEN Resting([ws EXCEPT !.pending = TRUE]) ELSE ws
  /\ Goes(r, "done")
  /\ UNCHANGED <<job, asked, cancels, evictions, mounted, swaps>>

\* deleteReturnedBinding, the attempt recorded: the deletion is answered.
EraseReply(r) ==
  /\ run[r].pc = "erasing"
  /\ \/ /\ Deleted(r)
        /\ LET released == BoundReleased(ws)
           IN  ws' = IF ws.active # r THEN ws
                     ELSE IF released.stage # "bound" /\ run[r].fresh THEN Resting(released)
                     ELSE released
     \/ ws' = IF ws.active = r /\ run[r].fresh THEN Resting([ws EXCEPT !.pending = TRUE]) ELSE ws
  /\ Goes(r, "done")
  /\ UNCHANGED <<job, asked, cancels, evictions, mounted, swaps>>

\* deleteReturnedBinding, the attempt replaced: the deletion is answered.
DropReply(r) ==
  /\ run[r].pc = "dropping"
  /\ \/ Deleted(r) /\ ws' = ws
     \/ ws' = IF mounted THEN Retained(ws, r) ELSE ws
  /\ Goes(r, "done")
  /\ UNCHANGED <<job, asked, cancels, evictions, mounted, swaps>>

-----------------------------------------------------------------------------
\* cancelAnalysis while the binding request waits.
CancelBinding ==
  /\ mounted /\ ws.status # "cancelling"
  /\ ws.attempt # None /\ ws.stage = "binding"
  /\ ~run[ws.attempt].cancel
  /\ ws' = [ws EXCEPT !.status = "cancelling"]
  /\ run' = [run EXCEPT ![ws.attempt].cancel = TRUE]
  /\ UNCHANGED <<job, asked, cancels, evictions, mounted, swaps>>

\* cancelAnalysis on the active job: cancel a running one, delete a retained one.
CancelJob ==
  /\ mounted /\ ws.status # "cancelling" /\ ws.pending
  /\ ~(ws.attempt # None /\ ws.stage = "binding")
  /\ ws.active # None /\ cancels[ws.active] < MaxCancels
  /\ ws' = [ws EXCEPT !.status = "cancelling", !.activating = FALSE,
                      !.checking = @ /\ ws.status # "running"]
  /\ run' = Stale
  /\ asked' = asked \cup {ws.active}
  /\ cancels' = [cancels EXCEPT ![ws.active] = @ + 1]
  /\ UNCHANGED <<job, evictions, mounted, swaps>>

\* Mutant: a cancellation that was not observed leaves the status.
CancelReply_FailsSilently(r) ==
  /\ cancels[r] > 0
  /\ cancels' = [cancels EXCEPT ![r] = @ - 1]
  /\ ws' = IF Deleted(r) /\ ws.active = r THEN Resting(BoundReleased(ws)) ELSE ws
  /\ UNCHANGED <<run, job, asked, evictions, mounted, swaps>>

\* The answer to cancelAnalysis; a job released meanwhile is left alone.
CancelReply(r) ==
  /\ cancels[r] > 0
  /\ cancels' = [cancels EXCEPT ![r] = @ - 1]
  /\ \/ /\ Deleted(r)
        /\ ws' = IF ws.active = r THEN Resting(BoundReleased(ws)) ELSE ws
     \/ ws' = IF ws.active = r THEN Resting(ws) ELSE ws
  /\ UNCHANGED <<run, job, asked, evictions, mounted, swaps>>

-----------------------------------------------------------------------------
\* handleFile, inspectSelected, parseSelectedWorksheet, updateMapping,
\* requestPreview, and an activation without a source to delete.
Edit ==
  /\ mounted /\ ~MutationLocked /\ ~ws.lock
  /\ ws' = Aborted(ws)
  /\ run' = Stale
  /\ UNCHANGED <<job, asked, cancels, evictions, mounted, swaps>>

\* activatePreview while a source is retained: the source is deleted first.
Activate ==
  /\ mounted /\ ~MutationLocked /\ ~ws.lock
  /\ ws.source # None
  /\ ws' = [Aborted(ws) EXCEPT !.activating = TRUE]
  /\ run' = Stale
  /\ asked' = asked \cup {ws.source}
  /\ UNCHANGED <<job, cancels, evictions, mounted, swaps>>

ActivateReply ==
  /\ ws.activating
  /\ \/ /\ Deleted(ws.source)
        /\ ws' = [ws EXCEPT !.activating = FALSE, !.source = None]
     \/ ws' = Resting([ws EXCEPT !.activating = FALSE])
  /\ UNCHANGED <<run, job, asked, cancels, evictions, mounted, swaps>>

\* endSourceSession: discard the dataset session if there is one, then delete
\* the source.
EndSession ==
  /\ mounted /\ ws.source # None /\ ws.status = "rest" /\ ws.ending = "no"
  /\ run' = Stale
  /\ \/ /\ ws' = [Aborted(ws) EXCEPT !.status = "cancelling", !.ending = "closing"]
        /\ asked' = asked
     \/ /\ ws' = [Aborted(ws) EXCEPT !.status = "cancelling", !.ending = "deleting"]
        /\ asked' = asked \cup {ws.source}
  /\ UNCHANGED <<job, cancels, evictions, mounted, swaps>>

DiscardReply ==
  /\ ws.ending = "closing"
  /\ \/ /\ ws' = [ws EXCEPT !.ending = "deleting"]
        /\ asked' = asked \cup {ws.source}
     \/ /\ ws' = Resting([ws EXCEPT !.ending = "no"])
        /\ asked' = asked
  /\ UNCHANGED <<run, job, cancels, evictions, mounted, swaps>>

EndReply ==
  /\ ws.ending = "deleting"
  /\ \/ /\ Deleted(ws.source)
        /\ ws' = Resting([ws EXCEPT !.ending = "no", !.source = None])
     \/ ws' = Resting([ws EXCEPT !.ending = "no"])
  /\ UNCHANGED <<run, job, asked, cancels, evictions, mounted, swaps>>

-----------------------------------------------------------------------------
\* The cleanup of the workflow's effect: the binding attempt is given up, and
\* the active job and the source are deleted in the background.
LeftBehind(w) == Aborted(IF w.attempt = None THEN w ELSE BindingReleased(w))

Evict(w) ==
  evictions' = [r \in Runs |-> IF r = w.active THEN evictions[r] + 1 ELSE evictions[r]]

\* The workflow is replaced (a new policy or adapter): the cleanup of the old
\* effect, then the readiness check of the new one.
Swap ==
  /\ mounted /\ swaps < MaxSwaps
  /\ swaps' = swaps + 1
  /\ LET left == LeftBehind(ws)
     IN  /\ ws' = [left EXCEPT !.checking = TRUE]
         /\ Evict(left)
         /\ asked' = asked \cup ({left.active, left.source} \ {None})
  /\ run' = Stale
  /\ UNCHANGED <<job, cancels, mounted>>

ReadyDone ==
  /\ ws.checking
  /\ ws' = Resting([ws EXCEPT !.checking = FALSE])
  /\ UNCHANGED <<run, job, asked, cancels, evictions, mounted, swaps>>

\* The answer to a cancellation that an effect cleanup began.
EvictReply(r) ==
  /\ evictions[r] > 0
  /\ evictions' = [evictions EXCEPT ![r] = @ - 1]
  /\ \/ /\ Deleted(r)
        /\ ws' = IF ws.active # r THEN ws
                 ELSE IF mounted THEN BoundReleased(ws)
                 ELSE [ws EXCEPT !.active = None, !.lock = FALSE, !.stage = "idle"]
     \/ ws' = ws
  /\ UNCHANGED <<run, job, asked, cancels, mounted, swaps>>

\* The page is left.  From here on only deletions count that were in flight or
\* are begun now: no user can begin another.
Unmount ==
  /\ mounted
  /\ mounted' = FALSE
  /\ LET left == LeftBehind([ws EXCEPT !.deferred = <<>>])
     IN  /\ ws' = left
         /\ Evict(left)
         /\ asked' = ({left.active, left.source} \ {None})
                       \cup ToSet(ws.deferred) \cup {r \in Runs : run[r].pc = "dropping"}
  /\ run' = Stale
  /\ UNCHANGED <<job, cancels, swaps>>

-----------------------------------------------------------------------------
Step(r) ==
  \/ ServiceDeletes(r)
  \/ \E kind \in {"source", "derived"} : StartRun(r, kind)
  \/ BindReturns(r) \/ BindRejects(r) \/ Verified(r) \/ ObserveFails(r)
  \/ FinishReply(r) \/ CleanReply(r) \/ EraseReply(r) \/ DropReply(r)
  \/ CancelReply(r) \/ EvictReply(r)

Next ==
  \/ \E r \in Runs : Step(r)
  \/ CancelBinding \/ CancelJob
  \/ Edit \/ Activate \/ ActivateReply
  \/ EndSession \/ DiscardReply \/ EndReply
  \/ Swap \/ ReadyDone \/ Unmount

Spec == Init /\ [][Next]_vars

-----------------------------------------------------------------------------
\* Types, and the shape of the mutex: a binding attempt and an active job exclude
\* each other, either holds the lock and the stage says which, a deletion is
\* pending exactly for the jobs that are held, and the run that is current owns
\* the attempt or the job, however many older handlers still wait.
TypeOK ==
  /\ ws \in Workspaces
  /\ run \in [Runs -> [pc: Waits, kind: {"source", "derived"}, fresh: BOOLEAN, cancel: BOOLEAN]]
  /\ job \in [Runs -> {"none", "live", "deleted"}]
  /\ asked \in SUBSET Runs
  /\ cancels \in [Runs -> 0..MaxCancels]
  /\ evictions \in [Runs -> 0..(MaxSwaps + 1)]
  /\ mounted \in BOOLEAN /\ swaps \in 0..MaxSwaps
  /\ ws.attempt # None => ws.stage = "binding" /\ ws.active = None
  /\ mounted /\ ws.active # None => ws.stage = "bound"
  /\ mounted => ws.lock = (ws.attempt # None \/ ws.active # None)
  /\ mounted => ws.pending = (ws.active # None \/ ws.deferred # <<>>)
  /\ ws.lock = FALSE => ws.stage = "idle"
  /\ \A r \in Runs : run[r].fresh =>
       /\ run[r].pc = "binding" => ws.attempt = r
       /\ run[r].pc \in {"observing", "finishing", "cleaning"} => ws.active = r

\* While the page is open, every job whose capability it was given is the active
\* job, waits to become it, is the retained source, or is being deleted by the
\* handler that was given it.  When the page is left, the deletion of every
\* remaining job has been asked for ("never treated as a deletion receipt":
\* a failed deletion keeps the job within the user's reach).
Held(r) ==
  \/ ws.active = r \/ r \in ToSet(ws.deferred) \/ ws.source = r
  \/ run[r].pc = "dropping"

NoJobForgotten ==
  \A r \in Runs : job[r] = "live" =>
    IF mounted THEN Held(r) ELSE r \in asked

\* Nothing of the page is waited for by a handler that may still change it.
Quiet ==
  /\ \A r \in Runs : run[r].pc \in {"new", "done"} /\ cancels[r] = 0 /\ evictions[r] = 0
  /\ ~ws.checking /\ ~ws.activating /\ ws.ending = "no"

\* A page on which nothing is in flight is usable: it is either free, or bound to
\* a job whose deletion the user can ask for again; it never waits for an answer
\* that cannot come.  (After a replacement of the workflow the status is not
\* claimed: see the README.)
IdlePageIsUsable ==
  mounted /\ Quiet =>
    /\ ws.lock => ws.active # None /\ ws.pending
    /\ ~ws.lock => ws.stage = "idle" /\ ~ws.pending /\ ws.deferred = <<>>
    /\ ws.status = "rest" \/ (swaps > 0 /\ ws.status = "cancelling")
=============================================================================
