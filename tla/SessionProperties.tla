--------------------------- MODULE SessionProperties ---------------------------
(***************************************************************************)
(* What the supervisor and the scientific session promise: the claims of    *)
(* packages/compute-service-node/README.md over module ScientificSession.   *)
(***************************************************************************)
EXTENDS ScientificSession

launchOf == IF Unsettled THEN "pending" ELSE launch

processOf ==
  CASE process = "live" -> "live"
    [] process = "ended" -> IF exit = "zero" THEN "succeeded" ELSE "failed"
    [] OTHER -> "none"

askedOf == rec.stopping /\ process \in {"live", "ended"}

reportOf == IF launch = "resolved" THEN report ELSE "none"

Contract ==
  INSTANCE SupervisedProcess WITH launch <- launchOf, process <- processOf,
                                  asked <- askedOf, report <- reportOf

\* spawn keeps the contract the core is built on, however the payload, the
\* abort signal, the deadline, the messages and the child's end are ordered:
\* it settles once, a rejection comes only when no process runs and none will
\* be started, and a returned child is reported once, after its end, truly.
ImplementsSupervisedProcess == Contract!Spec

\* The two acknowledgements mean what they say, and a publication is asked of
\* the core only for the object this child has stored, and at most once,
\* whatever the child repeats: a child that exits with 0 has had its result
\* published (README: only after the publisher's receipt came back).
PublishedBeforeSuccess ==
  /\ answers <= 1
  /\ answers = 1 => stored
  /\ pc = "awaiting-publication" => stored
  /\ exit = "zero" => answers = 1
  /\ Bound => stored

\* The event loop goes on, time passes and the kernel kills; neither the child,
\* the adapter's stores nor the payload have to make progress.
Fairness ==
  /\ WF_vars(DeadlinePasses /\ UNCHANGED <<childVars, adapterVars>>)
  /\ WF_vars(DeadlineTimer /\ UNCHANGED <<childVars, adapterVars>>)
  /\ WF_vars(GraceEnds /\ UNCHANGED <<childVars, adapterVars>>)
  /\ WF_vars((Spawn \/ SpawnThrows) /\ UNCHANGED <<childVars, adapterVars>>)
  /\ WF_vars(ObserveSpawn /\ UNCHANGED <<childVars, adapterVars>>)
  /\ WF_vars((ObserveReady \/ ObserveSessionMessage) /\ UNCHANGED <<childVars, adapterVars>>)
  /\ WF_vars((ObserveExit \/ ObserveClose) /\ UNCHANGED <<childVars, adapterVars>>)
  /\ WF_vars(ObserveSpawnError /\ UNCHANGED <<childVars, adapterVars>>)

FairSpec == Spec /\ Fairness

\* Every launch settles, although the payload may never come, the child may
\* never speak and a rejection waits for its close.
LaunchSettles == Unsettled ~> ~Unsettled

\* A child whose session is over -- it was asked to stop, its launch failed,
\* the adapter rejected a message or too many were queued -- is gone in the
\* end and its record with it, even if it ignores SIGTERM.
EndedSessionCloses == rec.quiet ~> rec.closed
=============================================================================
