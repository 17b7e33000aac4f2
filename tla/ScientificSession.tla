--------------------------- MODULE ScientificSession ---------------------------
(***************************************************************************)
(* One supervised scientific child: worker-runtime.ts in the child,         *)
(* ScientificWorkerSessionAdapter behind the supervisor, and the publisher  *)
(* of the worker runtime (CoreScientificResultPublisher), which publishes   *)
(* through the core and then records the result in the source index.        *)
(*                                                                          *)
(* The supervisor is written for any worker entry: besides what the program *)
(* does, a child may send up to MaxStray messages out of turn.              *)
(***************************************************************************)
EXTENDS ProcessSupervisor

CONSTANT MaxStray  \* bound: messages a child sends out of turn

ASSUME StrayAssumption == MaxStray \in Nat

VARIABLES
  pc,      \* the child's program: boot, computing, awaiting-artifact,
           \* awaiting-publication, failing
  stray,   \* how many messages it has sent out of turn
  step,    \* how far the adapter is with the head of the chain
  bound,   \* #bindings has an entry for the child ...
  receipt, \* ... with a publication receipt
  stored,  \* the result object is in the store
  answers  \* how often the core has published the child's result

childVars == <<pc, stray>>
adapterVars == <<step, bound, receipt, stored, answers>>
vars == <<supervisorVars, childVars, adapterVars>>

TypeOK ==
  /\ SupervisorTypeOK
  /\ pc \in {"boot", "computing", "awaiting-artifact", "awaiting-publication", "failing"}
  /\ stray \in 0..MaxStray
  /\ step \in {"idle", "storing", "stored", "publishing", "published"}
  /\ bound \in BOOLEAN /\ receipt \in BOOLEAN /\ stored \in BOOLEAN
  /\ answers \in Nat

Init ==
  /\ SupervisorInit
  /\ pc = "boot" /\ stray = 0
  /\ step = "idle" /\ bound = FALSE /\ receipt = FALSE
  /\ stored = FALSE /\ answers = 0

-----------------------------------------------------------------------------
(* The child's program *)

Running == process = "live"

Sends(message) == toParent' = Append(toParent, message)

ChildOnly ==
  UNCHANGED <<launch, aborted, expired, rec, process, exit, report, chain, adapterVars>>

Exits(code) ==
  /\ process' = "ended" /\ exit' = code
  /\ UNCHANGED <<launch, aborted, expired, rec, report, chain, pc, stray, adapterVars>>

\* The launch message is accepted: ready is sent and execution begins.
ChildLaunches ==
  /\ Running /\ pc = "boot" /\ toChild # <<>>
  /\ toChild' = Tail(toChild)
  /\ Sends("ready")
  /\ pc' = "computing"
  /\ ChildOnly /\ UNCHANGED stray

ChildRequestsArtifact ==
  /\ Running /\ pc = "computing"
  /\ Sends("artifact")
  /\ pc' = "awaiting-artifact"
  /\ ChildOnly /\ UNCHANGED <<toChild, stray>>

\* An acknowledgement arrives; one that is not awaited is a protocol failure.
ChildAcknowledged ==
  /\ Running /\ pc # "boot" /\ toChild # <<>>
  /\ toChild' = Tail(toChild)
  /\ CASE pc = "awaiting-artifact" /\ Head(toChild) = "artifact-ack" ->
            /\ Sends("publication") /\ pc' = "awaiting-publication"
            /\ UNCHANGED <<process, exit>>
       [] pc = "awaiting-publication" /\ Head(toChild) = "publication-ack" ->
            /\ process' = "ended" /\ exit' = "zero"
            /\ UNCHANGED <<toParent, pc>>
       [] OTHER ->
            /\ Sends("failed") /\ pc' = "failing"
            /\ UNCHANGED <<process, exit>>
  /\ UNCHANGED <<launch, aborted, expired, rec, report, chain, stray, adapterVars>>

\* The computation fails, or the acknowledgement times out.
ChildFails ==
  /\ Running /\ pc \in {"computing", "awaiting-artifact", "awaiting-publication"}
  /\ Sends("failed")
  /\ pc' = "failing"
  /\ ChildOnly /\ UNCHANGED <<toChild, stray>>

\* A crash, SIGTERM, an invalid launch message, or the end of fail().
ChildExits ==
  /\ Running
  /\ Exits("nonzero")
  /\ UNCHANGED <<toChild, toParent>>

\* What another worker program might send, as long as it has not failed.
ChildStrays ==
  /\ Running /\ rec.spawned /\ stray < MaxStray /\ pc # "failing"
  /\ stray' = stray + 1
  /\ \E m \in {"ready", "artifact", "publication"} : Sends(m)
  /\ ChildOnly /\ UNCHANGED <<toChild, pc>>

-----------------------------------------------------------------------------
(* The adapter, one message at a time *)

AdapterOnly == UNCHANGED <<launch, aborted, expired, process, exit, report, toParent, childVars>>

\* Aborting the session removes its binding (the listener on session.signal).
Bound == bound /\ ~rec.quiet

\* handleMessage rejects: the child is terminated.
HandlerRejects ==
  /\ rec' = Terminated(rec)
  /\ chain' = Tail(chain)
  /\ step' = "idle"
  /\ UNCHANGED <<toChild, bound, receipt, stored, answers>>

\* handleMessage returns without having done anything more.
HandlerReturns ==
  /\ chain' = Tail(chain)
  /\ step' = "idle"
  /\ UNCHANGED <<rec, toChild, receipt, stored, answers>>

Acknowledges(ack) ==
  /\ toChild' = Append(toChild, ack)
  /\ chain' = Tail(chain)
  /\ step' = "idle"
  /\ UNCHANGED <<rec, stored, answers>>

\* Handlers that are queued when the session ends are skipped.
SkipMessage ==
  /\ chain # <<>> /\ step = "idle" /\ rec.quiet
  /\ HandlerReturns /\ UNCHANGED bound
  /\ AdapterOnly

\* The child reports that it failed: its binding is forgotten.
HandleFailure ==
  /\ chain # <<>> /\ step = "idle" /\ ~rec.quiet /\ Head(chain) = "failed"
  /\ bound' = FALSE /\ HandlerReturns
  /\ AdapterOnly

\* A message the protocol does not know at this point.
RefuseMessage ==
  /\ chain # <<>> /\ step = "idle" /\ ~rec.quiet
  /\ Head(chain) \notin {"failed", "artifact", "publication"}
  /\ HandlerRejects
  /\ AdapterOnly

\* #handleArtifactPut up to the store; the message may be refused.
HandleArtifact ==
  /\ chain # <<>> /\ step = "idle" /\ ~rec.quiet /\ Head(chain) = "artifact"
  /\ \/ step' = "storing" /\ UNCHANGED <<rec, toChild, chain, bound, receipt, stored, answers>>
     \/ HandlerRejects
  /\ AdapterOnly

\* putImmutable and head, which may be rejected before or after the effect.
StoreArtifact ==
  /\ step = "storing"
  /\ \/ /\ stored' = TRUE /\ step' = "stored"
        /\ UNCHANGED <<rec, toChild, chain, bound, receipt, answers>>
     \/ /\ stored' \in {stored, TRUE}
        /\ rec' = Terminated(rec) /\ chain' = Tail(chain) /\ step' = "idle"
        /\ UNCHANGED <<toChild, bound, receipt, answers>>
  /\ AdapterOnly

\* The object is bound to the child and acknowledged, unless the session was
\* aborted meanwhile or the acknowledgement cannot be sent.
BindArtifact ==
  /\ step = "stored"
  /\ \/ HandlerRejects
     \/ /\ ~rec.quiet
        /\ bound' = TRUE /\ receipt' = (bound /\ receipt)
        /\ Acknowledges("artifact-ack")
  /\ AdapterOnly

\* Mutant: a publication request needs no bound artifact.
HandlePublication_Unbound ==
  /\ chain # <<>> /\ step = "idle" /\ ~rec.quiet /\ Head(chain) = "publication"
  /\ IF Bound /\ receipt
     THEN Acknowledges("publication-ack") /\ UNCHANGED <<bound, receipt>>
     ELSE step' = "publishing"
          /\ UNCHANGED <<rec, toChild, chain, bound, receipt, stored, answers>>
  /\ AdapterOnly

\* #handlePublication up to the publisher.
HandlePublication ==
  /\ chain # <<>> /\ step = "idle" /\ ~rec.quiet /\ Head(chain) = "publication"
  /\ IF ~Bound THEN HandlerRejects
     ELSE IF receipt THEN Acknowledges("publication-ack") /\ UNCHANGED <<bound, receipt>>
     ELSE step' = "publishing"
          /\ UNCHANGED <<rec, toChild, chain, bound, receipt, stored, answers>>
  /\ AdapterOnly

\* publish: the core's publishResult, which may refuse; the session is looked
\* at before the call.
Publish ==
  /\ step = "publishing"
  /\ \/ /\ ~rec.quiet
        /\ answers' = answers + 1 /\ step' = "published"
        /\ UNCHANGED <<rec, toChild, chain, bound, receipt, stored>>
     \/ HandlerRejects
  /\ AdapterOnly

\* The publication is recorded in the source index, which refuses when another
\* publication of the same result is active; then it is acknowledged.
AcknowledgePublication ==
  /\ step = "published"
  /\ \/ HandlerRejects
     \/ /\ ~rec.quiet
        /\ bound' = bound /\ receipt' = TRUE
        /\ Acknowledges("publication-ack")
  /\ AdapterOnly

Next ==
  \/ SupervisorNext /\ UNCHANGED <<childVars, adapterVars>>
  \/ ChildLaunches \/ ChildRequestsArtifact \/ ChildAcknowledged
  \/ ChildFails \/ ChildExits \/ ChildStrays
  \/ SkipMessage \/ HandleFailure \/ RefuseMessage
  \/ HandleArtifact \/ StoreArtifact \/ BindArtifact
  \/ HandlePublication \/ Publish \/ AcknowledgePublication

Spec == Init /\ [][Next]_vars
=============================================================================
