---------------------------- MODULE Session_proofs ----------------------------
(***************************************************************************)
(* The supervisor implements the contract of spawn, and a child that exits *)
(* with 0 has had its result published once, for every size of the message *)
(* queue and any number of messages out of turn.                           *)
(***************************************************************************)
EXTENDS SessionProperties, TLAPS

Records == [DOMAIN NewRecord -> BOOLEAN]

\* How the launch, the record's flags and the process belong together.
RecordInv ==
  /\ launch \in {"preparing", "prepared"} =>
       process = "none" /\ rec = NewRecord /\ chain = <<>>
  /\ launch = "pending" => process # "none" /\ ~rec.ready /\ ~rec.closed
  /\ launch = "resolved" => rec.ready /\ process \in {"live", "ended"}
  /\ launch = "rejected" =>
       \/ process = "none" /\ rec = NewRecord /\ chain = <<>>
       \/ process # "live" /\ rec.closed
  /\ rec.closed <=> report # "none"
  /\ rec.spawned => process \in {"live", "ended"}
  /\ rec.exitSeen => process = "ended"
  /\ rec.closed => rec.quiet /\ ~rec.timer
  /\ rec.stopping => rec.quiet
  /\ ~rec.ready /\ rec.stopping => rec.failed
  /\ chain # <<>> => rec.ready
  /\ step # "idle" => chain # <<>>
  /\ exit = "none" <=> process # "ended"

-----------------------------------------------------------------------------
(* The record *)

LEMMA RecordsAre ==
  Records = [spawned : BOOLEAN, ready : BOOLEAN, failed : BOOLEAN, stopping : BOOLEAN,
             timer : BOOLEAN, quiet : BOOLEAN, exitSeen : BOOLEAN, closed : BOOLEAN]
  BY DEF Records, NewRecord

LEMMA NewRecordTyped == NewRecord \in Records
  BY RecordsAre DEF NewRecord

\* What #requestTermination changes: nothing of a closed record, and it ends
\* the session of any other.
LEMMA TerminatedFacts ==
  ASSUME NEW r \in Records
  PROVE  /\ Terminated(r) \in Records
         /\ \A f \in {"spawned", "ready", "failed", "exitSeen", "closed"} :
              Terminated(r)[f] = r[f]
         /\ r.closed => Terminated(r) = r
         /\ r.quiet => Terminated(r).quiet
         /\ r.stopping => Terminated(r).stopping
         /\ Terminated(r).stopping => r.stopping \/ Terminated(r).quiet
         /\ ~r.closed /\ (r.stopping => r.quiet) => Terminated(r).quiet
  BY RecordsAre DEF Terminated

LEMMA LaunchFailedFacts ==
  ASSUME NEW r \in Records
  PROVE  /\ LaunchFailed(r) \in Records
         /\ \A f \in {"spawned", "ready", "exitSeen", "closed"} :
              LaunchFailed(r)[f] = r[f]
         /\ r.closed \/ r.ready => LaunchFailed(r) = r
         /\ r.quiet => LaunchFailed(r).quiet
         /\ r.failed => LaunchFailed(r).failed
         /\ ~r.closed /\ ~r.ready => LaunchFailed(r).failed
         /\ r.stopping => LaunchFailed(r).stopping
         /\ LaunchFailed(r).stopping => r.stopping \/ LaunchFailed(r).quiet
  BY RecordsAre DEF LaunchFailed, Terminated

Flags == {"spawned", "ready", "failed", "stopping", "timer", "quiet", "exitSeen", "closed"}

\* A flag that is set leaves the others alone.
LEMMA FlagFacts ==
  ASSUME NEW r \in Records, NEW f \in Flags, NEW b \in BOOLEAN,
         NEW c, c = [r EXCEPT ![f] = b]
  PROVE  /\ c \in Records
         /\ c[f] = b
         /\ \A g \in Flags \ {f} : c[g] = r[g]
  BY DEF Records, NewRecord, Flags

LEMMA ClosedFacts ==
  ASSUME NEW r \in Records, NEW c,
         c = [r EXCEPT !.closed = TRUE, !.quiet = TRUE, !.timer = FALSE]
  PROVE  /\ c \in Records
         /\ c.closed /\ c.quiet /\ ~c.timer
         /\ \A f \in {"spawned", "ready", "failed", "stopping", "exitSeen"} : c[f] = r[f]
  BY RecordsAre

-----------------------------------------------------------------------------
(* The steps of the supervisor *)

LaunchSteps ==
  \/ Abort \/ DeadlinePasses \/ DeadlineTimer \/ PayloadFails \/ PayloadReady
  \/ Spawn \/ SpawnThrows \/ ObserveSpawn

RunningSteps ==
  \/ GraceEnds \/ StopRequested \/ ObserveReady \/ ObserveSessionMessage
  \/ ObserveExit \/ ObserveClose \/ ObserveSpawnError

LEMMA LaunchKeepsTypes ==
  ASSUME SupervisorTypeOK, RecordInv, LaunchSteps
  PROVE  SupervisorTypeOK'
<1> USE PendingAssumption, NewRecordTyped, TerminatedFacts, LaunchFailedFacts
    DEF SupervisorTypeOK
<1>0. rec \in Records
  BY DEF Records
<1>1. CASE Abort
  BY <1>0, <1>1 DEF Abort, Records
<1>2. CASE DeadlinePasses
  BY <1>2 DEF DeadlinePasses
<1>3. CASE DeadlineTimer
  BY <1>0, <1>3 DEF DeadlineTimer, Records
<1>4. CASE PayloadFails \/ PayloadReady
  BY <1>4 DEF PayloadFails, PayloadReady
<1>5. CASE Spawn
  BY <1>5 DEF Spawn, Records
<1>6. CASE SpawnThrows
  BY <1>6 DEF SpawnThrows
<1>7. CASE ObserveSpawn
  <2>1. [rec EXCEPT !.spawned = TRUE] \in Records
    BY <1>0, RecordsAre
  <2> HIDE DEF SupervisorTypeOK
  <2>2. \/ rec' = [rec EXCEPT !.spawned = TRUE]
        \/ rec' = LaunchFailed([rec EXCEPT !.spawned = TRUE])
    BY <1>7 DEF ObserveSpawn
  <2>3. rec' \in Records
    BY <2>1, <2>2
  <2>4. toChild' = toChild \/ toChild' = Append(toChild, "launch")
    BY <1>7 DEF ObserveSpawn
  <2>5. toChild \in Seq(Messages) /\ "launch" \in Messages
    BY DEF SupervisorTypeOK, Messages
  <2>6. toChild' \in Seq(Messages)
    BY <2>4, <2>5
  <2> USE DEF SupervisorTypeOK
  <2> QED BY <1>7, <2>3, <2>6 DEF ObserveSpawn, Records
<1> QED BY <1>1, <1>2, <1>3, <1>4, <1>5, <1>6, <1>7 DEF LaunchSteps

LEMMA RunningKeepsTypes ==
  ASSUME SupervisorTypeOK, RecordInv, RunningSteps
  PROVE  SupervisorTypeOK'
<1>0. rec \in Records
  BY DEF Records, SupervisorTypeOK
<1>1. rec' \in Records
  <2>1. CASE GraceEnds
    BY <1>0, <2>1, FlagFacts DEF GraceEnds, Flags
  <2>2. CASE StopRequested
    BY <1>0, <2>2, TerminatedFacts DEF StopRequested
  <2>3. CASE ObserveReady
    <3>1. [rec EXCEPT !.ready = TRUE] \in Records
      BY <1>0 DEF Records, NewRecord
    <3>2. rec' \in {rec, [rec EXCEPT !.ready = TRUE], LaunchFailed(rec)}
      BY <2>3 DEF ObserveReady
    <3> QED BY <1>0, <3>1, <3>2, LaunchFailedFacts
  <2>4. CASE ObserveSessionMessage
    BY <1>0, <2>4, TerminatedFacts DEF ObserveSessionMessage
  <2>5. CASE ObserveExit
    BY <1>0, <2>5, FlagFacts DEF ObserveExit, Flags
  <2>6. CASE ObserveClose \/ ObserveSpawnError
    BY <1>0, <2>6, ClosedFacts DEF ObserveClose, ObserveSpawnError, Closed
  <2> QED BY <2>1, <2>2, <2>3, <2>4, <2>5, <2>6 DEF RunningSteps
<1>2. CASE ObserveSessionMessage
  <2>1. /\ toParent \in Seq(Messages) /\ toParent # <<>>
        /\ chain \in Seq(Messages) /\ Len(chain) <= MaxPending
    BY <1>2 DEF ObserveSessionMessage, SupervisorTypeOK
  <2>2. toParent' \in Seq(Messages)
    BY <1>2, <2>1 DEF ObserveSessionMessage
  <2>3. \/ chain' = chain
        \/ chain' = Append(chain, Head(toParent)) /\ ~(Len(chain) >= MaxPending)
    BY <1>2 DEF ObserveSessionMessage
  <2>4. chain' \in Seq(Messages) /\ Len(chain') <= MaxPending
    BY <2>1, <2>3, PendingAssumption
  <2> QED BY <1>1, <1>2, <2>2, <2>4 DEF ObserveSessionMessage, SupervisorTypeOK, Records
<1>3. CASE ObserveReady
  BY <1>1, <1>3 DEF ObserveReady, SupervisorTypeOK, Records
<1>4. CASE GraceEnds \/ StopRequested \/ ObserveExit
  BY <1>1, <1>4 DEF GraceEnds, StopRequested, ObserveExit, SupervisorTypeOK, Records
<1>5. CASE ObserveClose \/ ObserveSpawnError
  BY <1>1, <1>5 DEF ObserveClose, ObserveSpawnError, Closed, SupervisorTypeOK, Records
<1> QED BY <1>2, <1>3, <1>4, <1>5 DEF RunningSteps

LEMMA LaunchKeepsRecord ==
  ASSUME SupervisorTypeOK, RecordInv, LaunchSteps, UNCHANGED adapterVars
  PROVE  RecordInv'
<1> USE NewRecordTyped, TerminatedFacts, LaunchFailedFacts
    DEF SupervisorTypeOK, RecordInv, adapterVars
<1>0. rec \in Records
  BY DEF Records
<1>1. CASE Abort
  BY <1>0, <1>1 DEF Abort
<1>2. CASE DeadlinePasses
  BY <1>2 DEF DeadlinePasses
<1>3. CASE DeadlineTimer
  BY <1>0, <1>3 DEF DeadlineTimer
<1>4. CASE PayloadFails \/ PayloadReady
  BY <1>4 DEF PayloadFails, PayloadReady
<1>5. CASE Spawn
  BY <1>5 DEF Spawn, NewRecord
<1>6. CASE SpawnThrows
  BY <1>6 DEF SpawnThrows
<1>7. CASE ObserveSpawn
  <2> DEFINE spawned == [rec EXCEPT !.spawned = TRUE]
  <2>1. spawned \in Records /\ spawned.spawned
        /\ \A f \in Flags \ {"spawned"} : spawned[f] = rec[f]
    BY <1>0, RecordsAre DEF Flags
  <2>2. rec' = spawned \/ rec' = LaunchFailed(spawned)
    BY <1>7 DEF ObserveSpawn
  <2> HIDE DEF spawned
  <2> QED BY <1>7, <2>1, <2>2 DEF ObserveSpawn, Flags
<1> QED BY <1>1, <1>2, <1>3, <1>4, <1>5, <1>6, <1>7 DEF LaunchSteps

LEMMA RunningKeepsRecord ==
  ASSUME SupervisorTypeOK, RecordInv, RunningSteps, UNCHANGED adapterVars
  PROVE  RecordInv'
<1>0. rec \in Records
  BY DEF Records, SupervisorTypeOK
<1>1. CASE GraceEnds
  <2>1. /\ rec'.timer = FALSE
        /\ \A g \in Flags \ {"timer"} : rec'[g] = rec[g]
    BY <1>0, <1>1 DEF GraceEnds, Flags, Records, NewRecord
  <2>2. rec # NewRecord
    BY <1>1 DEF GraceEnds, NewRecord
  <2> QED BY <1>1, <2>1, <2>2 DEF GraceEnds, Flags, RecordInv, adapterVars
<1>2. CASE StopRequested
  BY <1>0, <1>2, TerminatedFacts DEF StopRequested, RecordInv, adapterVars
<1>3. CASE ObserveReady
  <2>1. launch = "pending" /\ process \in {"live", "ended"}
    BY <1>3 DEF ObserveReady, RecordInv, SupervisorTypeOK, NewRecord
  <2>2. CASE UNCHANGED <<launch, rec>>
    BY <1>3, <2>1, <2>2 DEF ObserveReady, RecordInv, adapterVars
  <2>3. CASE ~rec.failed /\ launch' = "resolved" /\ rec' = [rec EXCEPT !.ready = TRUE]
    <3>1. rec'.ready = TRUE /\ \A g \in Flags \ {"ready"} : rec'[g] = rec[g]
      BY <1>0, <2>3 DEF Flags, Records, NewRecord
    <3> QED BY <1>3, <2>1, <2>3, <3>1 DEF ObserveReady, RecordInv, adapterVars, Flags
  <2>4. CASE launch' = launch /\ rec' = LaunchFailed(rec)
    BY <1>0, <1>3, <2>1, <2>4, LaunchFailedFacts DEF ObserveReady, RecordInv, adapterVars
  <2> QED BY <1>3, <2>2, <2>3, <2>4 DEF ObserveReady
<1>4. CASE ObserveSessionMessage
  <2>1. rec' \in {rec, Terminated(rec)} /\ rec.ready /\ ~rec.closed
        /\ UNCHANGED <<launch, process, exit, report, step>>
    BY <1>4 DEF ObserveSessionMessage, adapterVars
  <2>2. chain' = chain \/ chain' = Append(chain, Head(toParent))
    BY <1>4 DEF ObserveSessionMessage
  <2>3. chain # <<>> => chain' # <<>>
    BY <2>2 DEF SupervisorTypeOK
  <2>4. launch \in {"pending", "resolved"} \/ rec.closed
    BY <2>1 DEF RecordInv, NewRecord, SupervisorTypeOK
  <2>5. rec'.ready /\ launch = "resolved"
    BY <1>0, <2>1, <2>4, TerminatedFacts DEF RecordInv
  <2> QED BY <1>0, <2>1, <2>3, <2>5, TerminatedFacts DEF RecordInv
<1>5. CASE ObserveExit
  BY <1>0, <1>5, FlagFacts DEF ObserveExit, Flags, RecordInv, adapterVars
<1>6. CASE ObserveClose \/ ObserveSpawnError
  BY <1>0, <1>6, ClosedFacts DEF ObserveClose, ObserveSpawnError, Closed, RecordInv, adapterVars
<1> QED BY <1>1, <1>2, <1>3, <1>4, <1>5, <1>6 DEF RunningSteps

-----------------------------------------------------------------------------
(* The steps of the child and of the adapter *)

ChildSteps ==
  \/ ChildLaunches \/ ChildRequestsArtifact \/ ChildAcknowledged
  \/ ChildFails \/ ChildExits \/ ChildStrays

AdapterSteps ==
  \/ SkipMessage \/ HandleFailure \/ RefuseMessage
  \/ HandleArtifact \/ StoreArtifact \/ BindArtifact
  \/ HandlePublication \/ Publish \/ AcknowledgePublication

LEMMA QueueTyped ==
  ASSUME NEW q \in Seq(Messages)
  PROVE  /\ \A m \in Messages : Append(q, m) \in Seq(Messages)
         /\ q # <<>> => Tail(q) \in Seq(Messages)
  OBVIOUS

\* A child can only send, receive and exit.
LEMMA ChildEffect ==
  ASSUME TypeOK, ChildSteps
  PROVE  /\ UNCHANGED <<launch, aborted, expired, rec, report, chain, adapterVars>>
         /\ process = "live"
         /\ \/ UNCHANGED <<process, exit>>
            \/ process' = "ended" /\ exit' \in {"zero", "nonzero"}
  BY DEF ChildSteps, ChildLaunches, ChildRequestsArtifact, ChildAcknowledged, ChildFails,
     ChildExits, ChildStrays, Running, ChildOnly, Exits, Sends, adapterVars

LEMMA ChildQueues ==
  ASSUME TypeOK, ChildSteps
  PROVE  /\ \/ toChild' = toChild
            \/ toChild # <<>> /\ toChild' = Tail(toChild)
         /\ \/ toParent' = toParent
            \/ \E m \in Messages : toParent' = Append(toParent, m)
  BY DEF ChildSteps, ChildLaunches, ChildRequestsArtifact, ChildAcknowledged, ChildFails,
     ChildExits, ChildStrays, ChildOnly, Exits, Sends, Messages

LEMMA ChildKeepsTypes ==
  ASSUME TypeOK, RecordInv, ChildSteps
  PROVE  TypeOK' /\ RecordInv'
<1>1. toChild' \in Seq(Messages) /\ toParent' \in Seq(Messages)
  <2>1. toChild \in Seq(Messages) /\ toParent \in Seq(Messages)
    BY DEF TypeOK, SupervisorTypeOK
  <2> QED BY <2>1, ChildQueues, QueueTyped
<1>2. pc' \in {"boot", "computing", "awaiting-artifact", "awaiting-publication", "failing"}
  BY DEF TypeOK, ChildSteps, ChildLaunches, ChildRequestsArtifact, ChildAcknowledged,
     ChildFails, ChildExits, ChildStrays, ChildOnly, Exits
<1>3. stray' \in 0..MaxStray
  BY StrayAssumption DEF TypeOK, ChildSteps, ChildLaunches, ChildRequestsArtifact,
     ChildAcknowledged, ChildFails, ChildExits, ChildStrays, ChildOnly, Exits
<1>4. TypeOK'
  BY <1>1, <1>2, <1>3, ChildEffect DEF TypeOK, SupervisorTypeOK, adapterVars
<1>5. RecordInv'
  BY ChildEffect DEF RecordInv, adapterVars
<1> QED BY <1>4, <1>5

\* The adapter works on the head of the chain and may end the session.
LEMMA AdapterEffect ==
  ASSUME TypeOK, RecordInv, AdapterSteps
  PROVE  /\ AdapterOnly
         /\ chain # <<>>
         /\ rec' \in {rec, Terminated(rec)}
         /\ \/ chain' = chain
            \/ chain' = Tail(chain) /\ step' = "idle"
  BY DEF TypeOK, RecordInv, AdapterSteps, SkipMessage, HandleFailure, RefuseMessage,
     HandleArtifact, StoreArtifact, BindArtifact, HandlePublication, Publish,
     AcknowledgePublication, HandlerReturns, HandlerRejects, Acknowledges

LEMMA AdapterKeepsTypes ==
  ASSUME TypeOK, RecordInv, AdapterSteps
  PROVE  TypeOK' /\ RecordInv'
<1>0. rec \in Records /\ chain \in Seq(Messages) /\ Len(chain) <= MaxPending
  BY DEF Records, TypeOK, SupervisorTypeOK
<1>1. rec' \in Records
  BY <1>0, AdapterEffect, TerminatedFacts
<1>2. chain' \in Seq(Messages) /\ Len(chain') <= MaxPending
  BY <1>0, AdapterEffect, PendingAssumption
<1>3. toChild' = toChild \/ \E m \in Messages : toChild' = Append(toChild, m)
  BY DEF AdapterSteps, SkipMessage, HandleFailure, RefuseMessage, HandleArtifact,
     StoreArtifact, BindArtifact, HandlePublication, Publish, AcknowledgePublication,
     HandlerReturns, HandlerRejects, Acknowledges, Messages
<1>4. toChild' \in Seq(Messages)
  <2>1. toChild \in Seq(Messages)
    BY DEF TypeOK, SupervisorTypeOK
  <2> QED BY <1>3, <2>1, QueueTyped
<1>5. /\ step' \in {"idle", "storing", "stored", "publishing", "published"}
      /\ bound' \in BOOLEAN /\ receipt' \in BOOLEAN /\ stored' \in BOOLEAN
      /\ answers' \in Nat
  <2> USE DEF TypeOK, HandlerReturns, HandlerRejects, Acknowledges
  <2>1. CASE SkipMessage \/ HandleFailure \/ RefuseMessage
    BY <2>1 DEF SkipMessage, HandleFailure, RefuseMessage
  <2>2. CASE HandleArtifact
    BY <2>2 DEF HandleArtifact
  <2>3. CASE StoreArtifact
    BY <2>3 DEF StoreArtifact
  <2>4. CASE BindArtifact
    BY <2>4 DEF BindArtifact
  <2>5. CASE HandlePublication
    BY <2>5 DEF HandlePublication
  <2>6. CASE Publish
    BY <2>6 DEF Publish
  <2>7. CASE AcknowledgePublication
    BY <2>7 DEF AcknowledgePublication
  <2> QED BY <2>1, <2>2, <2>3, <2>4, <2>5, <2>6, <2>7 DEF AdapterSteps
<1>6. TypeOK'
  BY <1>1, <1>2, <1>4, <1>5, AdapterEffect
     DEF TypeOK, SupervisorTypeOK, AdapterOnly, childVars, Records
<1>7. rec.ready /\ launch \notin {"preparing", "prepared", "pending"}
  BY <1>0, AdapterEffect DEF RecordInv, NewRecord
<1>8. launch = "rejected" => process # "live" /\ rec.closed
  BY AdapterEffect DEF RecordInv
<1>9. step' # "idle" => chain' # <<>>
  BY AdapterEffect
<1>10. RecordInv'
  BY <1>0, <1>7, <1>8, <1>9, AdapterEffect, TerminatedFacts DEF RecordInv, AdapterOnly
<1> QED BY <1>6, <1>10

-----------------------------------------------------------------------------

LEMMA InitTypes == Init => TypeOK /\ RecordInv
<1> SUFFICES ASSUME Init PROVE TypeOK /\ RecordInv
  OBVIOUS
<1>1. /\ toChild \in Seq(Messages) /\ toParent \in Seq(Messages)
      /\ chain \in Seq(Messages) /\ Len(chain) <= MaxPending
  BY PendingAssumption DEF Init, SupervisorInit
<1>2. rec \in [DOMAIN NewRecord -> BOOLEAN]
  BY NewRecordTyped DEF Init, SupervisorInit, Records
<1>3. SupervisorTypeOK
  BY <1>1, <1>2 DEF Init, SupervisorInit, SupervisorTypeOK
<1>4. TypeOK
  <2>1. stray \in 0..MaxStray
    BY StrayAssumption DEF Init
  <2> QED BY <1>3, <2>1 DEF Init, TypeOK
<1>5. RecordInv
  BY DEF Init, SupervisorInit, RecordInv, NewRecord
<1> QED BY <1>4, <1>5

LEMMA SupervisorKeepsTypes ==
  ASSUME TypeOK, RecordInv, SupervisorNext, UNCHANGED <<childVars, adapterVars>>
  PROVE  TypeOK' /\ RecordInv'
<1>1. LaunchSteps \/ RunningSteps
  BY DEF SupervisorNext, LaunchSteps, RunningSteps
<1>2. SupervisorTypeOK' /\ RecordInv'
  BY <1>1, LaunchKeepsTypes, RunningKeepsTypes, LaunchKeepsRecord, RunningKeepsRecord
     DEF TypeOK
<1> QED BY <1>2 DEF TypeOK, childVars, adapterVars

LEMMA StepCases ==
  ASSUME Next
  PROVE  \/ SupervisorNext /\ UNCHANGED <<childVars, adapterVars>>
         \/ ChildSteps \/ AdapterSteps
  BY DEF Next, ChildSteps, AdapterSteps

LEMMA NextKeepsTypes ==
  TypeOK /\ RecordInv /\ [Next]_vars => TypeOK' /\ RecordInv'
<1> SUFFICES ASSUME TypeOK, RecordInv, [Next]_vars PROVE TypeOK' /\ RecordInv'
  OBVIOUS
<1>1. CASE Next
  BY <1>1, StepCases, SupervisorKeepsTypes, ChildKeepsTypes, AdapterKeepsTypes
<1>2. CASE UNCHANGED vars
  BY <1>2 DEF vars, supervisorVars, childVars, adapterVars, TypeOK, SupervisorTypeOK, RecordInv
<1> QED BY <1>1, <1>2

LEMMA TypesInvariant == Spec => [](TypeOK /\ RecordInv)
  BY InitTypes, NextKeepsTypes, PTL DEF Spec

\* Supervisor, child and adapter keep their types for every queue size and any
\* number of stray messages; the queue is never longer than its limit.
THEOREM SessionTypes == Spec => []TypeOK
  BY TypesInvariant, PTL

-----------------------------------------------------------------------------
(* What the queues carry *)

Carries(queue, m) == \E i \in 1..Len(queue) : queue[i] = m
AllFailed(queue) == \A i \in 1..Len(queue) : queue[i] = "failed"
FailedLast(queue) ==
  \A i, j \in 1..Len(queue) : i <= j /\ queue[i] = "failed" => queue[j] = "failed"

LEMMA AppendCarries ==
  ASSUME NEW q \in Seq(Messages), NEW x \in Messages
  PROVE  /\ \A m : Carries(Append(q, x), m) => Carries(q, m) \/ m = x
         /\ AllFailed(q) /\ x = "failed" => AllFailed(Append(q, x))
         /\ FailedLast(q) /\ (Carries(q, "failed") => x = "failed")
              => FailedLast(Append(q, x))
         /\ Append(q, x) # <<>>
         /\ q # <<>> => Head(Append(q, x)) = Head(q)
<1>1. /\ Len(Append(q, x)) = Len(q) + 1 /\ Append(q, x)[Len(q) + 1] = x
      /\ \A i \in 1..Len(q) : Append(q, x)[i] = q[i]
      /\ Len(q) \in Nat
  OBVIOUS
<1>2. \A m : Carries(Append(q, x), m) => Carries(q, m) \/ m = x
  BY <1>1 DEF Carries
<1>3. AllFailed(q) /\ x = "failed" => AllFailed(Append(q, x))
  BY <1>1 DEF AllFailed
<1>4. FailedLast(q) /\ (Carries(q, "failed") => x = "failed") => FailedLast(Append(q, x))
  BY <1>1 DEF Carries, FailedLast
<1>5. Append(q, x) # <<>> /\ (q # <<>> => Head(Append(q, x)) = Head(q))
  <2>1. q # <<>> => Len(q) >= 1 /\ Head(q) = q[1]
    OBVIOUS
  <2>2. Append(q, x) # <<>> /\ Head(Append(q, x)) = Append(q, x)[1]
    OBVIOUS
  <2> QED BY <1>1, <2>1, <2>2
<1> QED BY <1>2, <1>3, <1>4, <1>5

LEMMA TailCarries ==
  ASSUME NEW q \in Seq(Messages), q # <<>>
  PROVE  /\ Head(q) \in Messages
         /\ Carries(q, Head(q))
         /\ \A m : Carries(Tail(q), m) => Carries(q, m)
         /\ AllFailed(q) => Head(q) = "failed" /\ AllFailed(Tail(q))
         /\ FailedLast(q) => FailedLast(Tail(q))
         /\ FailedLast(q) /\ Head(q) = "failed" => AllFailed(q)
<1>1. /\ Len(q) \in Nat /\ Len(q) >= 1 /\ Head(q) = q[1] /\ Head(q) \in Messages
      /\ Len(Tail(q)) = Len(q) - 1
      /\ \A i \in 1..Len(Tail(q)) : Tail(q)[i] = q[i + 1]
  OBVIOUS
<1>2. Carries(q, Head(q)) /\ \A m : Carries(Tail(q), m) => Carries(q, m)
  BY <1>1 DEF Carries
<1>3. AllFailed(q) => Head(q) = "failed" /\ AllFailed(Tail(q))
  BY <1>1 DEF AllFailed
<1>4. FailedLast(q) => FailedLast(Tail(q))
  BY <1>1 DEF FailedLast
<1>5. FailedLast(q) /\ Head(q) = "failed" => AllFailed(q)
  BY <1>1 DEF FailedLast, AllFailed
<1> QED BY <1>1, <1>2, <1>3, <1>4, <1>5

\* A child that has failed says nothing else, so its failure is the last
\* message of a session that goes on.
FailureInv ==
  /\ Carries(toParent, "failed") \/ Carries(chain, "failed") => pc = "failing"
  /\ ~rec.quiet =>
       /\ FailedLast(toParent) /\ FailedLast(chain)
       /\ Carries(chain, "failed") => AllFailed(toParent)

\* Nothing but failures can follow.
Over == pc = "failing" /\ AllFailed(chain) /\ AllFailed(toParent)

\* What is acknowledged has happened; a published session keeps its receipt
\* and its binding, or is over.
PublishInv ==
  /\ Carries(toChild, "artifact-ack") => stored
  /\ Carries(toChild, "publication-ack") => answers = 1
  /\ step # "idle" => Head(chain) # "failed"
  /\ step \in {"stored", "publishing", "published"} => stored
  /\ step \in {"publishing", "published"} => bound
  /\ step = "publishing" => answers = 0
  /\ step = "published" => answers = 1
  /\ receipt => answers = 1
  /\ ~rec.quiet /\ answers # 0 /\ step # "published" => (bound /\ receipt) \/ Over

SessionInv ==
  /\ TypeOK /\ RecordInv /\ FailureInv /\ PublishInv /\ PublishedBeforeSuccess

LEMMA InitSession == Init => SessionInv
<1> SUFFICES ASSUME Init PROVE SessionInv
  OBVIOUS
<1>1. FailureInv /\ PublishInv
  BY DEF Init, SupervisorInit, FailureInv, PublishInv, Carries, FailedLast
<1>2. PublishedBeforeSuccess
  BY DEF Init, SupervisorInit, PublishedBeforeSuccess, Bound
<1> QED BY <1>1, <1>2, InitTypes DEF SessionInv

-----------------------------------------------------------------------------
(* The supervisor's steps and what is published *)

LEMMA QuietStays ==
  ASSUME TypeOK, RecordInv, SupervisorNext
  PROVE  rec.quiet => rec'.quiet
<1>0. rec \in Records
  BY DEF Records, TypeOK, SupervisorTypeOK
<1>1. CASE GraceEnds \/ ObserveExit
  BY <1>0, <1>1 DEF GraceEnds, ObserveExit, Records, NewRecord
<1>2. CASE StopRequested \/ ObserveSessionMessage
  BY <1>0, <1>2, TerminatedFacts DEF StopRequested, ObserveSessionMessage
<1>3. CASE Abort \/ DeadlineTimer
  BY <1>0, <1>3, LaunchFailedFacts DEF Abort, DeadlineTimer
<1>4. CASE DeadlinePasses \/ PayloadFails \/ PayloadReady \/ SpawnThrows
  BY <1>4 DEF DeadlinePasses, PayloadFails, PayloadReady, SpawnThrows
<1>5. CASE Spawn
  BY <1>5 DEF Spawn, RecordInv, NewRecord
<1>6. CASE ObserveSpawn
  <2>1. [rec EXCEPT !.spawned = TRUE] \in Records /\ [rec EXCEPT !.spawned = TRUE].quiet = rec.quiet
    BY <1>0 DEF Records, NewRecord
  <2> QED BY <1>6, <2>1, LaunchFailedFacts DEF ObserveSpawn
<1>7. CASE ObserveReady
  <2>1. [rec EXCEPT !.ready = TRUE].quiet = rec.quiet
    BY <1>0 DEF Records, NewRecord
  <2> QED BY <1>0, <1>7, <2>1, LaunchFailedFacts DEF ObserveReady
<1>8. CASE ObserveClose \/ ObserveSpawnError
  BY <1>0, <1>8, ClosedFacts DEF ObserveClose, ObserveSpawnError, Closed
<1> QED BY <1>1, <1>2, <1>3, <1>4, <1>5, <1>6, <1>7, <1>8 DEF SupervisorNext

\* The supervisor sends the launch message and moves the child's messages on.
LEMMA SupervisorQueues ==
  ASSUME TypeOK, SupervisorNext
  PROVE  /\ toChild' = toChild \/ toChild' = Append(toChild, "launch")
         /\ exit' = exit \/ exit' = "nonzero"
         /\ \/ UNCHANGED <<toParent, chain>>
            \/ /\ toParent # <<>> /\ toParent' = Tail(toParent)
               /\ chain' = chain \/ chain' = Append(chain, Head(toParent))
  BY DEF SupervisorNext, GraceEnds, StopRequested, Abort, DeadlinePasses, DeadlineTimer,
     PayloadFails, PayloadReady, Spawn, SpawnThrows, ObserveSpawn, ObserveReady,
     ObserveSessionMessage, ObserveExit, ObserveClose, ObserveSpawnError, Closed

LEMMA SupervisorKeepsPublished ==
  ASSUME SessionInv, SupervisorNext, UNCHANGED <<childVars, adapterVars>>
  PROVE  FailureInv' /\ PublishInv' /\ PublishedBeforeSuccess'
<1>0. /\ TypeOK /\ RecordInv /\ FailureInv /\ PublishInv /\ PublishedBeforeSuccess
      /\ toChild \in Seq(Messages) /\ toParent \in Seq(Messages) /\ chain \in Seq(Messages)
      /\ "launch" \in Messages
  BY DEF SessionInv, TypeOK, SupervisorTypeOK, Messages
<1>1. UNCHANGED <<pc, step, bound, receipt, stored, answers>>
  BY DEF childVars, adapterVars
<1>2. rec.quiet => rec'.quiet
  BY <1>0, QuietStays
<1>3. \A m : m # "launch" /\ Carries(toChild', m) => Carries(toChild, m)
  <2>1. CASE toChild' = toChild
    BY <2>1
  <2>2. CASE toChild' = Append(toChild, "launch")
    BY <1>0, <2>2, AppendCarries
  <2> QED BY <1>0, <2>1, <2>2, SupervisorQueues
<1>4. /\ \A m : Carries(toParent', m) => Carries(toParent, m)
      /\ AllFailed(toParent) => AllFailed(toParent')
      /\ FailedLast(toParent) => FailedLast(toParent')
  BY <1>0, SupervisorQueues, TailCarries
<1>5. /\ \A m : Carries(chain', m) => Carries(chain, m) \/ Carries(toParent, m)
      /\ AllFailed(chain) /\ AllFailed(toParent) => AllFailed(chain')
      /\ chain # <<>> => Head(chain') = Head(chain)
  <2>1. CASE chain' = chain
    BY <2>1
  <2>2. CASE toParent # <<>> /\ chain' = Append(chain, Head(toParent))
    BY <1>0, <2>2, TailCarries, AppendCarries
  <2> QED BY <1>0, <2>1, <2>2, SupervisorQueues
<1>6. FailureInv'
  <2>1. Carries(toParent', "failed") \/ Carries(chain', "failed") => pc' = "failing"
    BY <1>0, <1>1, <1>4, <1>5 DEF FailureInv
  <2>2. ASSUME ~rec'.quiet
        PROVE  /\ FailedLast(toParent') /\ FailedLast(chain')
               /\ Carries(chain', "failed") => AllFailed(toParent')
    <3>1. /\ FailedLast(toParent) /\ FailedLast(chain)
          /\ Carries(chain, "failed") => AllFailed(toParent)
      BY <1>0, <1>2, <2>2 DEF FailureInv
    <3>2. CASE chain' = chain
      BY <1>4, <3>1, <3>2
    <3>3. CASE toParent # <<>> /\ toParent' = Tail(toParent) /\ chain' = Append(chain, Head(toParent))
      <4>1. FailedLast(chain')
        BY <1>0, <3>1, <3>3, AppendCarries, TailCarries
      <4>2. Carries(chain', "failed") => AllFailed(toParent)
        BY <1>0, <3>1, <3>3, AppendCarries, TailCarries
      <4> QED BY <1>4, <3>1, <4>1, <4>2
    <3> QED BY <3>2, <3>3, SupervisorQueues, <1>0
  <2> QED BY <2>1, <2>2 DEF FailureInv
<1>7. Over => Over'
  BY <1>1, <1>4, <1>5 DEF Over
<1>8. PublishInv'
  <2>1. step # "idle" => chain # <<>>
    BY <1>0 DEF RecordInv
  <2> QED BY <1>0, <1>1, <1>2, <1>3, <1>5, <1>7, <2>1 DEF PublishInv
<1>9. PublishedBeforeSuccess'
  BY <1>0, <1>1, <1>2, SupervisorQueues DEF PublishedBeforeSuccess, Bound
<1> QED BY <1>6, <1>8, <1>9

-----------------------------------------------------------------------------
(* The child's steps and what is published *)

\* After a failure the child sends nothing but failures.
LEMMA ChildSends ==
  ASSUME TypeOK, ChildSteps
  PROVE  \/ toParent' = toParent /\ pc' = pc
         \/ toParent' = Append(toParent, "failed") /\ pc' = "failing"
         \/ \E m \in Messages \ {"failed"} :
              toParent' = Append(toParent, m) /\ pc # "failing"
<1>1. CASE ChildLaunches \/ ChildRequestsArtifact \/ ChildFails \/ ChildExits
  BY <1>1 DEF ChildLaunches, ChildRequestsArtifact, ChildFails, ChildExits, Sends, Exits, Messages
<1>2. CASE ChildAcknowledged
  BY <1>2 DEF ChildAcknowledged, Sends, Messages
<1>3. CASE ChildStrays
  BY <1>3 DEF ChildStrays, Sends, Messages
<1> QED BY <1>1, <1>2, <1>3 DEF ChildSteps

\* A child goes on after the acknowledgement it waits for, and exits with 0
\* after the other one.
LEMMA ChildWaits ==
  ASSUME TypeOK, ChildSteps
  PROVE  /\ pc' = "awaiting-publication" =>
              \/ pc = "awaiting-publication"
              \/ toChild # <<>> /\ Head(toChild) = "artifact-ack"
         /\ exit' = "zero" =>
              \/ exit = "zero"
              \/ toChild # <<>> /\ Head(toChild) = "publication-ack"
<1>1. CASE ChildLaunches \/ ChildRequestsArtifact \/ ChildFails \/ ChildExits
  BY <1>1 DEF ChildLaunches, ChildRequestsArtifact, ChildFails, ChildExits, ChildOnly, Exits
<1>2. CASE ChildAcknowledged
  BY <1>2 DEF ChildAcknowledged
<1>3. CASE ChildStrays
  BY <1>3 DEF ChildStrays, ChildOnly
<1> QED BY <1>1, <1>2, <1>3 DEF ChildSteps

LEMMA ChildKeepsPublished ==
  ASSUME SessionInv, ChildSteps
  PROVE  FailureInv' /\ PublishInv' /\ PublishedBeforeSuccess'
<1>0. /\ TypeOK /\ FailureInv /\ PublishInv /\ PublishedBeforeSuccess
      /\ toChild \in Seq(Messages) /\ toParent \in Seq(Messages) /\ chain \in Seq(Messages)
      /\ "failed" \in Messages
  BY DEF SessionInv, TypeOK, SupervisorTypeOK, Messages
<1>1. UNCHANGED <<rec, chain, step, bound, receipt, stored, answers>>
  BY <1>0, ChildEffect DEF adapterVars
<1>2. \A m : Carries(toChild', m) => Carries(toChild, m)
  BY <1>0, ChildQueues, TailCarries
<1>4. FailureInv' /\ (Over => Over')
  <2>1. CASE toParent' = toParent /\ pc' = pc
    BY <1>0, <1>1, <2>1 DEF FailureInv, Over
  <2>2. CASE toParent' = Append(toParent, "failed") /\ pc' = "failing"
    <3>1. /\ AllFailed(toParent) => AllFailed(toParent')
          /\ FailedLast(toParent) => FailedLast(toParent')
      BY <1>0, <2>2, AppendCarries
    <3> QED BY <1>0, <1>1, <2>2, <3>1 DEF FailureInv, Over
  <2>3. ASSUME NEW m \in Messages \ {"failed"}, toParent' = Append(toParent, m), pc # "failing"
        PROVE  FailureInv' /\ (Over => Over')
    <3>1. ~Carries(toParent, "failed") /\ ~Carries(chain, "failed")
      BY <1>0, <2>3 DEF FailureInv
    <3>2. ~Carries(toParent', "failed") /\ (FailedLast(toParent) => FailedLast(toParent'))
      BY <1>0, <2>3, <3>1, AppendCarries
    <3> QED BY <1>0, <1>1, <2>3, <3>1, <3>2 DEF FailureInv, Over
  <2> QED BY <1>0, <2>1, <2>2, <2>3, ChildSends
<1>5. PublishInv'
  BY <1>0, <1>1, <1>2, <1>4 DEF PublishInv
<1>6. /\ toChild # <<>> /\ Head(toChild) = "artifact-ack" => stored
      /\ toChild # <<>> /\ Head(toChild) = "publication-ack" => answers = 1
  BY <1>0, TailCarries DEF PublishInv
<1>7. PublishedBeforeSuccess'
  BY <1>0, <1>1, <1>6, ChildWaits DEF PublishedBeforeSuccess, Bound
<1> QED BY <1>4, <1>5, <1>7

-----------------------------------------------------------------------------
(* The adapter's steps and what is published *)

LEMMA RejectionEnds ==
  ASSUME TypeOK, RecordInv, rec' = Terminated(rec)
  PROVE  rec'.quiet
<1>1. rec \in Records
  BY DEF Records, TypeOK, SupervisorTypeOK
<1> QED BY <1>1, TerminatedFacts DEF RecordInv

LEMMA AdapterKeepsFailure ==
  ASSUME SessionInv, AdapterSteps
  PROVE  FailureInv' /\ (Over => Over')
<1>0. /\ TypeOK /\ RecordInv /\ FailureInv /\ chain \in Seq(Messages) /\ chain # <<>>
      /\ UNCHANGED <<pc, toParent>>
  BY AdapterEffect DEF SessionInv, TypeOK, SupervisorTypeOK, AdapterOnly, childVars
<1>1. rec.quiet => rec'.quiet
  BY <1>0, AdapterEffect, RejectionEnds
<1>2. /\ \A m : Carries(chain', m) => Carries(chain, m)
      /\ AllFailed(chain) => AllFailed(chain')
      /\ FailedLast(chain) => FailedLast(chain')
  BY <1>0, AdapterEffect, TailCarries
<1> QED BY <1>0, <1>1, <1>2 DEF FailureInv, Over

\* When a handler rejects, the session is over and nothing is promised of it.
LEMMA RejectionKeepsPublished ==
  ASSUME SessionInv, AdapterOnly, rec' = Terminated(rec), step' = "idle",
         UNCHANGED <<toChild, bound, receipt, answers>>, stored' \in {stored, TRUE}
  PROVE  PublishInv' /\ PublishedBeforeSuccess'
<1>1. rec'.quiet
  BY RejectionEnds DEF SessionInv
<1> QED BY <1>1 DEF SessionInv, PublishInv, PublishedBeforeSuccess, Bound, AdapterOnly,
           childVars

LEMMA AcknowledgedQueue ==
  ASSUME TypeOK, NEW ack \in Messages, toChild' = Append(toChild, ack)
  PROVE  \A m : Carries(toChild', m) => Carries(toChild, m) \/ m = ack
  BY AppendCarries DEF TypeOK, SupervisorTypeOK

LEMMA AdapterKeepsPublished ==
  ASSUME SessionInv, AdapterSteps
  PROVE  PublishInv' /\ PublishedBeforeSuccess'
<1>0. /\ TypeOK /\ RecordInv /\ FailureInv /\ PublishInv /\ PublishedBeforeSuccess
      /\ chain \in Seq(Messages) /\ chain # <<>>
      /\ AdapterOnly /\ UNCHANGED <<pc, exit>>
  BY AdapterEffect DEF SessionInv, TypeOK, SupervisorTypeOK, AdapterOnly, childVars
<1>1. Over => Over'
  BY AdapterKeepsFailure
<1>2. CASE SkipMessage
  BY <1>0, <1>2 DEF SkipMessage, HandlerReturns, PublishInv, PublishedBeforeSuccess, Bound
<1>3. CASE HandleFailure
  <2>1. UNCHANGED <<rec, toChild, receipt, stored, answers>> /\ step' = "idle"
        /\ bound' = FALSE /\ ~rec.quiet /\ Head(chain) = "failed"
    BY <1>3 DEF HandleFailure, HandlerReturns
  <2>2. Over
    BY <1>0, <2>1, TailCarries DEF FailureInv, Over
  <2> QED BY <1>0, <1>1, <2>1, <2>2 DEF PublishInv, PublishedBeforeSuccess, Bound
<1>4. CASE RefuseMessage
  BY <1>4, RejectionKeepsPublished DEF RefuseMessage, HandlerRejects
<1>5. CASE HandleArtifact
  <2>1. CASE HandlerRejects
    BY <1>0, <2>1, RejectionKeepsPublished DEF HandlerRejects
  <2>2. CASE /\ step' = "storing" /\ Head(chain) = "artifact"
             /\ UNCHANGED <<rec, toChild, chain, bound, receipt, stored, answers>>
    BY <1>0, <1>1, <1>5, <2>2 DEF HandleArtifact, PublishInv, PublishedBeforeSuccess, Bound
  <2> QED BY <1>5, <2>1, <2>2 DEF HandleArtifact
<1>6. CASE StoreArtifact
  <2>1. CASE /\ stored' = TRUE /\ step' = "stored"
             /\ UNCHANGED <<rec, toChild, chain, bound, receipt, answers>>
    BY <1>0, <1>1, <1>6, <2>1 DEF StoreArtifact, PublishInv, PublishedBeforeSuccess, Bound
  <2>2. CASE /\ stored' \in {stored, TRUE} /\ rec' = Terminated(rec) /\ step' = "idle"
             /\ UNCHANGED <<toChild, bound, receipt, answers>>
    BY <1>0, <2>2, RejectionKeepsPublished
  <2> QED BY <1>6, <2>1, <2>2 DEF StoreArtifact
<1>7. CASE BindArtifact
  <2>1. CASE HandlerRejects
    BY <1>0, <2>1, RejectionKeepsPublished DEF HandlerRejects
  <2>2. CASE /\ ~rec.quiet /\ bound' = TRUE /\ receipt' = (bound /\ receipt)
             /\ Acknowledges("artifact-ack")
    <3>1. \A m : Carries(toChild', m) => Carries(toChild, m) \/ m = "artifact-ack"
      BY <1>0, <2>2, AcknowledgedQueue DEF Acknowledges, Messages
    <3>2. step = "stored" /\ stored /\ Head(chain) # "failed"
      BY <1>0, <1>7 DEF BindArtifact, PublishInv
    <3>3. ~Over
      BY <1>0, <3>2, TailCarries DEF Over
    <3>4. answers # 0 => bound /\ receipt
      BY <1>0, <2>2, <3>2, <3>3 DEF PublishInv
    <3> QED BY <1>0, <2>2, <3>1, <3>2, <3>4
            DEF Acknowledges, PublishInv, PublishedBeforeSuccess, Bound
  <2> QED BY <1>7, <2>1, <2>2 DEF BindArtifact
<1>8. CASE HandlePublication
  <2>0. ~rec.quiet /\ step = "idle" /\ Head(chain) = "publication"
    BY <1>8 DEF HandlePublication
  <2>1. CASE HandlerRejects
    BY <1>0, <2>1, RejectionKeepsPublished DEF HandlerRejects
  <2>2. CASE Bound /\ receipt /\ Acknowledges("publication-ack") /\ UNCHANGED <<bound, receipt>>
    <3>1. \A m : Carries(toChild', m) => Carries(toChild, m) \/ m = "publication-ack"
      BY <1>0, <2>2, AcknowledgedQueue DEF Acknowledges, Messages
    <3>2. bound /\ answers = 1
      BY <1>0, <2>2 DEF PublishInv, Bound
    <3> QED BY <1>0, <2>2, <3>1, <3>2
            DEF Acknowledges, PublishInv, PublishedBeforeSuccess, Bound
  <2>3. CASE /\ Bound /\ ~receipt /\ step' = "publishing"
             /\ UNCHANGED <<rec, toChild, chain, bound, receipt, stored, answers>>
    <3>1. ~Over
      BY <1>0, <2>0, TailCarries DEF Over
    <3>2. answers = 0 /\ bound /\ stored
      BY <1>0, <2>0, <2>3, <3>1 DEF PublishInv, PublishedBeforeSuccess, Bound
    <3> QED BY <1>0, <2>0, <2>3, <3>2 DEF PublishInv, PublishedBeforeSuccess, Bound
  <2> QED BY <1>8, <2>1, <2>2, <2>3 DEF HandlePublication
<1>9. CASE Publish
  <2>1. CASE HandlerRejects
    BY <1>0, <2>1, RejectionKeepsPublished DEF HandlerRejects
  <2>2. CASE /\ answers' = answers + 1 /\ step' = "published"
             /\ UNCHANGED <<rec, toChild, chain, bound, receipt, stored>>
    <3>1. step = "publishing" /\ answers = 0 /\ answers' = 1
      BY <1>0, <1>9, <2>2 DEF Publish, PublishInv
    <3> QED BY <1>0, <2>2, <3>1 DEF PublishInv, PublishedBeforeSuccess, Bound
  <2> QED BY <1>9, <2>1, <2>2 DEF Publish
<1>10. CASE AcknowledgePublication
  <2>1. CASE HandlerRejects
    BY <1>0, <2>1, RejectionKeepsPublished DEF HandlerRejects
  <2>2. CASE bound' = bound /\ receipt' = TRUE /\ Acknowledges("publication-ack")
    <3>1. \A m : Carries(toChild', m) => Carries(toChild, m) \/ m = "publication-ack"
      BY <1>0, <2>2, AcknowledgedQueue DEF Acknowledges, Messages
    <3>2. bound /\ answers = 1
      BY <1>0, <1>10 DEF AcknowledgePublication, PublishInv
    <3> QED BY <1>0, <2>2, <3>1, <3>2
            DEF Acknowledges, PublishInv, PublishedBeforeSuccess, Bound
  <2> QED BY <1>10, <2>1, <2>2 DEF AcknowledgePublication
<1> QED BY <1>2, <1>3, <1>4, <1>5, <1>6, <1>7, <1>8, <1>9, <1>10 DEF AdapterSteps

LEMMA NextKeepsSession == SessionInv /\ [Next]_vars => SessionInv'
<1> SUFFICES ASSUME SessionInv, [Next]_vars PROVE SessionInv'
  OBVIOUS
<1>1. TypeOK' /\ RecordInv'
  BY NextKeepsTypes DEF SessionInv
<1>2. CASE Next
  BY <1>1, <1>2, StepCases, SupervisorKeepsPublished, ChildKeepsPublished,
     AdapterKeepsFailure, AdapterKeepsPublished DEF SessionInv
<1>3. CASE UNCHANGED vars
  BY <1>1, <1>3 DEF vars, supervisorVars, childVars, adapterVars, SessionInv, FailureInv, Over,
     PublishInv, PublishedBeforeSuccess, Bound
<1> QED BY <1>2, <1>3

LEMMA SessionInvariant == Spec => []SessionInv
  BY InitSession, NextKeepsSession, PTL DEF Spec

\* Success means published, once, whatever the child repeats and whatever is
\* rejected on the way.
THEOREM SuccessIsPublished == Spec => []PublishedBeforeSuccess
<1>1. SessionInv => PublishedBeforeSuccess
  BY DEF SessionInv
<1> QED BY <1>1, SessionInvariant, PTL

-----------------------------------------------------------------------------
(* The supervisor implements the contract of spawn *)

contractVars == <<launchOf, processOf, askedOf, reportOf>>

LEMMA InitImplements == Init => Contract!Init
  BY DEF Init, SupervisorInit, Contract!Init, launchOf, processOf, askedOf, reportOf,
     Unsettled, NewRecord

\* A session that ends is an order to the process, if there still is one.
LEMMA TerminationImplements ==
  ASSUME TypeOK, RecordInv, rec' = Terminated(rec), rec.ready,
         UNCHANGED <<launch, process, exit, report>>
  PROVE  Contract!Ask \/ UNCHANGED contractVars
<1>0. rec \in Records /\ rec'.stopping \in BOOLEAN /\ rec.stopping \in BOOLEAN
  BY TerminatedFacts, RecordsAre DEF Records, TypeOK, SupervisorTypeOK
<1>1. CASE rec'.stopping = rec.stopping
  BY <1>1 DEF contractVars, launchOf, processOf, askedOf, reportOf, Unsettled
<1>2. CASE rec'.stopping # rec.stopping
  <2>1. rec'.stopping /\ ~rec.stopping /\ ~rec.closed
    BY <1>0, <1>2, TerminatedFacts
  <2>2. launch = "resolved" /\ report = "none" /\ process \in {"live", "ended"}
    BY <2>1 DEF RecordInv, TypeOK, SupervisorTypeOK, NewRecord
  <2> QED BY <2>1, <2>2 DEF Contract!Ask, launchOf, processOf, askedOf, reportOf, Unsettled
<1> QED BY <1>1, <1>2

LEMMA LaunchImplements ==
  ASSUME TypeOK, RecordInv, LaunchSteps
  PROVE  [Contract!Next]_contractVars
<1> USE DEF contractVars, launchOf, processOf, askedOf, reportOf, Unsettled
<1>0. rec \in Records /\ launch \in {"preparing", "prepared", "pending", "resolved", "rejected"}
      /\ process \in {"none", "unspawnable", "live", "ended"}
  BY DEF Records, TypeOK, SupervisorTypeOK
<1>1. CASE launch = "preparing" /\ launch' = "rejected" /\ UNCHANGED <<rec, process, exit, report>>
  BY <1>1 DEF Contract!Next, Contract!Reject, RecordInv
<1>2. CASE launch' = launch /\ UNCHANGED <<process, exit, report>> /\ rec' = rec
  BY <1>2
<1>3. CASE launch = "pending" /\ launch' = launch /\ UNCHANGED <<process, exit, report>>
           /\ rec' = LaunchFailed(rec)
  BY <1>0, <1>3, LaunchFailedFacts, RecordsAre DEF Contract!Next, Contract!Ask, RecordInv
<1>4. CASE PayloadReady
  BY <1>4 DEF PayloadReady
<1>5. CASE SpawnThrows
  BY <1>5 DEF SpawnThrows, Contract!Next, Contract!Reject, RecordInv
<1>6. CASE Spawn
  <2>1. launch = "prepared" /\ launch' = "pending" /\ process = "none" /\ ~rec.stopping
        /\ process' \in {"live", "unspawnable"} /\ UNCHANGED <<exit, report>>
    BY <1>6 DEF Spawn, RecordInv, NewRecord
  <2>2. rec'.stopping \in BOOLEAN
    BY <1>6, NewRecordTyped, LaunchFailedFacts, RecordsAre DEF Spawn
  <2> QED BY <2>1, <2>2 DEF Contract!Next, Contract!Start
<1>7. CASE ObserveSpawn
  <2> DEFINE spawned == [rec EXCEPT !.spawned = TRUE]
  <2>1. spawned \in Records /\ spawned.stopping = rec.stopping /\ spawned.closed = rec.closed
    BY <1>0 DEF Records, NewRecord
  <2>2. rec' = spawned \/ rec' = LaunchFailed(spawned)
    BY <1>7 DEF ObserveSpawn
  <2> HIDE DEF spawned
  <2>3. rec'.stopping \in BOOLEAN /\ (rec.stopping => rec'.stopping) /\ rec.stopping \in BOOLEAN
    BY <1>0, <2>1, <2>2, LaunchFailedFacts, RecordsAre
  <2>4. launch = "pending" /\ UNCHANGED <<launch, process, exit, report>>
    BY <1>7 DEF ObserveSpawn
  <2> QED BY <2>3, <2>4 DEF Contract!Next, Contract!Ask, RecordInv
<1> QED BY <1>1, <1>2, <1>3, <1>4, <1>5, <1>6, <1>7
        DEF LaunchSteps, Abort, DeadlinePasses, DeadlineTimer, PayloadFails

LEMMA RunningImplements ==
  ASSUME TypeOK, RecordInv, RunningSteps
  PROVE  [Contract!Next]_contractVars
<1> USE DEF contractVars, launchOf, processOf, askedOf, reportOf, Unsettled
<1>0. rec \in Records /\ launch \in {"preparing", "prepared", "pending", "resolved", "rejected"}
      /\ process \in {"none", "unspawnable", "live", "ended"}
      /\ exit \in {"none", "zero", "nonzero"} /\ rec.stopping \in BOOLEAN
  <2>1. rec \in Records
    BY DEF Records, TypeOK, SupervisorTypeOK
  <2>2. rec.stopping \in BOOLEAN
    BY <2>1, RecordsAre
  <2> QED BY <2>1, <2>2 DEF TypeOK, SupervisorTypeOK
<1>1. CASE GraceEnds
  <2>1. rec'.stopping = rec.stopping
    BY <1>0, <1>1 DEF GraceEnds, Records, NewRecord
  <2> QED BY <1>0, <1>1, <2>1 DEF GraceEnds, Contract!Next, Contract!End, Contract!Ended
<1>2. CASE StopRequested
  BY <1>2, TerminationImplements DEF StopRequested, RecordInv, Contract!Next
<1>3. CASE ObserveReady
  <2>1. launch = "pending" /\ process \in {"live", "ended"}
        /\ UNCHANGED <<process, exit, report>>
    BY <1>0, <1>3 DEF ObserveReady, RecordInv, NewRecord
  <2>2. CASE UNCHANGED <<launch, rec>>
    BY <2>1, <2>2
  <2>3. CASE ~rec.failed /\ launch' = "resolved" /\ rec' = [rec EXCEPT !.ready = TRUE]
    <3>1. rec'.stopping = rec.stopping
      BY <1>0, <2>3 DEF Records, NewRecord
    <3>2. ~rec.stopping /\ report = "none"
      BY <1>0, <2>1, <2>3 DEF RecordInv, TypeOK, SupervisorTypeOK
    <3> QED BY <2>1, <2>3, <3>1, <3>2 DEF Contract!Next, Contract!Resolve
  <2>4. CASE launch' = launch /\ rec' = LaunchFailed(rec)
    <3>1. rec'.stopping \in BOOLEAN /\ (rec.stopping => rec'.stopping)
      BY <1>0, <2>4, LaunchFailedFacts, RecordsAre
    <3> QED BY <1>0, <2>1, <2>4, <3>1 DEF Contract!Next, Contract!Ask
  <2> QED BY <1>3, <2>1, <2>2, <2>3, <2>4 DEF ObserveReady
<1>4. CASE ObserveSessionMessage
  <2>1. rec.ready /\ rec' \in {rec, Terminated(rec)} /\ UNCHANGED <<launch, process, exit, report>>
    BY <1>4 DEF ObserveSessionMessage
  <2> QED BY <2>1, TerminationImplements DEF Contract!Next
<1>5. CASE ObserveExit
  <2>1. rec'.stopping = rec.stopping
    BY <1>0, <1>5 DEF ObserveExit, Records, NewRecord
  <2> QED BY <1>5, <2>1 DEF ObserveExit
<1>6. CASE ObserveClose
  <2>1. rec'.stopping = rec.stopping /\ ~rec.closed /\ process = "ended"
        /\ UNCHANGED <<process, exit>>
    BY <1>0, <1>6, ClosedFacts DEF ObserveClose, Closed, RecordInv
  <2>2. launch \in {"pending", "resolved"} /\ report = "none"
    BY <1>0, <2>1 DEF RecordInv, TypeOK, SupervisorTypeOK
  <2>3. CASE launch = "pending"
    BY <1>6, <2>1, <2>2, <2>3 DEF ObserveClose, Closed, Contract!Next, Contract!Reject
  <2>4. CASE launch = "resolved"
    BY <1>0, <1>6, <2>1, <2>2, <2>4
       DEF ObserveClose, Closed, Contract!Next, Contract!Report, Contract!Ended
  <2> QED BY <2>2, <2>3, <2>4
<1>7. CASE ObserveSpawnError
  <2>1. process = "unspawnable" /\ launch = "pending" /\ launch' = "rejected"
        /\ UNCHANGED <<process, exit>>
    BY <1>0, <1>7 DEF ObserveSpawnError, Closed, RecordInv
  <2> QED BY <2>1 DEF Contract!Next, Contract!Reject
<1> QED BY <1>1, <1>2, <1>3, <1>4, <1>5, <1>6, <1>7 DEF RunningSteps

LEMMA ChildImplements ==
  ASSUME TypeOK, RecordInv, ChildSteps
  PROVE  [Contract!Next]_contractVars
<1>1. UNCHANGED <<launch, rec, report>> /\ process = "live"
      /\ \/ UNCHANGED <<process, exit>>
         \/ process' = "ended" /\ exit' \in {"zero", "nonzero"}
  BY ChildEffect
<1> QED BY <1>1 DEF Contract!Next, Contract!End, Contract!Ended, contractVars, launchOf, processOf,
           askedOf, reportOf, Unsettled

LEMMA AdapterImplements ==
  ASSUME TypeOK, RecordInv, AdapterSteps
  PROVE  [Contract!Next]_contractVars
<1>1. UNCHANGED <<launch, process, exit, report>> /\ rec' \in {rec, Terminated(rec)} /\ rec.ready
  BY AdapterEffect DEF AdapterOnly, RecordInv
<1>2. CASE rec' = rec
  BY <1>1, <1>2 DEF contractVars, launchOf, processOf, askedOf, reportOf, Unsettled
<1>3. CASE rec' = Terminated(rec)
  BY <1>1, <1>3, TerminationImplements DEF Contract!Next
<1> QED BY <1>1, <1>2, <1>3

LEMMA NextImplements ==
  TypeOK /\ RecordInv /\ [Next]_vars => [Contract!Next]_contractVars
<1> SUFFICES ASSUME TypeOK, RecordInv, [Next]_vars PROVE [Contract!Next]_contractVars
  OBVIOUS
<1>1. CASE SupervisorNext
  BY <1>1, LaunchImplements, RunningImplements DEF SupervisorNext, LaunchSteps, RunningSteps
<1>2. CASE ChildSteps \/ AdapterSteps
  BY <1>2, ChildImplements, AdapterImplements
<1>3. CASE UNCHANGED vars
  BY <1>3 DEF vars, supervisorVars, contractVars, launchOf, processOf, askedOf, reportOf, Unsettled
<1> QED BY <1>1, <1>2, <1>3, StepCases

\* Every behaviour of supervisor, child and adapter is one of the contract: the
\* launch settles once, a rejection proves that no process runs and none will,
\* and a returned process is reported once, truly, after its end.
THEOREM SupervisorImplementsContract == Spec => ImplementsSupervisedProcess
  BY InitImplements, NextImplements, TypesInvariant, PTL
     DEF Spec, ImplementsSupervisedProcess, Contract!Spec, contractVars

=============================================================================
