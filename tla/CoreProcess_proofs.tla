------------------------- MODULE CoreProcess_proofs -------------------------
(***************************************************************************)
(* Theorems about ComputeServiceCore for all values of the constants: any   *)
(* number of tasks, leases, calls and rejected adapter calls, prompt or     *)
(* delayed replies.                                                         *)
(*                                                                         *)
(* Part one: every variable keeps its type.                                 *)
(*                                                                         *)
(* Part two: a live child is the attempt its record names.  That is not     *)
(* inductive by itself.  A start must know that its record is still the     *)
(* leased one it read, a failed start that its child was never launched,    *)
(* and the completion of a deletion that the record it overwrites is the    *)
(* deleting one.                                                            *)
(*                                                                         *)
(* Part three: the fields of every record agree, and every operation takes  *)
(* it along a transition of the state table.                                *)
(***************************************************************************)
EXTENDS CoreProperties, TLAPS

-----------------------------------------------------------------------------
(* Part one: types *)

\* The operators that build records return records.

LEMMA EarliestNat ==
  ASSUME NEW a \in Nat, NEW b \in Nat
  PROVE  Earliest(a, b) \in Nat /\ Earliest(a, b) <= a /\ Earliest(a, b) <= b
BY DEF Earliest

LEMMA LeaseExpiryNat ==
  ASSUME NEW r \in JobRecord, NEW at \in Nat, NEW d \in Nat
  PROVE  LeaseExpiry(r, at, d) \in Nat
<1>1. r.deadline \in Nat /\ r.ttl \in Nat
  BY DEF JobRecord
<1>2. Earliest(r.deadline, r.ttl) \in Nat /\ at + d \in Nat
  BY <1>1 DEF Earliest
<1> QED
  BY <1>2 DEF LeaseExpiry, Earliest

LEMMA DetachedType ==
  ASSUME NEW r \in JobRecord
  PROVE  Detached(r) \in JobRecord
<1>1. 0 \in 0..MaxEpoch /\ 0 \in Nat
  BY CoreAssumption DEF CoreAssumption
<1> QED
  BY <1>1 DEF Detached, JobRecord

LEMMA ReleasedType ==
  ASSUME NEW r \in JobRecord, NEW s \in States, NEW res \in 0..MaxEpoch,
         NEW f \in BOOLEAN
  PROVE  Released(r, s, res, f) \in JobRecord
BY DetachedType DEF Released, JobRecord

LEMMA StoppingType ==
  ASSUME NEW r \in JobRecord, NEW o \in PendingStopOutcomes
  PROVE  Stopping(r, o) \in JobRecord
BY DEF Stopping, JobRecord, States

LEMMA StopTargetState ==
  ASSUME NEW r \in JobRecord
  PROVE  StopTarget(r) \in States
BY DEF StopTarget, JobRecord, States, PendingStopOutcomes

LEMMA StoppedType ==
  ASSUME NEW r \in JobRecord
  PROVE  Stopped(r) \in JobRecord
<1>1. 0 \in 0..MaxEpoch
  BY CoreAssumption DEF CoreAssumption
<1>2. (StopTarget(r) = "failed" /\ r.failure) \in BOOLEAN
  OBVIOUS
<1> QED
  BY <1>1, <1>2, StopTargetState, ReleasedType DEF Stopped

LEMMA TemporalOutcomeType ==
  ASSUME NEW r \in JobRecord, NEW at \in Nat
  PROVE  TemporalOutcome(r, at) \in PendingStopOutcomes \cap States
BY DEF TemporalOutcome, PendingStopOutcomes, States

LEMMA FinalizedType ==
  ASSUME NEW r \in JobRecord, NEW x \in Child
  PROVE  Finalized(r, x) \in JobRecord
<1>1. x.at \in Nat /\ r.result \in 0..MaxEpoch /\ 0 \in 0..MaxEpoch
  BY CoreAssumption DEF Child, JobRecord, CoreAssumption
<1>2. {"succeeded", "failed"} \subseteq States
  BY DEF States
<1>3. TemporalOutcome(r, x.at) \in States
  BY <1>1, TemporalOutcomeType
<1> QED
  BY <1>1, <1>2, <1>3, ReleasedType DEF Finalized

LEMMA StartingRecordType ==
  ASSUME NEW r \in JobRecord, NEW e \in Epochs
  PROVE  StartingRecord(r, e) \in JobRecord
<1>1. 0 \in 0..MaxEpoch /\ e \in 0..MaxEpoch /\ "starting" \in States
  BY CoreAssumption DEF CoreAssumption, Epochs, States
<1>2. r.owned \cup {e} \in SUBSET Epochs /\ r.lease \in Nat
  BY DEF JobRecord
<1>3. Released(r, "starting", 0, FALSE) \in JobRecord
  BY <1>1, ReleasedType
<1> QED
  BY <1>1, <1>2, <1>3 DEF StartingRecord, StartingOwning, JobRecord

LEMMA NoRecordType == NoRecord \in JobRecord
BY CoreAssumption DEF NoRecord, JobRecord, CoreAssumption

-----------------------------------------------------------------------------
(* The building blocks of the actions keep their part of the type. *)

LEMMA WaitingReaders ==
  ASSUME NEW t \in Tasks
  PROVE  Waiting(t) \subseteq Readers
BY DEF Waiting, Readers

LEMMA CommitType ==
  ASSUME TypeOK, NEW t \in Tasks, NEW r \in JobRecord, Commit(t, r)
  PROVE  /\ rec' \in [Tasks -> JobRecord]
         /\ stale' \in SUBSET (Tasks \X Readers)
BY WaitingReaders DEF TypeOK, Commit

LEMMA FailType ==
  ASSUME TypeOK, Fail
  PROVE  failures' \in Nat
BY CoreAssumption DEF TypeOK, Fail, CoreAssumption

LEMMA PutAtType ==
  ASSUME NEW A, NEW B, NEW S, NEW f \in [A -> [B -> S]],
         NEW x \in A, NEW y \in B, NEW v \in S
  PROVE  PutAt(f, x, y, v) \in [A -> [B -> S]]
BY DEF PutAt

LEMMA Cells ==
  ASSUME TypeOK, NEW t \in Tasks
  PROVE  /\ \A e \in Epochs : /\ child[t][e] \in Child
                              /\ att[t][e] \in Attempt
                              /\ watch[t][e] \in Watch
         /\ \A p \in Calls : calls[t][p] \in Call
         /\ slots[t] \in Slot
BY DEF TypeOK

\* Updates of one field of a child, of an attempt and of a watch.
LEMMA ChildUpdates ==
  ASSUME NEW c \in Child
  PROVE  /\ [c EXCEPT !.stop = TRUE] \in Child
         /\ \A s \in {"spawning", "alive", "rejected"} :
              [c EXCEPT !.st = s] \in Child
         /\ \A ok \in BOOLEAN, at \in Nat :
              [c EXCEPT !.st = "exited", !.ok = ok, !.at = at] \in Child
         /\ [c EXCEPT !.late = TRUE] \in Child
BY DEF Child

AttemptStages ==
  {"none", "reserved", "racing", "deadline", "late", "startFailed", "binding",
   "done"}

LEMMA AttemptUpdates ==
  ASSUME NEW a \in Attempt
  PROVE  /\ \A pc \in AttemptStages : [a EXCEPT !.pc = pc] \in Attempt
         /\ [a EXCEPT !.pc = "late", !.late = TRUE] \in Attempt
BY DEF Attempt, AttemptStages

LEMMA WatchUpdates ==
  ASSUME NEW w \in Watch
  PROVE  \A pc \in {"tracked", "cleanup", "done"} :
           [w EXCEPT !.pc = pc] \in Watch
BY DEF Watch

LEMMA AskChildType ==
  ASSUME TypeOK, NEW t \in Tasks, NEW e \in Epochs
  PROVE  AskChild(t, e) \in [Tasks -> [Epochs -> Child]]
<1>1. child \in [Tasks -> [Epochs -> Child]]
  BY DEF TypeOK
<1>2. [child[t][e] EXCEPT !.stop = TRUE] \in Child
  BY Cells, ChildUpdates
<1> QED
  BY <1>1, <1>2, PutAtType DEF AskChild

LEMMA AskedType ==
  ASSUME TypeOK, NEW t \in Tasks, NEW r \in JobRecord
  PROVE  Asked(t, r) \in [Tasks -> [Epochs -> Child]]
<1>1. r.exec # 0 => r.exec \in Epochs
  BY CoreAssumption DEF JobRecord, Epochs, CoreAssumption
<1> QED
  BY <1>1, AskChildType DEF Asked, TypeOK

LEMMA RequestTerminationType ==
  ASSUME TypeOK, NEW t \in Tasks, NEW r \in JobRecord, RequestTermination(t, r)
  PROVE  child' \in [Tasks -> [Epochs -> Child]] /\ failures' \in Nat
BY AskedType, FailType DEF RequestTermination, TypeOK

LEMMA SetAttemptType ==
  ASSUME TypeOK, NEW t \in Tasks, NEW e \in Epochs, NEW pc \in AttemptStages,
         SetAttempt(t, e, pc)
  PROVE  att' \in [Tasks -> [Epochs -> Attempt]]
<1>1. att \in [Tasks -> [Epochs -> Attempt]]
  BY DEF TypeOK
<1>2. [att[t][e] EXCEPT !.pc = pc] \in Attempt
  BY Cells, AttemptUpdates
<1> QED
  BY <1>1, <1>2, PutAtType DEF SetAttempt

LEMMA SetWatchType ==
  ASSUME TypeOK, NEW t \in Tasks, NEW e \in Epochs,
         NEW pc \in {"tracked", "cleanup", "done"}, SetWatch(t, e, pc)
  PROVE  watch' \in [Tasks -> [Epochs -> Watch]]
<1>1. watch \in [Tasks -> [Epochs -> Watch]]
  BY DEF TypeOK
<1>2. [watch[t][e] EXCEPT !.pc = pc] \in Watch
  BY Cells, WatchUpdates
<1> QED
  BY <1>1, <1>2, PutAtType DEF SetWatch

LEMMA ReleaseUnstartedType ==
  ASSUME TypeOK, NEW t \in Tasks, NEW id, ReleaseUnstarted(t, id)
  PROVE  slots' \in [Tasks -> Slot]
BY CoreAssumption DEF TypeOK, ReleaseUnstarted, NoSlot, Slot, CoreAssumption

LEMMA BindChildType ==
  ASSUME TypeOK, NEW t \in Tasks, NEW e \in Epochs, BindChild(t, e)
  PROVE  slots' \in [Tasks -> Slot]
<1>1. slots \in [Tasks -> Slot] /\ e \in 0..MaxEpoch
  BY CoreAssumption DEF TypeOK, Epochs, CoreAssumption
<1>2. [slots[t] EXCEPT !.child = e] \in Slot
  BY <1>1 DEF Slot
<1> QED
  BY <1>1, <1>2 DEF BindChild

LEMMA ReservedSlotType ==
  ASSUME TypeOK, NEW t \in Tasks, NEW e \in Epochs
  PROVE  ReservedSlot(t, e) \in Slot
<1>1. slots \in [Tasks -> Slot] /\ e \in 0..MaxEpoch /\ 0 \in 0..MaxEpoch
  BY CoreAssumption DEF TypeOK, Epochs, CoreAssumption
<1> QED
  BY <1>1 DEF ReservedSlot, Slot

LEMMA ObserveTerminationType ==
  ASSUME TypeOK, NEW t \in Tasks, NEW id, NEW e, ObserveTermination(t, id, e)
  PROVE  slots' \in [Tasks -> Slot]
<1>1. slots \in [Tasks -> Slot] /\ NoSlot \in Slot
  BY CoreAssumption DEF TypeOK, NoSlot, Slot, CoreAssumption
<1> QED
  BY <1>1 DEF ObserveTermination

LEMMA StartEraseType ==
  ASSUME TypeOK, NEW t \in Tasks, StartErase(t)
  PROVE  erase' \in [Tasks -> {"idle", "erasing", "verifying"}]
BY DEF TypeOK, StartErase

LEMMA RecordFields ==
  ASSUME TypeOK, NEW t \in Tasks
  PROVE  /\ rec[t] \in JobRecord
         /\ rec[t].epoch \in 0..MaxEpoch /\ rec[t].lease \in Nat
         /\ rec[t].exec \in 0..MaxEpoch /\ rec[t].result \in 0..MaxEpoch
         /\ rec[t].deadline \in Nat /\ rec[t].ttl \in Nat
         /\ rec[t].owned \in SUBSET Epochs
         /\ rec[t].pending \in PendingStopOutcomes \cup {"none"}
         /\ now \in Nat /\ 0 \in 0..MaxEpoch
BY CoreAssumption DEF TypeOK, JobRecord, CoreAssumption

-----------------------------------------------------------------------------
(* Every action keeps the type. *)

LEMMA InitType == Init => TypeOK
<1> SUFFICES ASSUME Init PROVE TypeOK
  OBVIOUS
<1>1. 0 \in 0..MaxEpoch /\ 0 \in 0..MaxTime
  BY CoreAssumption DEF CoreAssumption
<1>2. /\ NoSlot \in Slot /\ NoAttempt \in Attempt /\ NoChild \in Child
      /\ NoWatch \in Watch /\ NoCall \in Call
  BY <1>1 DEF NoSlot, Slot, NoAttempt, Attempt, NoChild, Child, NoWatch, Watch,
              NoCall, Call
<1> QED
  BY <1>1, <1>2, NoRecordType DEF Init, TypeOK

LEMMA SupervisorType ==
  ASSUME TypeOK, NEW t \in Tasks, NEW e \in Epochs, Supervisor(t, e)
  PROVE  TypeOK'
<1>1. child \in [Tasks -> [Epochs -> Child]] /\ now \in Nat
  BY CoreAssumption DEF TypeOK, CoreAssumption
<1>2. child[t][e] \in Child
  BY Cells
<1>3. ASSUME NEW c \in Child, child' = PutAt(child, t, e, c)
      PROVE  child' \in [Tasks -> [Epochs -> Child]]
  BY <1>1, <1>3, PutAtType
<1>4. CASE SpawnResolves(t, e)
  BY <1>2, <1>3, <1>4, ChildUpdates DEF SpawnResolves, TypeOK
<1>5. CASE SpawnRejects(t, e)
  BY <1>2, <1>3, <1>5, ChildUpdates DEF SpawnRejects, TypeOK
<1>6. CASE PutResult(t, e)
  BY <1>6 DEF PutResult, TypeOK
<1>7. CASE ChildExits(t, e)
  BY <1>1, <1>2, <1>3, <1>7, ChildUpdates DEF ChildExits, TypeOK
<1>8. CASE LatePut(t, e)
  <2>1. [child[t][e] EXCEPT !.late = TRUE] \in Child
    BY <1>2, ChildUpdates
  <2>2. child' \in [Tasks -> [Epochs -> Child]]
    BY <1>3, <1>8, <2>1 DEF LatePut
  <2>3. objects' \in SUBSET (Tasks \X Epochs)
    BY <1>8 DEF LatePut, TypeOK
  <2> QED
    BY <1>8, <2>2, <2>3 DEF LatePut, TypeOK
<1> QED
  BY <1>4, <1>5, <1>6, <1>7, <1>8 DEF Supervisor

\* The record a claim leaves.
LEMMA ClaimedType ==
  ASSUME NEW r \in JobRecord, NEW l \in Nat, r.epoch < MaxEpoch
  PROVE  [r EXCEPT !.state = "leased", !.epoch = @ + 1, !.lease = l,
                   !.failure = FALSE, !.pending = "none"] \in JobRecord
<1>1. r.epoch + 1 \in 0..MaxEpoch
  BY CoreAssumption DEF JobRecord, CoreAssumption
<1> QED
  BY <1>1 DEF JobRecord, States

LEMMA CreatedType ==
  ASSUME NEW q \in Requests
  PROVE  [NoRecord EXCEPT !.state = "queued", !.deadline = q.deadline,
                          !.ttl = q.ttl] \in JobRecord
<1>1. q.deadline \in Nat /\ q.ttl \in Nat
  BY CoreAssumption DEF CoreAssumption
<1> QED
  BY <1>1, NoRecordType DEF JobRecord, States

LEMMA RequestedType ==
  ASSUME TypeOK, NEW t \in Tasks, Requested(t)
  PROVE  TypeOK'
<1>1. rec[t] \in JobRecord /\ now \in Nat /\ LeaseDurations \subseteq Nat
  BY RecordFields, CoreAssumption DEF CoreAssumption
<1>2. {"deleting", "cancelled"} \subseteq States /\ 0 \in 0..MaxEpoch
      /\ {"deleted", "cancelled"} \subseteq PendingStopOutcomes
  BY CoreAssumption DEF CoreAssumption, States, PendingStopOutcomes
<1>3. ASSUME NEW q \in Requests, Create(t, q)
      PROVE  TypeOK'
  BY <1>3, CreatedType, CommitType DEF Create, TypeOK
<1>4. ASSUME NEW d \in LeaseDurations, Claim(t, d)
      PROVE  TypeOK'
  <2>1. LeaseExpiry(rec[t], now, d) \in Nat
    BY <1>1, LeaseExpiryNat
  <2> QED
    BY <1>1, <1>4, <2>1, ClaimedType, CommitType DEF Claim, TypeOK
<1>5. CASE Cancel(t)
  <2>1. /\ Released(rec[t], "cancelled", 0, FALSE) \in JobRecord
        /\ Stopping(rec[t], "cancelled") \in JobRecord
    BY <1>1, <1>2, ReleasedType, StoppingType
  <2> QED
    BY <1>1, <1>5, <2>1, CommitType, RequestTerminationType
    DEF Cancel, NoCommit, TypeOK
<1>6. CASE DeleteIdle(t)
  <2>1. Released(rec[t], "deleting", 0, FALSE) \in JobRecord
    BY <1>1, <1>2, ReleasedType
  <2>2. [Released(rec[t], "deleting", 0, FALSE) EXCEPT !.deletion = TRUE]
          \in JobRecord
    BY <2>1 DEF JobRecord
  <2> QED
    BY <1>6, <2>2, CommitType DEF DeleteIdle, TypeOK
<1>7. CASE DeleteOwning(t)
  <2>1. Stopping(rec[t], "deleted") \in JobRecord
    BY <1>1, <1>2, StoppingType
  <2>2. [Stopping(rec[t], "deleted") EXCEPT !.deletion = TRUE] \in JobRecord
    BY <2>1 DEF JobRecord
  <2> QED
    BY <1>1, <1>7, <2>2, CommitType, RequestTerminationType
    DEF DeleteOwning, NoCommit, TypeOK
<1>8. CASE DeleteAgain(t)
  BY <1>8 DEF DeleteAgain, TypeOK
<1>9. ASSUME NEW p \in Calls, NEW e \in Epochs, NEW d \in LeaseDurations,
             HeartbeatRead(t, p, e, d)
      PROVE  TypeOK'
  <2>1. LeaseExpiry(rec[t], now, d) \in Nat
    BY <1>1, LeaseExpiryNat
  <2>2. [op |-> "heartbeat", key |-> 0, until |-> LeaseExpiry(rec[t], now, d)]
          \in Call
    BY <1>2, <2>1 DEF Call
  <2> QED
    BY <1>9, <2>2, PutAtType DEF HeartbeatRead, TypeOK
<1>10. ASSUME NEW p \in Calls, NEW e \in Epochs, NEW k \in Epochs,
              PublishRead(t, p, e, k)
       PROVE  TypeOK'
  <2>1. [op |-> "publish", key |-> k, until |-> 0] \in Call
    BY CoreAssumption DEF Call, Epochs, CoreAssumption
  <2> QED
    BY <1>10, <2>1, PutAtType DEF PublishRead, TypeOK
<1> QED
  BY <1>3, <1>4, <1>5, <1>6, <1>7, <1>8, <1>9, <1>10 DEF Requested

LEMMA ContinuationType ==
  ASSUME TypeOK, NEW t \in Tasks, Continuation(t)
  PROVE  TypeOK'
<1>1. /\ rec[t] \in JobRecord /\ 0 \in 0..MaxEpoch
      /\ NoCall \in Call /\ "deleted" \in States
  BY RecordFields DEF NoCall, Call, States
<1>2. CASE EraseObjects(t)
  BY <1>2 DEF EraseObjects, TypeOK
<1>3. CASE CompleteDeletion(t)
  <2>1. Released(rec[t], "deleted", 0, FALSE) \in JobRecord
    BY <1>1, ReleasedType
  <2> QED
    BY <1>3, <2>1, CommitType DEF CompleteDeletion, NoCommit, TypeOK
<1>4. ASSUME NEW p \in Calls, HeartbeatCommit(t, p)
      PROVE  TypeOK'
  <2>1. [rec[t] EXCEPT !.lease = calls[t][p].until] \in JobRecord
    BY <1>1, Cells DEF JobRecord, Call
  <2> QED
    BY <1>1, <1>4, <2>1, PutAtType, WaitingReaders DEF HeartbeatCommit, TypeOK
<1>5. ASSUME NEW p \in Calls, PublishCommit(t, p)
      PROVE  TypeOK'
  <2>1. [rec[t] EXCEPT !.result = calls[t][p].key] \in JobRecord
    BY <1>1, Cells DEF JobRecord, Call
  <2> QED
    BY <1>1, <1>5, <2>1, PutAtType, WaitingReaders DEF PublishCommit, TypeOK
<1>6. ASSUME NEW p \in Calls, CallOvertaken(t, p)
      PROVE  TypeOK'
  BY <1>1, <1>6, PutAtType DEF CallOvertaken, TypeOK
<1> QED
  BY <1>2, <1>3, <1>4, <1>5, <1>6 DEF Continuation

LEMMA SweepType ==
  ASSUME TypeOK, NEW t \in Tasks, Sweep(t)
  PROVE  TypeOK'
<1>1. rec[t] \in JobRecord /\ now \in Nat /\ rec[t].result \in 0..MaxEpoch
      /\ 0 \in 0..MaxEpoch
  BY RecordFields
<1>2. TemporalOutcome(rec[t], now) \in PendingStopOutcomes
  BY <1>1, TemporalOutcomeType
<1>3. CASE SweepCancelling(t)
  <2>1. \A o \in PendingStopOutcomes :
          [rec[t] EXCEPT !.pending = o] \in JobRecord
    BY <1>1 DEF JobRecord
  <2>2. "queued" \in PendingStopOutcomes
        /\ rec[t].pending \in PendingStopOutcomes \cup {"none"}
    BY RecordFields DEF PendingStopOutcomes
  <2> QED
    BY <1>1, <1>2, <1>3, <2>1, <2>2, CommitType, RequestTerminationType
    DEF SweepCancelling, NoCommit, TypeOK
<1>4. CASE SweepOwning(t)
  <2>1. Stopping(rec[t], TemporalOutcome(rec[t], now)) \in JobRecord
    BY <1>1, <1>2, StoppingType
  <2> QED
    BY <1>4, <2>1, CommitType, RequestTerminationType DEF SweepOwning, TypeOK
<1>5. CASE SweepIdle(t)
  <2>1. /\ Released(rec[t], "expired", rec[t].result, FALSE) \in JobRecord
        /\ Released(rec[t], "timed_out", 0, FALSE) \in JobRecord
    BY <1>1, ReleasedType DEF States
  <2>2. [rec[t] EXCEPT !.state = "queued", !.lease = 0] \in JobRecord
    BY <1>1 DEF JobRecord, States
  <2> QED
    BY <1>5, <2>1, <2>2, CommitType DEF SweepIdle, TypeOK
<1> QED
  BY <1>3, <1>4, <1>5 DEF Sweep

LEMMA ExecutionType ==
  ASSUME TypeOK, NEW t \in Tasks, NEW e \in Epochs, Execution(t, e)
  PROVE  TypeOK'
<1>1. /\ rec[t] \in JobRecord /\ now \in Nat /\ MaxLaunch \in Nat
      /\ 0 \in 0..MaxEpoch
      /\ child[t][e] \in Child /\ watch[t][e] \in Watch
  BY RecordFields, Cells, CoreAssumption DEF CoreAssumption
<1>2. \A pc \in AttemptStages :
        SetAttempt(t, e, pc) => att' \in [Tasks -> [Epochs -> Attempt]]
  BY SetAttemptType
<1>3. /\ {"racing", "deadline", "binding", "done", "startFailed"}
           \subseteq AttemptStages
      /\ "failed" \in PendingStopOutcomes /\ "failed" \in States
  BY DEF AttemptStages, PendingStopOutcomes, States
<1>4. CASE ExecuteReserve(t, e)
  <2> DEFINE until == Earliest(LeaseExpiry(rec[t], now, MaxLaunch), rec[t].lease)
  <2>1. LeaseExpiry(rec[t], now, MaxLaunch) \in Nat /\ rec[t].lease \in Nat
    BY <1>1, LeaseExpiryNat, RecordFields
  <2>2. until \in Nat
    BY <2>1, EarliestNat
  <2>3. ReservedSlot(t, e) \in Slot /\ ReservedSlot(t, e).id \in 0..MaxEpoch
    BY ReservedSlotType DEF Slot
  <2> HIDE DEF until
  <2>4. [pc |-> "reserved", late |-> FALSE, slot |-> ReservedSlot(t, e).id,
         until |-> until] \in Attempt
    BY <2>2, <2>3 DEF Attempt
  <2> QED
    BY <1>4, <2>3, <2>4, PutAtType DEF ExecuteReserve, Reserve, TypeOK, until
<1>5. CASE ExecuteCommit(t, e)
  <2>1. StartingRecord(rec[t], e) \in JobRecord
    BY <1>1, StartingRecordType
  <2>2. [child[t][e] EXCEPT !.st = "spawning"] \in Child
    BY <1>1, ChildUpdates
  <2> QED
    BY <1>2, <1>3, <1>5, <2>1, <2>2, PutAtType, WaitingReaders
    DEF ExecuteCommit, TypeOK
<1>6. CASE ExecuteOvertaken(t, e)
  <2>1. NoAttempt \in Attempt
    BY <1>1 DEF NoAttempt, Attempt
  <2> QED
    BY <1>6, <2>1, PutAtType, ReleaseUnstartedType DEF ExecuteOvertaken, TypeOK
<1>7. CASE LaunchDeadline(t, e)
  BY <1>2, <1>3, <1>7 DEF LaunchDeadline, TypeOK
<1>8. CASE MarkLaunchTimedOut(t, e)
  <2>1. Stopping(rec[t], "failed") \in JobRecord
    BY <1>1, <1>3, StoppingType
  <2>2. [Stopping(rec[t], "failed") EXCEPT !.failure = TRUE, !.result = 0]
          \in JobRecord
    BY <1>1, <2>1 DEF JobRecord
  <2>3. [att[t][e] EXCEPT !.pc = "late", !.late = TRUE] \in Attempt
    BY Cells, AttemptUpdates
  <2> QED
    BY <1>8, <2>2, <2>3, PutAtType, CommitType
    DEF MarkLaunchTimedOut, NoCommit, TypeOK
<1>9. CASE Launched(t, e)
  BY <1>2, <1>3, <1>9, BindChildType, SetWatchType DEF Launched, TypeOK
<1>10. CASE LateLaunched(t, e)
  BY <1>2, <1>3, <1>10, BindChildType, SetWatchType DEF LateLaunched, TypeOK
<1>11. CASE LaunchRejected(t, e)
  BY <1>2, <1>3, <1>11, ReleaseUnstartedType DEF LaunchRejected, TypeOK
<1>12. CASE StartFailed(t, e)
  <2>1. Stopped(rec[t]) \in JobRecord /\ Released(rec[t], "failed", 0, TRUE) \in JobRecord
    BY <1>1, <1>3, StoppedType, ReleasedType
  <2> QED
    BY <1>2, <1>3, <1>12, <2>1, CommitType, StartEraseType
    DEF StartFailed, NoCommit, TypeOK
<1>13. CASE BindStarted(t, e)
  <2> DEFINE bound == [rec[t] EXCEPT !.bound = TRUE,
                         !.state = IF @ = "starting" THEN "running" ELSE @]
             orphan == [rec[t] EXCEPT !.exec = e, !.bound = TRUE, !.stop = TRUE]
  <2>1. bound \in JobRecord
    BY <1>1 DEF JobRecord, States
  <2>2. e \in 0..MaxEpoch
    BY CoreAssumption DEF Epochs, CoreAssumption
  <2>3. orphan \in JobRecord
    BY <1>1, <2>2 DEF JobRecord
  <2> HIDE DEF bound, orphan
  <2>4. \/ Commit(t, bound) /\ RequestTermination(t, bound)
        \/ NoCommit /\ RequestTermination(t, orphan)
    BY <1>13 DEF BindStarted, bound, orphan
  <2> QED
    BY <1>2, <1>3, <1>13, <2>1, <2>3, <2>4, CommitType, RequestTerminationType
    DEF BindStarted, NoCommit, TypeOK
<1>14. CASE Finalize(t, e)
  <2> DEFINE stopped == [Stopped(rec[t]) EXCEPT
                           !.deletion = @ \/ StopTarget(rec[t]) = "deleting"]
             f == IF rec[t].state = "cancelling" THEN stopped
                  ELSE Finalized(rec[t], child[t][e])
             mine == rec[t].exec = e /\ rec[t].state \in ProcessOwningStates
             w == [pc |-> "finalized",
                   drop |-> ~(mine /\ f.state = "succeeded"),
                   deleting |-> (IF mine THEN f ELSE rec[t]).state = "deleting"]
  <2>1. Stopped(rec[t]) \in JobRecord
    BY <1>1, StoppedType
  <2>2. stopped \in JobRecord
    BY <2>1 DEF JobRecord
  <2>3. f \in JobRecord
    BY <1>1, <2>2, FinalizedType
  <2>4. w \in Watch
    BY DEF Watch
  <2>5. /\ Commit(t, f) \/ NoCommit
        /\ watch' = PutAt(watch, t, e, w)
        /\ UNCHANGED <<now, slots, att, child, objects, erase, calls, failures>>
    BY <1>14 DEF Finalize
  <2> HIDE DEF f, w
  <2>6. watch' \in [Tasks -> [Epochs -> Watch]]
    BY <2>4, <2>5, PutAtType DEF TypeOK
  <2>7. rec' \in [Tasks -> JobRecord] /\ stale' \in SUBSET (Tasks \X Readers)
    BY <2>3, <2>5, CommitType DEF NoCommit, TypeOK
  <2> QED
    BY <2>5, <2>6, <2>7 DEF TypeOK
<1>15. CASE Cleanup(t, e)
  <2>1. WatchDone \in Watch
    BY DEF WatchDone, Watch
  <2> QED
    BY <1>15, <2>1, PutAtType, StartEraseType DEF Cleanup, TypeOK
<1> QED
  BY <1>4, <1>5, <1>6, <1>7, <1>8, <1>9, <1>10, <1>11, <1>12, <1>13, <1>14,
     <1>15 DEF Execution

LEMMA FinalizeReplyType ==
  ASSUME TypeOK, NEW t \in Tasks, NEW e \in Epochs, FinalizeReply(t, e)
  PROVE  TypeOK'
BY ObserveTerminationType, SetWatchType DEF FinalizeReply, TypeOK

LEMMA RejectionType ==
  ASSUME TypeOK, NEW t \in Tasks, NEW e \in Epochs,
         Rejection(t, e) \/ WatchRejected(t, e)
  PROVE  TypeOK'
<1>1. ASSUME SetAttempt(t, e, "done")
      PROVE  att' \in [Tasks -> [Epochs -> Attempt]]
  BY <1>1, SetAttemptType DEF AttemptStages
<1>2. CASE AttemptRejected(t, e)
  BY <1>1, <1>2, AskChildType, FailType DEF AttemptRejected, TypeOK
<1>3. CASE StartReplyLost(t, e)
  <2>1. StartingRecord(rec[t], e) \in JobRecord
    BY RecordFields, StartingRecordType
  <2> QED
    BY <1>1, <1>3, <2>1, FailType, WaitingReaders DEF StartReplyLost, TypeOK
<1>4. CASE WatchRejected(t, e)
  <2>1. WatchDone \in Watch
    BY DEF WatchDone, Watch
  <2> QED
    BY <1>4, <2>1, PutAtType, FailType DEF WatchRejected, TypeOK
<1> QED
  BY <1>2, <1>3, <1>4 DEF Rejection

LEMMA StepType ==
  ASSUME TypeOK, [Next]_vars
  PROVE  TypeOK'
<1>1. CASE Tick
  BY <1>1, CoreAssumption DEF Tick, TypeOK, CoreAssumption
<1>2. CASE UNCHANGED vars
  BY <1>2 DEF vars, TypeOK
<1>3. ASSUME NEW t \in Tasks,
             Requested(t) \/ Continuation(t) \/ Sweep(t) \/ EraseRejected(t)
      PROVE  TypeOK'
  <2>1. CASE Requested(t)
    BY <2>1, RequestedType
  <2>2. CASE Continuation(t)
    BY <2>2, ContinuationType
  <2>3. CASE Sweep(t)
    BY <2>3, SweepType
  <2>4. CASE EraseRejected(t)
    BY <2>4, FailType DEF EraseRejected, TypeOK
  <2> QED
    BY <1>3, <2>1, <2>2, <2>3, <2>4
<1>4. ASSUME NEW t \in Tasks, NEW e \in Epochs,
             \/ Execution(t, e) \/ Supervisor(t, e) \/ Rejection(t, e)
             \/ FinalizeReply(t, e) \/ WatchRejected(t, e)
      PROVE  TypeOK'
  <2>1. CASE Execution(t, e)
    BY <2>1, ExecutionType
  <2>2. CASE Supervisor(t, e)
    BY <2>2, SupervisorType
  <2>3. CASE Rejection(t, e) \/ WatchRejected(t, e)
    BY <2>3, RejectionType
  <2>4. CASE FinalizeReply(t, e)
    BY <2>4, FinalizeReplyType
  <2> QED
    BY <1>4, <2>1, <2>2, <2>3, <2>4
<1> QED
  BY <1>1, <1>2, <1>3, <1>4 DEF Next, Step

-----------------------------------------------------------------------------
\* Every variable keeps its type, for any number of tasks, calls, claims and
\* failures: every record the service writes is a well-formed job record.
THEOREM TypeCorrect == Spec => []TypeOK
<1>1. Init => TypeOK
  BY InitType
<1>2. TypeOK /\ [Next]_vars => TypeOK'
  BY StepType
<1> QED
  BY <1>1, <1>2, PTL DEF Spec

-----------------------------------------------------------------------------
(* Part two: processes *)

\* A start whose write is still due and has not been overtaken by another
\* write finds the leased record it read.
ReservationIsCurrent ==
  \A t \in Tasks, e \in Epochs :
    att[t][e].pc = "reserved" =>
      /\ ~att[t][e].late
      /\ <<t, "execute">> \notin stale => rec[t].state = "leased"

OneReservation ==
  \A t \in Tasks, e, f \in Epochs :
    att[t][e].pc = "reserved" /\ att[t][f].pc = "reserved" => e = f

FailedStartHasNoChild ==
  \A t \in Tasks, e \in Epochs : att[t][e].pc = "startFailed" => ~Live(t, e)

VerifyingIsDeleting ==
  \A t \in Tasks : erase[t] = "verifying" => rec[t].state = "deleting"

\* The inductive strengthening of LiveChildIsCurrentAttempt.
ProcessInv ==
  /\ LiveChildIsCurrentAttempt
  /\ ReservationIsCurrent
  /\ OneReservation
  /\ FailedStartHasNoChild
  /\ VerifyingIsDeleting

-----------------------------------------------------------------------------
(* Steps that launch no child, reserve no slot and verify no deletion *)

LaunchesNothing == \A t \in Tasks, e \in Epochs : Live(t, e)' => Live(t, e)

VerifiesNothing ==
  \A t \in Tasks : erase'[t] = "verifying" => erase[t] = "verifying"

ReservesNothing ==
  \A t \in Tasks, e \in Epochs :
    /\ att'[t][e].pc = "reserved" => att'[t][e] = att[t][e]
    /\ att'[t][e].pc = "startFailed" => ~Live(t, e)'

Calm == LaunchesNothing /\ VerifiesNothing /\ ReservesNothing

\* Such a step keeps the invariant when it keeps what a live child, a
\* reservation and a verification rely on.
LEMMA CalmStep ==
  ASSUME ProcessInv, Calm,
         \A t \in Tasks, e \in Epochs :
           /\ Live(t, e) => /\ rec'[t].exec = rec[t].exec
                            /\ rec'[t].state \in ProcessOwningStates
           /\ att'[t][e].pc = "reserved" /\ <<t, "execute">> \notin stale' =>
                /\ <<t, "execute">> \notin stale
                /\ rec'[t].state = rec[t].state,
         \A t \in Tasks :
           erase'[t] = "verifying" /\ rec[t].state = "deleting"
             => rec'[t].state = "deleting"
  PROVE  ProcessInv'
<1>1. LiveChildIsCurrentAttempt'
  BY DEF ProcessInv, Calm, LaunchesNothing, VerifiesNothing,
         ReservesNothing, LiveChildIsCurrentAttempt
<1>2. ReservationIsCurrent'
  BY DEF ProcessInv, Calm, LaunchesNothing, VerifiesNothing,
         ReservesNothing, ReservationIsCurrent
<1>3. OneReservation'
  BY DEF ProcessInv, Calm, LaunchesNothing, VerifiesNothing,
         ReservesNothing, OneReservation
<1>4. FailedStartHasNoChild'
  BY DEF ProcessInv, Calm, LaunchesNothing, VerifiesNothing,
         ReservesNothing, FailedStartHasNoChild
<1>5. VerifyingIsDeleting'
  BY DEF ProcessInv, Calm, LaunchesNothing, VerifiesNothing,
         ReservesNothing, VerifyingIsDeleting
<1> QED
  BY <1>1, <1>2, <1>3, <1>4, <1>5 DEF ProcessInv

LEMMA CalmNoCommit ==
  ASSUME ProcessInv, Calm, UNCHANGED <<rec, stale>>
  PROVE  ProcessInv'
<1>1. \A t \in Tasks, e \in Epochs :
        Live(t, e) => rec[t].state \in ProcessOwningStates
  BY DEF ProcessInv, LiveChildIsCurrentAttempt
<1> QED
  BY <1>1, CalmStep

\* An applied compareAndSet overtakes a start that has not been written.
LEMMA CommitFacts ==
  ASSUME TypeOK, NEW t \in Tasks, NEW r, Commit(t, r)
  PROVE  /\ rec'[t] = r
         /\ \A x \in Tasks : x # t => rec'[x] = rec[x]
         /\ stale \subseteq stale'
         /\ \A e \in Epochs :
              att[t][e].pc = "reserved" => <<t, "execute">> \in stale'
<1>1. rec' = [rec EXCEPT ![t] = r] /\ stale' = stale \cup ({t} \X Waiting(t))
  BY DEF Commit
<1>2. \A e \in Epochs : att[t][e].pc = "reserved" => "execute" \in Waiting(t)
  BY DEF Waiting
<1> QED
  BY <1>1, <1>2 DEF TypeOK

LEMMA CalmCommit ==
  ASSUME TypeOK, ProcessInv, Calm, NEW t \in Tasks, NEW r, Commit(t, r),
         \A e \in Epochs :
           Live(t, e) => r.exec = rec[t].exec /\ r.state \in ProcessOwningStates,
         erase'[t] = "verifying" /\ rec[t].state = "deleting"
           => r.state = "deleting"
  PROVE  ProcessInv'
<1>1. \A x \in Tasks, e \in Epochs :
        Live(x, e) => rec[x].state \in ProcessOwningStates
  BY DEF ProcessInv, LiveChildIsCurrentAttempt
<1>2. \A x \in Tasks, e \in Epochs :
        att'[x][e].pc = "reserved" => att[x][e].pc = "reserved"
  BY DEF Calm, ReservesNothing
<1>3. \A x \in Tasks, e \in Epochs :
        Live(x, e) => /\ rec'[x].exec = rec[x].exec
                      /\ rec'[x].state \in ProcessOwningStates
  BY <1>1, CommitFacts
<1>4. \A x \in Tasks, e \in Epochs :
        att'[x][e].pc = "reserved" /\ <<x, "execute">> \notin stale' =>
          <<x, "execute">> \notin stale /\ rec'[x].state = rec[x].state
  BY <1>2, CommitFacts
<1>5. \A x \in Tasks :
        erase'[x] = "verifying" /\ rec[x].state = "deleting"
          => rec'[x].state = "deleting"
  BY CommitFacts
<1> QED
  BY <1>3, <1>4, <1>5, CalmStep

-----------------------------------------------------------------------------
(* What makes a step calm *)

LEMMA AttemptsKept ==
  ASSUME ProcessInv, LaunchesNothing, UNCHANGED att
  PROVE  ReservesNothing
BY DEF ProcessInv, FailedStartHasNoChild, LaunchesNothing, ReservesNothing

\* An attempt whose continuation moves on to another stage.
LEMMA AttemptMoved ==
  ASSUME TypeOK, ProcessInv, LaunchesNothing, NEW t \in Tasks,
         NEW e \in Epochs, NEW a, att' = PutAt(att, t, e, a),
         a.pc # "reserved", a.pc = "startFailed" => ~Live(t, e)
  PROVE  ReservesNothing
<1> att \in [Tasks -> [Epochs -> Attempt]]
  BY DEF TypeOK
<1>1. \A x \in Tasks, f \in Epochs :
        att'[x][f] = IF x = t /\ f = e THEN a ELSE att[x][f]
  BY DEF PutAt
<1>2. \A x \in Tasks, f \in Epochs :
        att[x][f].pc = "startFailed" => ~Live(x, f)
  BY DEF ProcessInv, FailedStartHasNoChild
<1>3. \A x \in Tasks, f \in Epochs : ~Live(x, f) => ~Live(x, f)'
  BY DEF LaunchesNothing
<1>4. \A x \in Tasks, f \in Epochs :
        att'[x][f].pc = "reserved" => att'[x][f] = att[x][f]
  BY <1>1
<1>5. \A x \in Tasks, f \in Epochs :
        att'[x][f].pc = "startFailed" => ~Live(x, f)'
  BY <1>1, <1>2, <1>3
<1> QED
  BY <1>4, <1>5 DEF ReservesNothing

LEMMA StageSet ==
  ASSUME TypeOK, ProcessInv, LaunchesNothing, NEW t \in Tasks,
         NEW e \in Epochs, NEW pc, SetAttempt(t, e, pc),
         pc # "reserved", pc = "startFailed" => ~Live(t, e)
  PROVE  ReservesNothing
<1>1. [att[t][e] EXCEPT !.pc = pc].pc = pc
  BY Cells DEF Attempt
<1> QED
  BY <1>1, AttemptMoved DEF SetAttempt

LEMMA ChildrenKept ==
  ASSUME UNCHANGED child
  PROVE  LaunchesNothing
BY DEF LaunchesNothing, Live

\* A child that gets a new status or is only asked to stop.
LEMMA ChildMoved ==
  ASSUME TypeOK, NEW t \in Tasks, NEW e \in Epochs, NEW c,
         child' = PutAt(child, t, e, c),
         c.st \in {"spawning", "alive"} => Live(t, e)
  PROVE  LaunchesNothing
<1> child \in [Tasks -> [Epochs -> Child]]
  BY DEF TypeOK
<1>1. \A x \in Tasks, f \in Epochs :
        child'[x][f] = IF x = t /\ f = e THEN c ELSE child[x][f]
  BY DEF PutAt
<1> QED
  BY <1>1 DEF LaunchesNothing, Live

LEMMA ChildAsked ==
  ASSUME TypeOK, NEW t \in Tasks, NEW e \in Epochs, child' = AskChild(t, e)
  PROVE  LaunchesNothing
<1>1. [child[t][e] EXCEPT !.stop = TRUE].st = child[t][e].st
  BY Cells DEF Child
<1> QED
  BY <1>1, ChildMoved DEF AskChild, Live

LEMMA TerminationRequested ==
  ASSUME TypeOK, NEW t \in Tasks, NEW r \in JobRecord, RequestTermination(t, r)
  PROVE  LaunchesNothing
<1>1. r.exec # 0 => r.exec \in Epochs
  BY CoreAssumption DEF JobRecord, Epochs, CoreAssumption
<1>2. CASE child' = child
  BY <1>2, ChildrenKept
<1>3. CASE r.exec # 0 /\ child' = AskChild(t, r.exec)
  BY <1>1, <1>3, ChildAsked
<1> QED
  BY <1>2, <1>3 DEF RequestTermination, Asked

LEMMA ErasuresKept ==
  ASSUME UNCHANGED erase
  PROVE  VerifiesNothing
BY DEF VerifiesNothing

LEMMA ErasureSet ==
  ASSUME TypeOK, NEW t \in Tasks, NEW v, v # "verifying",
         erase' = [erase EXCEPT ![t] = v]
  PROVE  VerifiesNothing
BY DEF TypeOK, VerifiesNothing

LEMMA ErasureStarted ==
  ASSUME TypeOK, NEW t \in Tasks, StartErase(t)
  PROVE  VerifiesNothing
BY ErasuresKept, ErasureSet DEF StartErase

-----------------------------------------------------------------------------
(* The fields of the records that actions write *)

LEMMA ReleasedFields ==
  ASSUME NEW r \in JobRecord, NEW s \in States, NEW res \in 0..MaxEpoch,
         NEW f \in BOOLEAN
  PROVE  Released(r, s, res, f).state = s
BY DEF Released, Detached, JobRecord

LEMMA StoppingFields ==
  ASSUME NEW r \in JobRecord, NEW o
  PROVE  Stopping(r, o).state = "cancelling" /\ Stopping(r, o).exec = r.exec
BY DEF Stopping, JobRecord

LEMMA StartingFields ==
  ASSUME NEW r \in JobRecord, NEW e \in Epochs
  PROVE  /\ StartingRecord(r, e).state = "starting"
         /\ StartingRecord(r, e).exec = e
<1>1. 0 \in 0..MaxEpoch /\ "starting" \in States
  BY CoreAssumption DEF CoreAssumption, States
<1>2. Released(r, "starting", 0, FALSE) \in JobRecord
  BY <1>1, ReleasedType
<1>3. Released(r, "starting", 0, FALSE).state = "starting"
  BY <1>1, ReleasedFields
<1> QED
  BY <1>2, <1>3 DEF StartingRecord, StartingOwning, JobRecord

-----------------------------------------------------------------------------
(* Every action keeps the invariant. *)

LEMMA InitProcess == Init => ProcessInv
<1> SUFFICES ASSUME Init PROVE ProcessInv
  OBVIOUS
<1>1. \A t \in Tasks, e \in Epochs : ~Live(t, e) /\ att[t][e].pc = "none"
  BY DEF Init, Live, NoChild, NoAttempt
<1>2. \A t \in Tasks : erase[t] = "idle"
  BY DEF Init
<1> QED
  BY <1>1, <1>2 DEF ProcessInv, LiveChildIsCurrentAttempt, ReservationIsCurrent,
       OneReservation, FailedStartHasNoChild, VerifyingIsDeleting

LEMMA UnmovedStep ==
  ASSUME ProcessInv, UNCHANGED <<rec, stale, att, child, erase>>
  PROVE  ProcessInv'
BY ChildrenKept, AttemptsKept, ErasuresKept, CalmNoCommit DEF Calm

\* A child that leaves a live status, or stays in one.
LEMMA ChildStep ==
  ASSUME TypeOK, ProcessInv, NEW t \in Tasks, NEW e \in Epochs, NEW c,
         Live(t, e), child' = PutAt(child, t, e, c),
         UNCHANGED <<rec, stale, att, erase>>
  PROVE  ProcessInv'
BY ChildMoved, AttemptsKept, ErasuresKept, CalmNoCommit DEF Calm

LEMMA SupervisorStep ==
  ASSUME TypeOK, ProcessInv, NEW t \in Tasks, NEW e \in Epochs, Supervisor(t, e)
  PROVE  ProcessInv'
<1>1. CASE SpawnResolves(t, e)
  BY <1>1, ChildStep DEF SpawnResolves, Live
<1>2. CASE SpawnRejects(t, e)
  BY <1>2, ChildStep DEF SpawnRejects, Live
<1>3. CASE PutResult(t, e)
  BY <1>3, UnmovedStep DEF PutResult
<1>4. CASE ChildExits(t, e)
  BY <1>4, ChildStep DEF ChildExits, Live
<1>5. CASE LatePut(t, e)
  <2>1. [child[t][e] EXCEPT !.late = TRUE].st = "exited"
    BY <1>5, Cells DEF LatePut, Child
  <2>2. LaunchesNothing
    BY <1>5, <2>1, ChildMoved DEF LatePut
  <2> QED
    BY <1>5, <2>2, AttemptsKept, ErasuresKept, CalmNoCommit DEF LatePut, Calm
<1> QED
  BY <1>1, <1>2, <1>3, <1>4, <1>5 DEF Supervisor

\* A write of the record of a task that touches neither attempts nor
\* children nor an erasure.
LEMMA RecordStep ==
  ASSUME TypeOK, ProcessInv, NEW t \in Tasks, NEW r, Commit(t, r),
         UNCHANGED <<att, erase>>, LaunchesNothing,
         \/ rec[t].state \notin ProcessOwningStates \cup {"deleting"}
         \/ /\ rec[t].state \in ProcessOwningStates
            /\ r.state \in ProcessOwningStates /\ r.exec = rec[t].exec
  PROVE  ProcessInv'
<1>1. \A e \in Epochs : Live(t, e) => rec[t].state \in ProcessOwningStates
  BY DEF ProcessInv, LiveChildIsCurrentAttempt
<1>2. rec[t].state # "deleting"
  BY DEF ProcessOwningStates
<1> QED
  BY <1>1, <1>2, AttemptsKept, ErasuresKept, CalmCommit DEF Calm

\* No write: a process is asked to stop, once more.
LEMMA AskedStep ==
  ASSUME TypeOK, ProcessInv, NEW t \in Tasks, NEW r \in JobRecord, NoCommit,
         RequestTermination(t, r), UNCHANGED <<att, erase>>
  PROVE  ProcessInv'
BY TerminationRequested, AttemptsKept, ErasuresKept, CalmNoCommit
   DEF Calm, NoCommit

\* A job with a process is stopped, and the process asked to terminate.
LEMMA StoppingStep ==
  ASSUME TypeOK, ProcessInv, NEW t \in Tasks, NEW r \in JobRecord, Commit(t, r),
         RequestTermination(t, r), UNCHANGED <<att, erase>>,
         rec[t].state \in ProcessOwningStates,
         r.state = "cancelling", r.exec = rec[t].exec
  PROVE  ProcessInv'
<1>1. r.state \in ProcessOwningStates
  BY DEF ProcessOwningStates
<1> QED
  BY <1>1, TerminationRequested, RecordStep

LEMMA RequestedStep ==
  ASSUME TypeOK, ProcessInv, NEW t \in Tasks, Requested(t)
  PROVE  ProcessInv'
<1> DEFINE r == rec[t]
<1>0. r \in JobRecord
  BY RecordFields
<1>1. ASSUME NEW q \in Requests, Create(t, q)
      PROVE  ProcessInv'
  BY <1>1, RecordStep, ChildrenKept DEF Create, ProcessOwningStates
<1>2. ASSUME NEW d \in LeaseDurations, Claim(t, d)
      PROVE  ProcessInv'
  BY <1>2, RecordStep, ChildrenKept DEF Claim, ProcessOwningStates
<1>3. CASE Cancel(t)
  <2> DEFINE stopping == Stopping(r, "cancelled")
  <2>0. /\ stopping \in JobRecord
        /\ stopping.state = "cancelling" /\ stopping.exec = r.exec
    BY <1>0, StoppingType, StoppingFields DEF PendingStopOutcomes
  <2>1. CASE /\ r.state \in {"queued", "leased"}
             /\ Commit(t, Released(r, "cancelled", 0, FALSE))
             /\ UNCHANGED child
    BY <1>3, <2>1, RecordStep, ChildrenKept DEF Cancel, ProcessOwningStates
  <2>2. CASE NoCommit /\ RequestTermination(t, r)
    BY <1>0, <1>3, <2>2, AskedStep DEF Cancel
  <2>3. CASE /\ r.state \in ProcessOwningStates
             /\ Commit(t, stopping) /\ RequestTermination(t, stopping)
    BY <1>3, <2>0, <2>3, StoppingStep DEF Cancel
  <2> QED
    BY <1>3, <2>1, <2>2, <2>3 DEF Cancel
<1>4. CASE DeleteIdle(t)
  <2>1. /\ LaunchesNothing /\ VerifiesNothing /\ erase'[t] # "verifying"
        /\ \A e \in Epochs : ~Live(t, e)
    BY <1>4, ChildrenKept, ErasureSet
       DEF DeleteIdle, TypeOK, ProcessInv, LiveChildIsCurrentAttempt
  <2> QED
    BY <1>4, <2>1, AttemptsKept, CalmCommit DEF DeleteIdle, Calm
<1>5. CASE DeleteOwning(t)
  <2> DEFINE stopping == [Stopping(r, "deleted") EXCEPT !.deletion = TRUE]
  <2>1. /\ Stopping(r, "deleted") \in JobRecord
        /\ Stopping(r, "deleted").state = "cancelling"
        /\ Stopping(r, "deleted").exec = r.exec
    BY <1>0, StoppingType, StoppingFields DEF PendingStopOutcomes
  <2>2. /\ stopping \in JobRecord
        /\ stopping.state = "cancelling" /\ stopping.exec = r.exec
    BY <2>1 DEF JobRecord
  <2>3. CASE NoCommit /\ RequestTermination(t, r)
    BY <1>0, <1>5, <2>3, AskedStep DEF DeleteOwning
  <2>4. CASE Commit(t, stopping) /\ RequestTermination(t, stopping)
    BY <1>5, <2>2, <2>4, StoppingStep DEF DeleteOwning
  <2> QED
    BY <1>5, <2>3, <2>4 DEF DeleteOwning
<1>6. CASE DeleteAgain(t)
  BY <1>6, ChildrenKept, AttemptsKept, ErasureSet, CalmNoCommit
     DEF DeleteAgain, Calm
<1>7. ASSUME NEW p \in Calls, NEW e \in Epochs, NEW d \in LeaseDurations,
             HeartbeatRead(t, p, e, d)
      PROVE  ProcessInv'
  BY <1>7, UnmovedStep DEF HeartbeatRead
<1>8. ASSUME NEW p \in Calls, NEW e \in Epochs, NEW k \in Epochs,
             PublishRead(t, p, e, k)
      PROVE  ProcessInv'
  BY <1>8, UnmovedStep DEF PublishRead
<1> QED
  BY <1>1, <1>2, <1>3, <1>4, <1>5, <1>6, <1>7, <1>8 DEF Requested

\* sweepTask.
LEMMA SweepStep ==
  ASSUME TypeOK, ProcessInv, NEW t \in Tasks, Sweep(t)
  PROVE  ProcessInv'
<1> DEFINE r == rec[t]
<1>0. r \in JobRecord /\ now \in Nat
  BY RecordFields
<1>1. r.state \notin {"absent", "deleting", "deleted"}
  BY DEF Sweep
<1>2. CASE SweepCancelling(t)
  <2>1. r.state \in ProcessOwningStates
    BY <1>2 DEF SweepCancelling, ProcessOwningStates
  <2>2. ASSUME NEW o, Commit(t, [r EXCEPT !.pending = o]), UNCHANGED child
        PROVE  ProcessInv'
    <3>1. /\ [r EXCEPT !.pending = o].state = r.state
          /\ [r EXCEPT !.pending = o].exec = r.exec
      BY <1>0 DEF JobRecord
    <3> QED
      BY <1>2, <2>1, <2>2, <3>1, RecordStep, ChildrenKept DEF SweepCancelling
  <2>3. CASE NoCommit /\ RequestTermination(t, r)
    BY <1>0, <1>2, <2>3, AskedStep DEF SweepCancelling
  <2> QED
    BY <1>2, <2>2, <2>3 DEF SweepCancelling
<1>3. CASE SweepOwning(t)
  <2>1. TemporalOutcome(r, now) \in PendingStopOutcomes
    BY <1>0, TemporalOutcomeType
  <2>2. r.state \in ProcessOwningStates
    BY <1>3 DEF SweepOwning, ProcessOwningStates
  <2> QED
    BY <1>0, <1>3, <2>1, <2>2, StoppingType, StoppingFields, StoppingStep
       DEF SweepOwning
<1>4. CASE SweepIdle(t)
  <2>1. r.state \notin ProcessOwningStates \cup {"deleting"}
    BY <1>1, <1>4 DEF SweepIdle, ProcessOwningStates
  <2>2. \E s : Commit(t, s)
    BY <1>4 DEF SweepIdle
  <2> QED
    BY <1>4, <2>1, <2>2, RecordStep, ChildrenKept DEF SweepIdle
<1> QED
  BY <1>2, <1>3, <1>4 DEF Sweep

\* A write by a call that was under way leaves state and attempt alone.
LEMMA CallStep ==
  ASSUME TypeOK, ProcessInv, NEW t \in Tasks, NEW r, NEW S,
         rec' = [rec EXCEPT ![t] = r], stale' = stale \cup S,
         r.state = rec[t].state, r.exec = rec[t].exec,
         UNCHANGED <<att, child, erase>>
  PROVE  ProcessInv'
<1>1. \A x \in Tasks : rec'[x].state = rec[x].state /\ rec'[x].exec = rec[x].exec
  BY DEF TypeOK
<1>2. \A x \in Tasks, e \in Epochs :
        Live(x, e) => rec[x].state \in ProcessOwningStates
  BY DEF ProcessInv, LiveChildIsCurrentAttempt
<1>3. Calm
  BY ChildrenKept, AttemptsKept, ErasuresKept DEF Calm
<1>4. stale \subseteq stale'
  OBVIOUS
<1> QED
  BY <1>1, <1>2, <1>3, <1>4, CalmStep

LEMMA ContinuationStep ==
  ASSUME TypeOK, ProcessInv, NEW t \in Tasks, Continuation(t)
  PROVE  ProcessInv'
<1>1. CASE EraseObjects(t)
  <2>1. /\ LiveChildIsCurrentAttempt' /\ ReservationIsCurrent'
        /\ OneReservation' /\ FailedStartHasNoChild'
    BY <1>1 DEF EraseObjects, ProcessInv, LiveChildIsCurrentAttempt,
         ReservationIsCurrent, OneReservation, FailedStartHasNoChild, Live
  <2>2. VerifyingIsDeleting'
    BY <1>1 DEF EraseObjects, ProcessInv, VerifyingIsDeleting, TypeOK
  <2> QED
    BY <2>1, <2>2 DEF ProcessInv
<1>2. CASE CompleteDeletion(t)
  <2>1. rec[t].state = "deleting"
    BY <1>2 DEF CompleteDeletion, ProcessInv, VerifyingIsDeleting
  <2>2. \A e \in Epochs : ~Live(t, e)
    BY <2>1 DEF ProcessInv, LiveChildIsCurrentAttempt, ProcessOwningStates
  <2>3. Calm /\ erase'[t] # "verifying"
    BY <1>2, ChildrenKept, AttemptsKept, ErasureSet
       DEF CompleteDeletion, Calm, TypeOK
  <2>4. CASE NoCommit
    BY <2>3, <2>4, CalmNoCommit DEF NoCommit
  <2>5. CASE Commit(t, Released(rec[t], "deleted", 0, FALSE))
    BY <2>2, <2>3, <2>5, CalmCommit
  <2> QED
    BY <1>2, <2>4, <2>5 DEF CompleteDeletion
<1>3. ASSUME NEW p \in Calls, HeartbeatCommit(t, p)
      PROVE  ProcessInv'
  <2> DEFINE r == [rec[t] EXCEPT !.lease = calls[t][p].until]
  <2>1. rec' = [rec EXCEPT ![t] = r]
    BY <1>3 DEF HeartbeatCommit
  <2>2. r.state = rec[t].state /\ r.exec = rec[t].exec
    BY RecordFields DEF JobRecord
  <2> QED
    BY <1>3, <2>1, <2>2, CallStep DEF HeartbeatCommit
<1>4. ASSUME NEW p \in Calls, PublishCommit(t, p)
      PROVE  ProcessInv'
  <2> DEFINE r == [rec[t] EXCEPT !.result = calls[t][p].key]
  <2>1. rec' = [rec EXCEPT ![t] = r]
    BY <1>4 DEF PublishCommit
  <2>2. r.state = rec[t].state /\ r.exec = rec[t].exec
    BY RecordFields DEF JobRecord
  <2> QED
    BY <1>4, <2>1, <2>2, CallStep DEF PublishCommit
<1>5. ASSUME NEW p \in Calls, CallOvertaken(t, p)
      PROVE  ProcessInv'
  <2>1. \A x \in Tasks : <<x, "execute">> \notin stale' =>
                           <<x, "execute">> \notin stale
    BY <1>5, CoreAssumption DEF CallOvertaken, CoreAssumption
  <2>2. Calm
    BY <1>5, ChildrenKept, AttemptsKept, ErasuresKept DEF CallOvertaken, Calm
  <2>3. \A x \in Tasks, e \in Epochs :
          Live(x, e) => rec[x].state \in ProcessOwningStates
    BY DEF ProcessInv, LiveChildIsCurrentAttempt
  <2> QED
    BY <1>5, <2>1, <2>2, <2>3, CalmStep DEF CallOvertaken
<1> QED
  BY <1>1, <1>2, <1>3, <1>4, <1>5 DEF Continuation

LEMMA EraseRejectedStep ==
  ASSUME TypeOK, ProcessInv, NEW t \in Tasks, EraseRejected(t)
  PROVE  ProcessInv'
BY ChildrenKept, AttemptsKept, ErasureSet, CalmNoCommit DEF EraseRejected, Calm

\* A continuation moves on and writes nothing.
LEMMA AttemptStep ==
  ASSUME TypeOK, ProcessInv, NEW t \in Tasks, NEW e \in Epochs, NEW pc,
         SetAttempt(t, e, pc), LaunchesNothing, UNCHANGED <<rec, stale, erase>>,
         pc # "reserved", pc = "startFailed" => ~Live(t, e)
  PROVE  ProcessInv'
BY StageSet, ErasuresKept, CalmNoCommit DEF Calm

LEMMA ExecuteReserveStep ==
  ASSUME TypeOK, ProcessInv, NEW t \in Tasks, NEW e \in Epochs,
         ExecuteReserve(t, e)
  PROVE  ProcessInv'
<1> PICK a : /\ att' = PutAt(att, t, e, a)
             /\ a.pc = "reserved" /\ ~a.late
  BY DEF ExecuteReserve
<1>1. \A x \in Tasks, f \in Epochs :
        att'[x][f] = IF x = t /\ f = e THEN a ELSE att[x][f]
  BY DEF PutAt, TypeOK
<1>2. \A f \in Epochs : att[t][f].pc # "reserved"
  BY DEF ExecuteReserve, Executing, ProcessInv, ReservationIsCurrent
<1>3. LiveChildIsCurrentAttempt' /\ VerifyingIsDeleting'
  BY DEF ExecuteReserve, ProcessInv, LiveChildIsCurrentAttempt,
         VerifyingIsDeleting, Live
<1>4. ReservationIsCurrent'
  BY <1>1 DEF ExecuteReserve, ProcessInv, ReservationIsCurrent
<1>5. OneReservation'
  BY <1>1, <1>2 DEF ProcessInv, OneReservation
<1>6. FailedStartHasNoChild'
  BY <1>1 DEF ExecuteReserve, ProcessInv, FailedStartHasNoChild, Live
<1> QED
  BY <1>3, <1>4, <1>5, <1>6 DEF ProcessInv

\* The write that starts an attempt, launched or not, finds the leased record.
LEMMA StartStep ==
  ASSUME TypeOK, ProcessInv, NEW t \in Tasks, NEW e \in Epochs, NEW pc,
         NEW c \in Child,
         att[t][e].pc = "reserved", <<t, "execute">> \notin stale,
         rec' = [rec EXCEPT ![t] = StartingRecord(@, e)],
         stale' = stale \cup ({t} \X (Waiting(t) \ {"execute"})),
         SetAttempt(t, e, pc), pc \in {"racing", "done"},
         child' = PutAt(child, t, e, c), UNCHANGED erase
  PROVE  ProcessInv'
<1>1. /\ rec'[t].exec = e /\ rec'[t].state \in ProcessOwningStates
      /\ \A x \in Tasks : x # t => rec'[x] = rec[x]
  BY RecordFields, StartingFields DEF TypeOK, ProcessOwningStates
<1>2. rec[t].state = "leased"
  BY DEF ProcessInv, ReservationIsCurrent
<1>3. \A f \in Epochs : ~Live(t, f)
  BY <1>2 DEF ProcessInv, LiveChildIsCurrentAttempt, ProcessOwningStates
<1>4. \A x \in Tasks, f \in Epochs :
        child'[x][f] = IF x = t /\ f = e THEN c ELSE child[x][f]
  BY DEF PutAt, TypeOK
<1>5. [att[t][e] EXCEPT !.pc = pc].pc = pc
  BY Cells DEF Attempt
<1>6. \A x \in Tasks, f \in Epochs :
        /\ ~(x = t /\ f = e) => att'[x][f] = att[x][f]
        /\ att'[t][e].pc = pc
  BY <1>5 DEF SetAttempt, PutAt, TypeOK
<1>7. \A f \in Epochs : att'[t][f].pc # "reserved"
  BY <1>6 DEF ProcessInv, OneReservation
<1>8. LiveChildIsCurrentAttempt'
  <2>1. \A x \in Tasks, f \in Epochs : Live(x, f)' =>
          (x = t /\ f = e) \/ (x # t /\ Live(x, f))
    BY <1>3, <1>4 DEF Live
  <2> QED
    BY <1>1, <2>1 DEF ProcessInv, LiveChildIsCurrentAttempt
<1>9. ReservationIsCurrent'
  BY <1>1, <1>6, <1>7 DEF ProcessInv, ReservationIsCurrent
<1>10. OneReservation'
  BY <1>6, <1>7 DEF ProcessInv, OneReservation
<1>11. FailedStartHasNoChild'
  BY <1>4, <1>6 DEF ProcessInv, FailedStartHasNoChild, Live
<1>12. VerifyingIsDeleting'
  BY <1>1, <1>2 DEF ProcessInv, VerifyingIsDeleting
<1> QED
  BY <1>8, <1>9, <1>10, <1>11, <1>12 DEF ProcessInv

\* The only start that waits for its write gives up.
LEMMA GiveUpStep ==
  ASSUME TypeOK, ProcessInv, NEW t \in Tasks, NEW e \in Epochs, NEW a,
         att[t][e].pc = "reserved", att' = PutAt(att, t, e, a),
         a.pc \in {"none", "done"}, stale' = stale \ {<<t, "execute">>},
         UNCHANGED <<rec, child, erase>>
  PROVE  ProcessInv'
<1>1. Calm
  BY ChildrenKept, ErasuresKept, AttemptMoved DEF Calm
<1>2. \A f \in Epochs : att'[t][f].pc # "reserved"
  BY DEF PutAt, TypeOK, ProcessInv, OneReservation
<1>3. \A x \in Tasks, f \in Epochs :
        Live(x, f) => rec[x].state \in ProcessOwningStates
  BY DEF ProcessInv, LiveChildIsCurrentAttempt
<1>4. \A x \in Tasks : x # t /\ <<x, "execute">> \notin stale' =>
                         <<x, "execute">> \notin stale
  OBVIOUS
<1> QED
  BY <1>1, <1>2, <1>3, <1>4, CalmStep

\* The records that the continuations of a launch and of a termination write
\* when e is not live: no other child of the task can be.
LEMMA GoneStep ==
  ASSUME TypeOK, ProcessInv, NEW t \in Tasks, NEW e \in Epochs, NEW r,
         Commit(t, r), rec[t].exec = e, rec[t].state \in ProcessOwningStates,
         ~Live(t, e), LaunchesNothing, ReservesNothing, VerifiesNothing
  PROVE  ProcessInv'
<1>1. \A f \in Epochs : ~Live(t, f)
  BY DEF ProcessInv, LiveChildIsCurrentAttempt
<1>2. rec[t].state # "deleting"
  BY DEF ProcessOwningStates
<1> QED
  BY <1>1, <1>2, CalmCommit DEF Calm

LEMMA MarkLaunchTimedOutStep ==
  ASSUME TypeOK, ProcessInv, NEW t \in Tasks, NEW e \in Epochs,
         MarkLaunchTimedOut(t, e)
  PROVE  ProcessInv'
<1> DEFINE r == rec[t]
           s == [Stopping(r, "failed") EXCEPT !.failure = TRUE, !.result = 0]
<1>1. LaunchesNothing /\ VerifiesNothing
  BY ChildrenKept, ErasuresKept DEF MarkLaunchTimedOut
<1>2. [att[t][e] EXCEPT !.pc = "late", !.late = TRUE].pc = "late"
  BY Cells DEF Attempt
<1>3. Calm
  BY <1>1, <1>2, AttemptMoved DEF MarkLaunchTimedOut, Calm
<1>4. CASE NoCommit
  BY <1>3, <1>4, CalmNoCommit DEF NoCommit
<1>5. CASE r.state = "starting" /\ Commit(t, s)
  <2>1. /\ Stopping(r, "failed") \in JobRecord
        /\ Stopping(r, "failed").state = "cancelling"
        /\ Stopping(r, "failed").exec = r.exec
    BY RecordFields, StoppingType, StoppingFields DEF PendingStopOutcomes
  <2>2. s.state \in ProcessOwningStates /\ s.exec = r.exec
    BY <2>1 DEF JobRecord, ProcessOwningStates
  <2> QED
    BY <1>3, <1>5, <2>2, CalmCommit
<1> QED
  BY <1>4, <1>5 DEF MarkLaunchTimedOut

LEMMA StartFailedStep ==
  ASSUME TypeOK, ProcessInv, NEW t \in Tasks, NEW e \in Epochs,
         StartFailed(t, e)
  PROVE  ProcessInv'
<1>1. LaunchesNothing /\ ReservesNothing
  BY ChildrenKept, StageSet DEF StartFailed
<1>2. VerifiesNothing
  BY ErasuresKept, ErasureStarted DEF StartFailed
<1>3. ~Live(t, e)
  BY DEF StartFailed, ProcessInv, FailedStartHasNoChild
<1>4. CASE NoCommit
  BY <1>1, <1>2, <1>4, CalmNoCommit DEF NoCommit, Calm
<1>5. ASSUME NEW r, Commit(t, r), rec[t].exec = e,
             rec[t].state \in {"cancelling", "starting"}
      PROVE  ProcessInv'
  BY <1>1, <1>2, <1>3, <1>5, GoneStep DEF ProcessOwningStates
<1> QED
  BY <1>4, <1>5 DEF StartFailed

LEMMA BindStartedStep ==
  ASSUME TypeOK, ProcessInv, NEW t \in Tasks, NEW e \in Epochs,
         BindStarted(t, e)
  PROVE  ProcessInv'
<1> DEFINE r == rec[t]
           b == [r EXCEPT !.bound = TRUE,
                          !.state = IF @ = "starting" THEN "running" ELSE @]
           o == [r EXCEPT !.exec = e, !.bound = TRUE, !.stop = TRUE]
<1>0. r \in JobRecord /\ e \in 0..MaxEpoch
  BY RecordFields DEF Epochs
<1>1. VerifiesNothing /\ SetAttempt(t, e, "done")
  BY ErasuresKept DEF BindStarted
<1>2. CASE r.exec = e /\ Commit(t, b) /\ RequestTermination(t, b)
  <2>1. /\ b \in JobRecord /\ b.exec = r.exec
        /\ b.state = IF r.state = "starting" THEN "running" ELSE r.state
    BY <1>0 DEF JobRecord, States
  <2>2. LaunchesNothing
    BY <1>2, <2>1, TerminationRequested
  <2>3. Calm
    BY <1>1, <2>2, StageSet DEF Calm
  <2>4. \A f \in Epochs : Live(t, f) => b.state \in ProcessOwningStates
    BY <2>1 DEF ProcessInv, LiveChildIsCurrentAttempt, ProcessOwningStates
  <2> QED
    BY <1>2, <2>1, <2>3, <2>4, CalmCommit
<1>3. CASE NoCommit /\ RequestTermination(t, o)
  <2>1. o \in JobRecord
    BY <1>0 DEF JobRecord
  <2>2. LaunchesNothing
    BY <1>3, <2>1, TerminationRequested
  <2> QED
    BY <1>1, <1>3, <2>2, AttemptStep DEF BindStarted, NoCommit
<1> QED
  BY <1>2, <1>3 DEF BindStarted

LEMMA FinalizeStep ==
  ASSUME TypeOK, ProcessInv, NEW t \in Tasks, NEW e \in Epochs, Finalize(t, e)
  PROVE  ProcessInv'
<1>1. LaunchesNothing /\ ReservesNothing /\ VerifiesNothing
  BY ChildrenKept, AttemptsKept, ErasuresKept DEF Finalize
<1>2. ~Live(t, e)
  BY DEF Finalize, Live
<1>3. CASE NoCommit
  BY <1>1, <1>3, CalmNoCommit DEF NoCommit, Calm
<1>4. ASSUME NEW r, Commit(t, r), rec[t].exec = e,
             rec[t].state \in ProcessOwningStates
      PROVE  ProcessInv'
  BY <1>1, <1>2, <1>4, GoneStep
<1> QED
  BY <1>3, <1>4 DEF Finalize

LEMMA ExecutionStep ==
  ASSUME TypeOK, ProcessInv, NEW t \in Tasks, NEW e \in Epochs, Execution(t, e)
  PROVE  ProcessInv'
<1>1. CASE ExecuteCommit(t, e)
  <2>1. [child[t][e] EXCEPT !.st = "spawning"] \in Child
    BY Cells, ChildUpdates
  <2> QED
    BY <1>1, <2>1, StartStep DEF ExecuteCommit
<1>2. CASE ExecuteOvertaken(t, e)
  BY <1>2, GiveUpStep DEF ExecuteOvertaken, NoAttempt
<1>3. CASE LaunchDeadline(t, e)
  BY <1>3, AttemptStep, ChildrenKept DEF LaunchDeadline
<1>4. CASE Launched(t, e)
  BY <1>4, AttemptStep, ChildrenKept DEF Launched
<1>5. CASE LateLaunched(t, e)
  BY <1>5, AttemptStep, ChildrenKept DEF LateLaunched
<1>6. CASE LaunchRejected(t, e)
  BY <1>6, AttemptStep, ChildrenKept DEF LaunchRejected, Live
<1>7. CASE Cleanup(t, e)
  <2>1. Calm
    BY <1>7, ChildrenKept, AttemptsKept, ErasuresKept, ErasureStarted
       DEF Cleanup, Calm
  <2> QED
    BY <1>7, <2>1, CalmNoCommit DEF Cleanup
<1> QED
  BY <1>1, <1>2, <1>3, <1>4, <1>5, <1>6, <1>7, ExecuteReserveStep,
     MarkLaunchTimedOutStep, StartFailedStep, BindStartedStep, FinalizeStep
     DEF Execution

LEMMA RejectionStep ==
  ASSUME TypeOK, ProcessInv, NEW t \in Tasks, NEW e \in Epochs, Rejection(t, e)
  PROVE  ProcessInv'
<1>1. CASE AttemptRejected(t, e)
  <2>1. CASE att[t][e].pc = "reserved"
    <3>1. [att[t][e] EXCEPT !.pc = "done"].pc = "done"
      BY Cells DEF Attempt
    <3> QED
      BY <1>1, <2>1, <3>1, GiveUpStep DEF AttemptRejected, SetAttempt
  <2>2. CASE att[t][e].pc # "reserved"
    <3>1. LaunchesNothing
      BY <1>1, ChildAsked, ChildrenKept DEF AttemptRejected
    <3> QED
      BY <1>1, <2>2, <3>1, AttemptStep DEF AttemptRejected
  <2> QED
    BY <2>1, <2>2
<1>2. CASE StartReplyLost(t, e)
  <2>1. child' = PutAt(child, t, e, child[t][e]) /\ child[t][e] \in Child
    BY <1>2, Cells DEF StartReplyLost, PutAt, TypeOK
  <2> QED
    BY <1>2, <2>1, StartStep DEF StartReplyLost
<1> QED
  BY <1>1, <1>2 DEF Rejection

LEMMA NextProcess ==
  ASSUME TypeOK, ProcessInv, [Next]_vars
  PROVE  ProcessInv'
<1>1. CASE UNCHANGED vars
  BY <1>1, UnmovedStep DEF vars
<1>2. CASE Tick
  BY <1>2, UnmovedStep DEF Tick
<1>3. ASSUME NEW t \in Tasks, NEW e \in Epochs, FinalizeReply(t, e)
      PROVE  ProcessInv'
  BY <1>3, UnmovedStep DEF FinalizeReply
<1>4. ASSUME NEW t \in Tasks, NEW e \in Epochs, WatchRejected(t, e)
      PROVE  ProcessInv'
  BY <1>4, UnmovedStep DEF WatchRejected
<1> QED
  BY <1>1, <1>2, <1>3, <1>4, RequestedStep, ContinuationStep, SweepStep,
     EraseRejectedStep, ExecutionStep, SupervisorStep, RejectionStep
     DEF Next, Step

\* The README of compute-service-core: "A running stale child is terminated and
\* the job is requeued only after termination is observed."  For any number of
\* tasks, leases and failures, a live child is the attempt of a job that is
\* starting, running or cancelling: no second process, no requeue, no outcome
\* and no deletion while it lives.
THEOREM LiveChildCurrent == Spec => []LiveChildIsCurrentAttempt
<1>1. Init => ProcessInv
  BY InitProcess
<1>2. TypeOK /\ ProcessInv /\ [Next]_vars => ProcessInv'
  BY NextProcess
<1>3. ProcessInv => LiveChildIsCurrentAttempt
  BY DEF ProcessInv
<1> QED
  BY <1>1, <1>2, <1>3, TypeCorrect, PTL DEF Spec

-----------------------------------------------------------------------------
(* Part three: records *)

\* A record on its own: the body of RecordConsistent, the order of its times,
\* and that a result is published only after the start.
GoodRecord(r) ==
  /\ r.state \in ProcessOwningStates => r.exec = r.epoch /\ r.epoch # 0
  /\ r.state \notin ProcessOwningStates => r.exec = 0
  /\ r.lease # 0 <=> r.state \in ProcessOwningStates \cup {"leased"}
  /\ r.pending # "none" <=> r.state = "cancelling"
  /\ r.stop <=> r.state = "cancelling"
  /\ r.state = "starting" => ~r.bound
  /\ r.state = "running" => r.bound
  /\ r.deletion <=> r.pending = "deleted" \/ r.state \in {"deleting", "deleted"}
  /\ r.lease <= r.deadline
  /\ r.state = "failed" \/ r.pending = "failed" => r.failure
  /\ r.failure => r.state \in {"failed", "cancelling"}
  /\ r.deadline <= r.ttl
  /\ r.state = "starting" => r.result = 0

\* What one write may do to a record, the history's part of it.
Ordered(r, q) ==
  /\ IF r.state = "absent" THEN q.state \in {"absent", "queued"}
     ELSE TransitionAllowed(r.state, q.state)
  /\ r.deletion => q.deletion /\ q.state \in {"cancelling", "deleting", "deleted"}

Write(r, q) == GoodRecord(q) /\ Ordered(r, q)

\* A heartbeat or a publication that has not been overtaken finds the record in
\* the state in which it has read it.
CallIsCurrent(t, p) ==
  /\ calls[t][p].op = "heartbeat" =>
       /\ rec[t].state \in {"leased", "starting", "running"}
       /\ calls[t][p].until # 0 /\ calls[t][p].until <= rec[t].deadline
  /\ calls[t][p].op = "publish" => rec[t].state = "running"

RecordInv ==
  /\ \A t \in Tasks : GoodRecord(rec[t])
  /\ \A t \in Tasks, e \in Epochs :
       att[t][e].pc = "reserved" /\ <<t, "execute">> \notin stale => rec[t].epoch = e
  /\ \A t \in Tasks, p \in Calls :
       calls[t][p].op # "none" /\ <<t, p>> \notin stale => CallIsCurrent(t, p)

History == \A t \in Tasks : Ordered(rec[t], rec'[t])

-----------------------------------------------------------------------------
(* The records that actions write *)

LEMMA Unwritten ==
  ASSUME NEW r \in JobRecord, GoodRecord(r)
  PROVE  Ordered(r, r)
<1>1. r.deletion => r.state \in {"cancelling", "deleting", "deleted"}
  BY DEF GoodRecord
<1> QED
  BY <1>1 DEF Ordered, TransitionAllowed

LEMMA ReleasedWrites ==
  ASSUME NEW r \in JobRecord, GoodRecord(r), NEW s \in States, NEW res, NEW f \in BOOLEAN,
         s \notin ProcessOwningStates \cup {"leased"}, f <=> s = "failed",
         r.state # "absent", TransitionAllowed(r.state, s),
         r.deletion <=> s \in {"deleting", "deleted"}
  PROVE  Write(r, Released(r, s, res, f))
<1> DEFINE q == Released(r, s, res, f)
<1>1. /\ q.state = s /\ q.result = res /\ q.failure = f
      /\ q.lease = 0 /\ q.exec = 0 /\ q.bound = FALSE /\ q.stop = FALSE
      /\ q.pending = "none" /\ q.deletion = r.deletion /\ q.epoch = r.epoch
      /\ q.deadline = r.deadline /\ q.ttl = r.ttl
  BY DEF Released, Detached, JobRecord
<1>2. r.deadline \in Nat /\ r.ttl \in Nat /\ r.deletion \in BOOLEAN
  BY DEF JobRecord
<1> HIDE DEF q
<1>3. GoodRecord(q)
  BY <1>1, <1>2 DEF GoodRecord, ProcessOwningStates
<1>4. Ordered(r, q)
  BY <1>1, <1>2 DEF Ordered
<1> QED
  BY <1>3, <1>4 DEF Write, q

LEMMA StoppingWrites ==
  ASSUME NEW r \in JobRecord, GoodRecord(r), r.state \in ProcessOwningStates,
         NEW o \in PendingStopOutcomes,
         o = "failed" => r.failure,
         r.deletion <=> o = "deleted"
  PROVE  Write(r, Stopping(r, o))
<1> DEFINE q == Stopping(r, o)
<1>1. /\ q.state = "cancelling" /\ q.stop = TRUE /\ q.pending = o
      /\ q.exec = r.exec /\ q.epoch = r.epoch /\ q.lease = r.lease /\ q.bound = r.bound
      /\ q.deletion = r.deletion /\ q.failure = r.failure /\ q.result = r.result
      /\ q.deadline = r.deadline /\ q.ttl = r.ttl
  BY DEF Stopping, JobRecord
<1>2. r.deadline \in Nat /\ r.ttl \in Nat /\ r.lease \in Nat /\ r.deletion \in BOOLEAN
      /\ r.failure \in BOOLEAN
  BY DEF JobRecord
<1> HIDE DEF q
<1>3. GoodRecord(q)
  BY <1>1, <1>2 DEF GoodRecord, ProcessOwningStates, PendingStopOutcomes
<1>4. TransitionAllowed(r.state, "cancelling")
  BY DEF ProcessOwningStates, TransitionAllowed, AllowedTransitions
<1>5. Ordered(r, q)
  BY <1>1, <1>4 DEF Ordered, ProcessOwningStates
<1> QED
  BY <1>3, <1>5 DEF Write, q

\* The outcomes a cancelling job may have, and the states they lead to.
LEMMA OutcomesAllowed ==
  ASSUME NEW r \in JobRecord, r.state = "cancelling", r.pending # "none"
  PROVE  /\ TransitionAllowed(r.state, StopTarget(r))
         /\ StopTarget(r) \in States /\ StopTarget(r) \notin ProcessOwningStates \cup {"leased"}
         /\ StopTarget(r) = "deleting" <=> r.pending = "deleted"
         /\ StopTarget(r) # "deleted"
         /\ StopTarget(r) = "failed" <=> r.pending = "failed"
<1>1. r.pending \in PendingStopOutcomes
  BY DEF JobRecord
<1> QED
  BY <1>1 DEF StopTarget, PendingStopOutcomes, States, ProcessOwningStates, TransitionAllowed,
     AllowedTransitions

LEMMA StoppedWrites ==
  ASSUME NEW r \in JobRecord, GoodRecord(r), r.state = "cancelling"
  PROVE  Write(r, Stopped(r))
<1>1. r.pending # "none" /\ (r.deletion <=> r.pending = "deleted")
      /\ (r.pending = "failed" => r.failure)
  BY DEF GoodRecord
<1>2. (StopTarget(r) = "failed" /\ r.failure) <=> StopTarget(r) = "failed"
  BY <1>1, OutcomesAllowed
<1>3. (StopTarget(r) = "failed" /\ r.failure) \in BOOLEAN
  OBVIOUS
<1>4. r.deletion <=> StopTarget(r) \in {"deleting", "deleted"}
  BY <1>1, OutcomesAllowed
<1> QED
  BY <1>1, <1>2, <1>3, <1>4, OutcomesAllowed, ReleasedWrites DEF Stopped

\* Outcomes that follow the clock.
LEMMA ClockOutcome ==
  ASSUME NEW r, NEW at
  PROVE  TemporalOutcome(r, at) \in {"expired", "timed_out", "queued"}
BY DEF TemporalOutcome

LEMMA FinalizedWrites ==
  ASSUME NEW r \in JobRecord, GoodRecord(r), r.state \in {"starting", "running"}, NEW x
  PROVE  Write(r, Finalized(r, x))
<1>1. ~r.deletion /\ r.state # "absent"
  BY DEF GoodRecord
<1>2. \A s \in {"expired", "timed_out", "queued", "failed"} :
        TransitionAllowed(r.state, s)
  BY DEF TransitionAllowed, AllowedTransitions
<1>3. \A s \in {"expired", "timed_out", "queued", "failed", "succeeded"} :
        s \in States /\ s \notin ProcessOwningStates \cup {"leased"}
        /\ s \notin {"deleting", "deleted"}
  BY DEF States, ProcessOwningStates
<1>4. CASE Finalized(r, x) = Released(r, TemporalOutcome(r, x.at), 0, FALSE)
  BY <1>1, <1>2, <1>3, <1>4, ClockOutcome, ReleasedWrites
<1>5. CASE Finalized(r, x) = Released(r, "failed", 0, TRUE)
  BY <1>1, <1>2, <1>3, <1>5, ReleasedWrites
<1>6. CASE r.result # 0 /\ Finalized(r, x) = Released(r, "succeeded", r.result, FALSE)
  <2>1. TransitionAllowed(r.state, "succeeded")
    BY <1>6 DEF GoodRecord, TransitionAllowed, AllowedTransitions
  <2> QED
    BY <1>1, <1>3, <1>6, <2>1, ReleasedWrites
<1> QED
  BY <1>4, <1>5, <1>6 DEF Finalized

-----------------------------------------------------------------------------
(* What a step does to reservations and calls *)

\* Nothing is read anew: what waits for its write has waited before.
NothingRead ==
  /\ \A t \in Tasks, e \in Epochs :
       att'[t][e].pc = "reserved" /\ <<t, "execute">> \notin stale' =>
         att[t][e].pc = "reserved" /\ <<t, "execute">> \notin stale /\ rec'[t] = rec[t]
  /\ \A t \in Tasks, p \in Calls :
       calls'[t][p].op # "none" /\ <<t, p>> \notin stale' =>
         calls'[t][p] = calls[t][p] /\ <<t, p>> \notin stale /\ rec'[t] = rec[t]

LEMMA QuietStep ==
  ASSUME TypeOK, RecordInv, NothingRead,
         \A t \in Tasks : rec'[t] = rec[t] \/ Write(rec[t], rec'[t])
  PROVE  RecordInv' /\ History
<1>1. \A t \in Tasks : GoodRecord(rec'[t])
  BY DEF RecordInv, Write
<1>2. \A t \in Tasks : Ordered(rec[t], rec'[t])
  BY Unwritten, RecordFields DEF RecordInv, Write
<1>3. \A t \in Tasks, e \in Epochs :
        att'[t][e].pc = "reserved" /\ <<t, "execute">> \notin stale' => rec'[t].epoch = e
  BY DEF RecordInv, NothingRead
<1>4. \A t \in Tasks, p \in Calls :
        calls'[t][p].op # "none" /\ <<t, p>> \notin stale' => CallIsCurrent(t, p)'
  BY DEF RecordInv, NothingRead, CallIsCurrent
<1> QED
  BY <1>1, <1>2, <1>3, <1>4 DEF RecordInv, History

ReservesNothingNew ==
  \A t \in Tasks, e \in Epochs : att'[t][e].pc = "reserved" => att[t][e].pc = "reserved"

\* A step that writes no record.
LEMMA IdleStep ==
  ASSUME TypeOK, RecordInv, ReservesNothingNew, UNCHANGED <<rec, stale, calls>>
  PROVE  RecordInv' /\ History
<1>1. NothingRead
  BY DEF NothingRead, ReservesNothingNew
<1> QED
  BY <1>1, QuietStep

\* An applied compareAndSet overtakes all readers of its record.
LEMMA CommitStep ==
  ASSUME TypeOK, RecordInv, ReservesNothingNew, UNCHANGED calls, NEW t \in Tasks, NEW q,
         Commit(t, q), Write(rec[t], q)
  PROVE  RecordInv' /\ History
<1>1. rec' = [rec EXCEPT ![t] = q] /\ stale' = stale \cup ({t} \X Waiting(t))
  BY DEF Commit
<1>2. rec'[t] = q /\ \A x \in Tasks : x # t => rec'[x] = rec[x]
  BY <1>1 DEF TypeOK
<1>3. \A e \in Epochs : att[t][e].pc = "reserved" => <<t, "execute">> \in stale'
  BY <1>1 DEF Waiting
<1>4. \A p \in Calls : calls[t][p].op # "none" => <<t, p>> \in stale'
  BY <1>1 DEF Waiting
<1>5. \A z : z \notin stale' => z \notin stale
  BY <1>1
<1>6. NothingRead
  BY <1>2, <1>3, <1>4, <1>5 DEF NothingRead, ReservesNothingNew
<1> QED
  BY <1>2, <1>6, QuietStep

LEMMA AttemptRestaged ==
  ASSUME TypeOK, NEW t \in Tasks, NEW e \in Epochs, NEW a, att' = PutAt(att, t, e, a),
         a.pc # "reserved"
  PROVE  ReservesNothingNew
<1>1. \A x \in Tasks, f \in Epochs : att'[x][f] = IF x = t /\ f = e THEN a ELSE att[x][f]
  BY DEF PutAt, TypeOK
<1> QED
  BY <1>1 DEF ReservesNothingNew

LEMMA StageSetAgain ==
  ASSUME TypeOK, NEW t \in Tasks, NEW e \in Epochs, NEW pc, SetAttempt(t, e, pc),
         pc # "reserved"
  PROVE  ReservesNothingNew
<1>1. [att[t][e] EXCEPT !.pc = pc].pc = pc
  BY Cells DEF Attempt
<1> QED
  BY <1>1, AttemptRestaged DEF SetAttempt

LEMMA AttemptsUnread == ASSUME UNCHANGED att PROVE ReservesNothingNew
BY DEF ReservesNothingNew

-----------------------------------------------------------------------------
(* Every action keeps the records good and the history in order. *)

LEMMA TerminationsReadNothing ==
  ASSUME TypeOK, RecordInv, NEW t \in Tasks, NEW e \in Epochs,
         \/ LaunchDeadline(t, e) \/ Launched(t, e) \/ LateLaunched(t, e)
         \/ LaunchRejected(t, e) \/ Cleanup(t, e) \/ Supervisor(t, e)
         \/ EraseRejected(t) \/ EraseObjects(t) \/ DeleteAgain(t)
         \/ Tick \/ FinalizeReply(t, e) \/ WatchRejected(t, e)
  PROVE  RecordInv' /\ History
<1>1. UNCHANGED <<rec, stale, calls>>
  BY DEF LaunchDeadline, Launched, LateLaunched, LaunchRejected, Cleanup, Supervisor, SpawnResolves,
     SpawnRejects, PutResult, ChildExits, LatePut, EraseRejected, EraseObjects, DeleteAgain,
     Tick, FinalizeReply, WatchRejected
<1>2. UNCHANGED att \/ \E pc : pc # "reserved" /\ SetAttempt(t, e, pc)
  BY DEF LaunchDeadline, Launched, LateLaunched, LaunchRejected, Cleanup, Supervisor, SpawnResolves,
     SpawnRejects, PutResult, ChildExits, LatePut, EraseRejected, EraseObjects, DeleteAgain,
     Tick, FinalizeReply, WatchRejected
<1>3. ReservesNothingNew
  BY <1>2, AttemptsUnread, StageSetAgain
<1> QED
  BY <1>1, <1>3, IdleStep

LEMMA CreateWrites ==
  ASSUME TypeOK, RecordInv, NEW t \in Tasks, NEW q \in Requests, Create(t, q)
  PROVE  RecordInv' /\ History
<1> DEFINE r == [NoRecord EXCEPT !.state = "queued", !.deadline = q.deadline, !.ttl = q.ttl]
<1>1. q.deadline \in Nat /\ q.ttl \in Nat /\ q.deadline <= q.ttl
  BY CoreAssumption DEF CoreAssumption
<1>2. rec[t].state = "absent" /\ rec[t].deletion = FALSE
  BY RecordFields DEF Create, RecordInv, GoodRecord, JobRecord
<1>3. Write(rec[t], r)
  BY <1>1, <1>2 DEF Write, Ordered, GoodRecord, NoRecord, ProcessOwningStates
<1> HIDE DEF r
<1>4. Commit(t, r)
  BY DEF Create, r
<1> QED
  BY <1>3, <1>4, AttemptsUnread, CommitStep DEF Create

LEMMA LeaseExpiryBounds ==
  ASSUME NEW r \in JobRecord, NEW at \in Nat, NEW d \in Nat \ {0}, r.deadline <= r.ttl,
         at < r.deadline
  PROVE  LeaseExpiry(r, at, d) # 0 /\ LeaseExpiry(r, at, d) <= r.deadline
<1>1. r.deadline \in Nat /\ r.ttl \in Nat
  BY DEF JobRecord
<1> QED
  BY <1>1 DEF LeaseExpiry, Earliest

LEMMA ClaimWrites ==
  ASSUME TypeOK, RecordInv, NEW t \in Tasks, NEW d \in LeaseDurations, Claim(t, d)
  PROVE  RecordInv' /\ History
<1> DEFINE r == rec[t]
           x == LeaseExpiry(r, now, d)
           q == [r EXCEPT !.state = "leased", !.epoch = r.epoch + 1, !.lease = x,
                          !.failure = FALSE, !.pending = "none"]
<1>1. r \in JobRecord /\ now \in Nat /\ GoodRecord(r) /\ d \in Nat \ {0}
  BY RecordFields, CoreAssumption DEF RecordInv, CoreAssumption
<1>2. r.state = "queued" /\ now < r.deadline /\ r.deadline <= r.ttl
  BY <1>1 DEF Claim, DeadlineExpired, GoodRecord, JobRecord
<1>3. x # 0 /\ x <= r.deadline
  BY <1>1, <1>2, LeaseExpiryBounds
<1> HIDE DEF x
<1>4. Write(r, q)
  <2>1. GoodRecord(q)
    BY <1>1, <1>2, <1>3 DEF GoodRecord, ProcessOwningStates, JobRecord
  <2>2. r.deletion = FALSE
    BY <1>1, <1>2 DEF GoodRecord, JobRecord
  <2>3. TransitionAllowed("queued", "leased")
    BY DEF TransitionAllowed, AllowedTransitions
  <2>4. q.state = "leased"
    BY <1>1 DEF JobRecord
  <2> QED
    BY <1>2, <2>1, <2>2, <2>3, <2>4 DEF Write, Ordered
<1>5. Commit(t, q)
  BY DEF Claim, x
<1> HIDE DEF q
<1> QED
  BY <1>4, <1>5, AttemptsUnread, CommitStep DEF Claim

\* A write that keeps attempts and calls as they are, or no write.
LEMMA PlainStep ==
  ASSUME TypeOK, RecordInv, UNCHANGED <<att, calls>>, NEW t \in Tasks,
         \/ NoCommit
         \/ \E q : Commit(t, q) /\ Write(rec[t], q)
  PROVE  RecordInv' /\ History
<1>1. CASE NoCommit
  BY <1>1, AttemptsUnread, IdleStep DEF NoCommit
<1>2. CASE \E q : Commit(t, q) /\ Write(rec[t], q)
  BY <1>2, AttemptsUnread, CommitStep
<1> QED
  BY <1>1, <1>2

\* A job without process takes a state it may rest in.
LEMMA RestingWrites ==
  ASSUME NEW r \in JobRecord, GoodRecord(r)
  PROVE  /\ r.state \in {"queued", "leased"} =>
              /\ Write(r, Released(r, "cancelled", 0, FALSE))
              /\ Write(r, Released(r, "timed_out", 0, FALSE))
         /\ r.state \in {"queued", "leased", "succeeded", "failed", "cancelled", "timed_out"} =>
              Write(r, Released(r, "expired", r.result, FALSE))
         /\ r.state = "deleting" => Write(r, Released(r, "deleted", 0, FALSE))
<1>1. \A s \in {"cancelled", "timed_out", "expired", "deleted"} :
        s \in States /\ s \notin ProcessOwningStates \cup {"leased"} /\ s # "failed"
  BY DEF States, ProcessOwningStates
<1>2. r.state \in {"queued", "leased", "succeeded", "failed", "cancelled", "timed_out"} =>
        ~r.deletion /\ r.state # "absent" /\ TransitionAllowed(r.state, "expired")
  BY DEF GoodRecord, TransitionAllowed, AllowedTransitions
<1>3. r.state \in {"queued", "leased"} =>
        TransitionAllowed(r.state, "cancelled") /\ TransitionAllowed(r.state, "timed_out")
  BY DEF TransitionAllowed, AllowedTransitions
<1>4. r.state = "deleting" => r.deletion /\ TransitionAllowed(r.state, "deleted")
  BY DEF GoodRecord, TransitionAllowed, AllowedTransitions
<1>5. ASSUME r.state \in {"queued", "leased"}
      PROVE  /\ Write(r, Released(r, "cancelled", 0, FALSE))
             /\ Write(r, Released(r, "timed_out", 0, FALSE))
  BY <1>1, <1>2, <1>3, <1>5, ReleasedWrites
<1>6. ASSUME r.state \in {"queued", "leased", "succeeded", "failed", "cancelled", "timed_out"}
      PROVE  Write(r, Released(r, "expired", r.result, FALSE))
  BY <1>1, <1>2, <1>6, ReleasedWrites
<1>7. ASSUME r.state = "deleting" PROVE Write(r, Released(r, "deleted", 0, FALSE))
  BY <1>1, <1>4, <1>7, ReleasedWrites
<1> QED
  BY <1>5, <1>6, <1>7

LEMMA CancelWrites ==
  ASSUME TypeOK, RecordInv, NEW t \in Tasks, Cancel(t)
  PROVE  RecordInv' /\ History
<1> DEFINE r == rec[t]
<1>1. r \in JobRecord /\ GoodRecord(r)
  BY RecordFields DEF RecordInv
<1>2. CASE r.state \in {"queued", "leased"} /\ Commit(t, Released(r, "cancelled", 0, FALSE))
  BY <1>1, <1>2, RestingWrites, PlainStep DEF Cancel
<1>3. CASE NoCommit
  BY <1>3, PlainStep DEF Cancel
<1>4. CASE r.state \in ProcessOwningStates /\ r.pending \notin {"deleted", "cancelled"}
           /\ Commit(t, Stopping(r, "cancelled"))
  <2>1. ~r.deletion
    BY <1>1, <1>4 DEF GoodRecord, ProcessOwningStates
  <2>2. "cancelled" \in PendingStopOutcomes
    BY DEF PendingStopOutcomes
  <2>3. Write(r, Stopping(r, "cancelled"))
    BY <1>1, <1>4, <2>1, <2>2, StoppingWrites
  <2> QED
    BY <1>4, <2>3, PlainStep DEF Cancel
<1> QED
  BY <1>2, <1>3, <1>4 DEF Cancel

LEMMA DeleteIdleWrites ==
  ASSUME TypeOK, RecordInv, NEW t \in Tasks, DeleteIdle(t)
  PROVE  RecordInv' /\ History
<1> DEFINE r == rec[t]
           q == [Released(r, "deleting", 0, FALSE) EXCEPT !.deletion = TRUE]
<1>1. r \in JobRecord /\ GoodRecord(r)
  BY RecordFields DEF RecordInv
<1>2. r.state \in {"queued", "leased", "succeeded", "failed", "cancelled", "timed_out", "expired"}
  BY <1>1 DEF DeleteIdle, JobRecord, States, ProcessOwningStates
<1>3. TransitionAllowed(r.state, "deleting") /\ r.state # "absent"
  BY <1>2 DEF TransitionAllowed, AllowedTransitions
<1>4. /\ q.state = "deleting" /\ q.result = 0 /\ q.failure = FALSE
      /\ q.lease = 0 /\ q.exec = 0 /\ q.bound = FALSE /\ q.stop = FALSE
      /\ q.pending = "none" /\ q.deletion = TRUE
      /\ q.deadline = r.deadline /\ q.ttl = r.ttl
  BY <1>1 DEF Released, Detached, JobRecord
<1>5. r.deadline \in Nat
  BY <1>1 DEF JobRecord
<1>6. Commit(t, q) /\ UNCHANGED <<att, calls>>
  BY DEF DeleteIdle
<1> HIDE DEF q
<1>7. GoodRecord(q)
  BY <1>1, <1>4, <1>5 DEF GoodRecord, ProcessOwningStates
<1>8. Write(r, q)
  BY <1>3, <1>4, <1>7 DEF Write, Ordered
<1> QED
  BY <1>6, <1>8, PlainStep

LEMMA DeleteOwningWrites ==
  ASSUME TypeOK, RecordInv, NEW t \in Tasks, DeleteOwning(t)
  PROVE  RecordInv' /\ History
<1> DEFINE r == rec[t]
           q == [Stopping(r, "deleted") EXCEPT !.deletion = TRUE]
<1>1. r \in JobRecord /\ GoodRecord(r) /\ r.state \in ProcessOwningStates
  BY RecordFields DEF RecordInv, DeleteOwning
<1>2. UNCHANGED <<att, calls>> /\ (NoCommit \/ Commit(t, q))
  BY DEF DeleteOwning
<1>3. /\ q.state = "cancelling" /\ q.stop = TRUE /\ q.pending = "deleted"
      /\ q.exec = r.exec /\ q.epoch = r.epoch /\ q.lease = r.lease /\ q.bound = r.bound
      /\ q.deletion = TRUE /\ q.failure = r.failure /\ q.result = r.result
      /\ q.deadline = r.deadline /\ q.ttl = r.ttl
  BY <1>1 DEF Stopping, JobRecord
<1>4. r.deadline \in Nat /\ r.ttl \in Nat /\ r.lease \in Nat /\ r.failure \in BOOLEAN
  BY <1>1 DEF JobRecord
<1> HIDE DEF q
<1>5. GoodRecord(q)
  BY <1>1, <1>3, <1>4 DEF GoodRecord, ProcessOwningStates
<1>6. TransitionAllowed(r.state, "cancelling") /\ r.state # "absent"
  BY <1>1 DEF ProcessOwningStates, TransitionAllowed, AllowedTransitions
<1>7. Write(r, q)
  BY <1>3, <1>5, <1>6 DEF Write, Ordered
<1> QED
  BY <1>2, <1>7, PlainStep

LEMMA SweepWrites ==
  ASSUME TypeOK, RecordInv, NEW t \in Tasks, Sweep(t)
  PROVE  RecordInv' /\ History
<1> DEFINE r == rec[t]
<1>1. r \in JobRecord /\ GoodRecord(r)
  BY RecordFields DEF RecordInv
<1>2. {"expired", "timed_out", "queued"} \subseteq PendingStopOutcomes
  BY DEF PendingStopOutcomes
<1>3. CASE SweepCancelling(t)
  <2> DEFINE desired == IF TtlExpired(r, now) \/ DeadlineExpired(r, now)
                        THEN TemporalOutcome(r, now)
                        ELSE IF r.pending = "none" THEN "queued" ELSE r.pending
             q == [r EXCEPT !.pending = desired]
  <2>1. r.state = "cancelling" /\ UNCHANGED <<att, calls>>
        /\ (NoCommit \/ (r.pending \notin {"deleted", "cancelled", "failed", desired}
                          /\ Commit(t, q)))
    BY <1>3 DEF SweepCancelling
  <2>2. ASSUME r.pending \notin {"deleted", "cancelled", "failed", desired} PROVE Write(r, q)
    <3>1. desired \in {"expired", "timed_out", "queued"}
      BY <2>2, ClockOutcome
    <3> HIDE DEF desired
    <3>2. /\ q.state = "cancelling" /\ q.stop = r.stop /\ q.pending = desired
          /\ q.exec = r.exec /\ q.epoch = r.epoch /\ q.lease = r.lease /\ q.bound = r.bound
          /\ q.deletion = r.deletion /\ q.failure = r.failure /\ q.result = r.result
          /\ q.deadline = r.deadline /\ q.ttl = r.ttl
      BY <1>1, <2>1 DEF JobRecord
    <3>3. r.deletion = FALSE
      BY <1>1, <2>1, <2>2 DEF GoodRecord, JobRecord
    <3> HIDE DEF q
    <3>4. GoodRecord(q)
      BY <1>1, <2>1, <3>1, <3>2, <3>3 DEF GoodRecord, ProcessOwningStates
    <3> QED
      BY <2>1, <3>2, <3>3, <3>4 DEF Write, Ordered, TransitionAllowed
  <2> QED
    BY <2>1, <2>2, PlainStep
<1>4. CASE SweepOwning(t)
  <2> DEFINE q == Stopping(r, TemporalOutcome(r, now))
  <2>1. r.state \in {"starting", "running"} /\ UNCHANGED <<att, calls>> /\ Commit(t, q)
    BY <1>4 DEF SweepOwning
  <2>2. ~r.deletion /\ r.state \in ProcessOwningStates
    BY <1>1, <2>1 DEF GoodRecord, ProcessOwningStates
  <2>3. Write(r, q)
    BY <1>1, <1>2, <2>2, ClockOutcome, StoppingWrites
  <2> QED
    BY <2>1, <2>3, PlainStep
<1>5. CASE SweepIdle(t)
  <2>1. UNCHANGED <<att, calls>>
    BY <1>5 DEF SweepIdle
  <2>2. CASE r.state \notin ProcessOwningStates \cup {"expired"}
             /\ Commit(t, Released(r, "expired", r.result, FALSE))
    <3>1. r.state \in {"queued", "leased", "succeeded", "failed", "cancelled", "timed_out"}
      BY <1>1, <2>2 DEF Sweep, JobRecord, States, ProcessOwningStates
    <3> QED
      BY <1>1, <2>1, <2>2, <3>1, RestingWrites, PlainStep
  <2>3. CASE r.state \in {"queued", "leased"} /\ Commit(t, Released(r, "timed_out", 0, FALSE))
    BY <1>1, <2>1, <2>3, RestingWrites, PlainStep
  <2>4. CASE r.state = "leased" /\ Commit(t, [r EXCEPT !.state = "queued", !.lease = 0])
    <3> DEFINE q == [r EXCEPT !.state = "queued", !.lease = 0]
    <3>1. r.deadline \in Nat /\ r.ttl \in Nat /\ r.deletion \in BOOLEAN
      BY <1>1 DEF JobRecord
    <3>2. r.deletion = FALSE
      BY <1>1, <2>4, <3>1 DEF GoodRecord
    <3>3. /\ q.state = "queued" /\ q.lease = 0 /\ q.stop = r.stop /\ q.pending = r.pending
          /\ q.exec = r.exec /\ q.epoch = r.epoch /\ q.bound = r.bound
          /\ q.deletion = r.deletion /\ q.failure = r.failure /\ q.result = r.result
          /\ q.deadline = r.deadline /\ q.ttl = r.ttl
      BY <1>1 DEF JobRecord
    <3>4. Commit(t, q)
      BY <2>4
    <3> HIDE DEF q
    <3>5. GoodRecord(q)
      BY <1>1, <2>4, <3>1, <3>3 DEF GoodRecord, ProcessOwningStates
    <3>6. TransitionAllowed("leased", "queued")
      BY DEF TransitionAllowed, AllowedTransitions
    <3>7. Write(r, q)
      BY <2>4, <3>2, <3>3, <3>5, <3>6 DEF Write, Ordered
    <3> QED
      BY <2>1, <3>4, <3>7, PlainStep
  <2> QED
    BY <1>5, <2>2, <2>3, <2>4 DEF SweepIdle
<1> QED
  BY <1>3, <1>4, <1>5 DEF Sweep

LEMMA CompleteDeletionWrites ==
  ASSUME TypeOK, ProcessInv, RecordInv, NEW t \in Tasks, CompleteDeletion(t)
  PROVE  RecordInv' /\ History
<1>1. rec[t].state = "deleting" /\ UNCHANGED <<att, calls>>
      /\ (NoCommit \/ Commit(t, Released(rec[t], "deleted", 0, FALSE)))
  BY DEF CompleteDeletion, ProcessInv, VerifyingIsDeleting
<1> QED
  BY <1>1, RestingWrites, RecordFields, PlainStep DEF RecordInv

-----------------------------------------------------------------------------
(* Heartbeats and publications *)

\* A call reads the record.
LEMMA ReadStep ==
  ASSUME TypeOK, RecordInv, NEW t \in Tasks, NEW p \in Calls, NEW c,
         calls' = PutAt(calls, t, p, c), UNCHANGED <<rec, att, stale>>,
         calls[t][p].op = "none",
         /\ c.op = "heartbeat" => /\ rec[t].state \in {"leased", "starting", "running"}
                                  /\ c.until # 0 /\ c.until <= rec[t].deadline
         /\ c.op = "publish" => rec[t].state = "running"
  PROVE  RecordInv' /\ History
<1>1. \A x \in Tasks, y \in Calls : calls'[x][y] = IF x = t /\ y = p THEN c ELSE calls[x][y]
  BY DEF PutAt, TypeOK
<1>2. \A x \in Tasks, y \in Calls :
        calls'[x][y].op # "none" /\ <<x, y>> \notin stale' => CallIsCurrent(x, y)'
  BY <1>1 DEF RecordInv, CallIsCurrent
<1>3. \A x \in Tasks : GoodRecord(rec'[x]) /\ Ordered(rec[x], rec'[x])
  BY Unwritten, RecordFields DEF RecordInv
<1> QED
  BY <1>2, <1>3 DEF RecordInv, History

LEMMA HeartbeatReads ==
  ASSUME TypeOK, RecordInv, NEW t \in Tasks, NEW p \in Calls, NEW e \in Epochs,
         NEW d \in LeaseDurations, HeartbeatRead(t, p, e, d)
  PROVE  RecordInv' /\ History
<1> DEFINE r == rec[t]
           x == LeaseExpiry(r, now, d)
<1>1. r \in JobRecord /\ now \in Nat /\ GoodRecord(r) /\ d \in Nat \ {0}
  BY RecordFields, CoreAssumption DEF RecordInv, CoreAssumption
<1>2. now < r.deadline /\ r.deadline <= r.ttl
  BY <1>1 DEF HeartbeatRead, LeaseActive, GoodRecord, JobRecord
<1>3. x # 0 /\ x <= r.deadline
  BY <1>1, <1>2, LeaseExpiryBounds
<1>4. /\ calls[t][p].op = "none" /\ r.state \in {"leased", "starting", "running"}
      /\ calls' = PutAt(calls, t, p, [op |-> "heartbeat", key |-> 0, until |-> x])
      /\ UNCHANGED <<rec, att, stale>>
  BY DEF HeartbeatRead
<1> HIDE DEF x
<1> QED
  BY <1>3, <1>4, ReadStep

LEMMA PublishReads ==
  ASSUME TypeOK, RecordInv, NEW t \in Tasks, NEW p \in Calls, NEW e \in Epochs,
         NEW k \in Epochs, PublishRead(t, p, e, k)
  PROVE  RecordInv' /\ History
BY ReadStep DEF PublishRead

\* A call that has not been overtaken writes.
LEMMA CallWrites ==
  ASSUME TypeOK, RecordInv, NEW t \in Tasks, NEW p \in Calls, NEW q,
         rec' = [rec EXCEPT ![t] = q], Write(rec[t], q),
         stale' = stale \cup ({t} \X (Waiting(t) \ {p})),
         calls' = PutAt(calls, t, p, NoCall), UNCHANGED att
  PROVE  RecordInv' /\ History
<1>1. \A x \in Tasks, y \in Calls :
        calls'[x][y] = IF x = t /\ y = p THEN NoCall ELSE calls[x][y]
  BY DEF PutAt, TypeOK
<1>2. rec'[t] = q /\ \A x \in Tasks : x # t => rec'[x] = rec[x]
  BY DEF TypeOK
<1>3. "execute" # p
  BY CoreAssumption DEF CoreAssumption
<1>4. \A e \in Epochs : att[t][e].pc = "reserved" => <<t, "execute">> \in stale'
  BY <1>3 DEF Waiting
<1>5. \A y \in Calls : y # p /\ calls[t][y].op # "none" => <<t, y>> \in stale'
  BY DEF Waiting
<1>6. \A z : z \notin stale' => z \notin stale
  OBVIOUS
<1>7. NoCall.op = "none"
  BY DEF NoCall
<1>8. NothingRead
  BY <1>1, <1>2, <1>4, <1>5, <1>6, <1>7 DEF NothingRead
<1> QED
  BY <1>2, <1>8, QuietStep

LEMMA HeartbeatWrites ==
  ASSUME TypeOK, RecordInv, NEW t \in Tasks, NEW p \in Calls, HeartbeatCommit(t, p)
  PROVE  RecordInv' /\ History
<1> DEFINE r == rec[t]
           x == calls[t][p].until
           q == [r EXCEPT !.lease = x]
<1>1. r \in JobRecord /\ GoodRecord(r)
  BY RecordFields DEF RecordInv
<1>2. r.state \in {"leased", "starting", "running"} /\ x # 0 /\ x <= r.deadline
  BY DEF HeartbeatCommit, RecordInv, CallIsCurrent
<1> HIDE DEF x
<1>3. /\ q.state = r.state /\ q.lease = x /\ q.stop = r.stop /\ q.pending = r.pending
      /\ q.exec = r.exec /\ q.epoch = r.epoch /\ q.bound = r.bound
      /\ q.deletion = r.deletion /\ q.failure = r.failure /\ q.result = r.result
      /\ q.deadline = r.deadline /\ q.ttl = r.ttl
  BY <1>1 DEF JobRecord
<1>4. rec' = [rec EXCEPT ![t] = q]
  BY DEF HeartbeatCommit, x
<1> HIDE DEF q
<1>5. GoodRecord(q)
  BY <1>1, <1>2, <1>3 DEF GoodRecord, ProcessOwningStates
<1>6. r.deletion => r.state \in {"cancelling", "deleting", "deleted"}
  BY <1>1 DEF GoodRecord
<1>7. Write(r, q)
  BY <1>2, <1>3, <1>5, <1>6 DEF Write, Ordered, TransitionAllowed
<1> QED
  BY <1>4, <1>7, CallWrites DEF HeartbeatCommit

LEMMA PublishWrites ==
  ASSUME TypeOK, RecordInv, NEW t \in Tasks, NEW p \in Calls, PublishCommit(t, p)
  PROVE  RecordInv' /\ History
<1> DEFINE r == rec[t]
           x == calls[t][p].key
           q == [r EXCEPT !.result = x]
<1>1. r \in JobRecord /\ GoodRecord(r)
  BY RecordFields DEF RecordInv
<1>2. r.state = "running"
  BY DEF PublishCommit, RecordInv, CallIsCurrent
<1> HIDE DEF x
<1>3. /\ q.state = r.state /\ q.lease = r.lease /\ q.stop = r.stop /\ q.pending = r.pending
      /\ q.exec = r.exec /\ q.epoch = r.epoch /\ q.bound = r.bound
      /\ q.deletion = r.deletion /\ q.failure = r.failure
      /\ q.deadline = r.deadline /\ q.ttl = r.ttl
  BY <1>1 DEF JobRecord
<1>4. rec' = [rec EXCEPT ![t] = q]
  BY DEF PublishCommit, x
<1> HIDE DEF q
<1>5. GoodRecord(q)
  BY <1>1, <1>2, <1>3 DEF GoodRecord, ProcessOwningStates
<1>6. r.deletion => r.state \in {"cancelling", "deleting", "deleted"}
  BY <1>1 DEF GoodRecord
<1>7. Write(r, q)
  BY <1>2, <1>3, <1>5, <1>6 DEF Write, Ordered, TransitionAllowed
<1> QED
  BY <1>4, <1>7, CallWrites DEF PublishCommit

LEMMA CallGivesUp ==
  ASSUME TypeOK, RecordInv, NEW t \in Tasks, NEW p \in Calls, CallOvertaken(t, p)
  PROVE  RecordInv' /\ History
<1>1. \A x \in Tasks, y \in Calls :
        calls'[x][y] = IF x = t /\ y = p THEN NoCall ELSE calls[x][y]
  BY DEF PutAt, TypeOK, CallOvertaken
<1>2. "execute" # p /\ NoCall.op = "none"
  BY CoreAssumption DEF CoreAssumption, NoCall
<1>3. NothingRead
  BY <1>1, <1>2 DEF NothingRead, CallOvertaken
<1> QED
  BY <1>3, QuietStep DEF CallOvertaken

-----------------------------------------------------------------------------
(* Executions *)

LEMMA ReserveReads ==
  ASSUME TypeOK, ProcessInv, RecordInv, NEW t \in Tasks, NEW e \in Epochs, ExecuteReserve(t, e)
  PROVE  RecordInv' /\ History
<1>1. PICK a : att' = PutAt(att, t, e, a)
  BY DEF ExecuteReserve
<1>2. \A x \in Tasks, f \in Epochs : x # t \/ f # e => att'[x][f] = att[x][f]
  BY <1>1 DEF PutAt, TypeOK
<1>3. rec[t].epoch = e /\ UNCHANGED <<rec, stale, calls>>
  BY DEF ExecuteReserve, LeaseActive
<1>4. \A x \in Tasks, f \in Epochs :
        att'[x][f].pc = "reserved" /\ <<x, "execute">> \notin stale' => rec'[x].epoch = f
  BY <1>2, <1>3 DEF RecordInv
<1>5. \A x \in Tasks, y \in Calls :
        calls'[x][y].op # "none" /\ <<x, y>> \notin stale' => CallIsCurrent(x, y)'
  BY <1>3 DEF RecordInv, CallIsCurrent
<1>6. \A x \in Tasks : GoodRecord(rec'[x]) /\ Ordered(rec[x], rec'[x])
  BY <1>3, Unwritten, RecordFields DEF RecordInv
<1> QED
  BY <1>4, <1>5, <1>6 DEF RecordInv, History

\* The write of a start finds the leased record of its own epoch.
LEMMA StartWrites ==
  ASSUME TypeOK, ProcessInv, RecordInv, NEW t \in Tasks, NEW e \in Epochs, NEW pc,
         att[t][e].pc = "reserved", <<t, "execute">> \notin stale,
         rec' = [rec EXCEPT ![t] = StartingRecord(@, e)],
         stale' = stale \cup ({t} \X (Waiting(t) \ {"execute"})),
         SetAttempt(t, e, pc), pc \in {"racing", "done"}, UNCHANGED calls
  PROVE  RecordInv' /\ History
<1> DEFINE r == rec[t]
           q == StartingRecord(r, e)
<1>1. r \in JobRecord /\ GoodRecord(r) /\ r.state = "leased" /\ r.epoch = e /\ e # 0
  BY RecordFields DEF RecordInv, ProcessInv, ReservationIsCurrent, Epochs
<1>2. /\ q.state = "starting" /\ q.lease = r.lease /\ q.stop = FALSE /\ q.pending = "none"
      /\ q.exec = e /\ q.epoch = r.epoch /\ q.bound = FALSE
      /\ q.deletion = r.deletion /\ q.failure = FALSE /\ q.result = 0
      /\ q.deadline = r.deadline /\ q.ttl = r.ttl
  BY <1>1 DEF StartingRecord, StartingOwning, Released, Detached, JobRecord
<1>3. r.deletion = FALSE /\ r.lease # 0
  BY <1>1 DEF GoodRecord, JobRecord
<1>4. rec' = [rec EXCEPT ![t] = q]
  OBVIOUS
<1> HIDE DEF q
<1>5. GoodRecord(q)
  BY <1>1, <1>2, <1>3 DEF GoodRecord, ProcessOwningStates
<1>6. TransitionAllowed("leased", "starting")
  BY DEF TransitionAllowed, AllowedTransitions
<1>7. Write(r, q)
  BY <1>1, <1>2, <1>3, <1>5, <1>6 DEF Write, Ordered
<1>8. rec'[t] = q /\ \A x \in Tasks : x # t => rec'[x] = rec[x]
  BY <1>4 DEF TypeOK
<1>9. [att[t][e] EXCEPT !.pc = pc].pc = pc
  BY Cells DEF Attempt
<1>10. \A x \in Tasks, f \in Epochs :
         att'[x][f] = IF x = t /\ f = e THEN [att[t][e] EXCEPT !.pc = pc] ELSE att[x][f]
  BY DEF SetAttempt, PutAt, TypeOK
<1>11. \A f \in Epochs : att'[t][f].pc # "reserved"
  <2>1. att'[t][e].pc = pc
    BY <1>9, <1>10
  <2>2. \A f \in Epochs : f # e => att'[t][f] = att[t][f]
    BY <1>10
  <2>3. \A f \in Epochs : att[t][f].pc = "reserved" => f = e
    BY DEF ProcessInv, OneReservation
  <2> QED
    BY <2>1, <2>2, <2>3
<1>12. \A y \in Calls : calls[t][y].op # "none" => <<t, y>> \in stale'
  BY CoreAssumption DEF Waiting, CoreAssumption
<1>13. \A z : z \notin stale' => z \notin stale
  OBVIOUS
<1>14. NothingRead
  BY <1>8, <1>10, <1>11, <1>12, <1>13 DEF NothingRead
<1> QED
  BY <1>7, <1>8, <1>14, QuietStep

\* A start that has not been written gives up.
LEMMA StartGivesUp ==
  ASSUME TypeOK, ProcessInv, RecordInv, NEW t \in Tasks, NEW e \in Epochs, NEW a,
         att[t][e].pc = "reserved", att' = PutAt(att, t, e, a), a.pc \in {"none", "done"},
         stale' = stale \ {<<t, "execute">>}, UNCHANGED <<rec, calls>>
  PROVE  RecordInv' /\ History
<1>1. \A x \in Tasks, f \in Epochs : att'[x][f] = IF x = t /\ f = e THEN a ELSE att[x][f]
  BY DEF PutAt, TypeOK
<1>2. \A f \in Epochs : att'[t][f].pc # "reserved"
  BY <1>1 DEF ProcessInv, OneReservation
<1>3. \A x \in Tasks, y \in Calls : <<x, y>> \notin stale' => <<x, y>> \notin stale
  BY CoreAssumption DEF CoreAssumption
<1>4. \A x \in Tasks : x # t /\ <<x, "execute">> \notin stale' => <<x, "execute">> \notin stale
  OBVIOUS
<1>5. NothingRead
  BY <1>1, <1>2, <1>3, <1>4 DEF NothingRead
<1> QED
  BY <1>5, QuietStep

LEMMA LaunchTimedOutWrites ==
  ASSUME TypeOK, RecordInv, NEW t \in Tasks, NEW e \in Epochs, MarkLaunchTimedOut(t, e)
  PROVE  RecordInv' /\ History
<1> DEFINE r == rec[t]
           q == [Stopping(r, "failed") EXCEPT !.failure = TRUE, !.result = 0]
<1>1. r \in JobRecord /\ GoodRecord(r)
  BY RecordFields DEF RecordInv
<1>2. [att[t][e] EXCEPT !.pc = "late", !.late = TRUE].pc = "late"
  BY Cells DEF Attempt
<1>3. ReservesNothingNew /\ UNCHANGED calls
  BY <1>2, AttemptRestaged DEF MarkLaunchTimedOut
<1>4. NoCommit \/ (r.state = "starting" /\ Commit(t, q))
  BY DEF MarkLaunchTimedOut
<1>5. ASSUME r.state = "starting" PROVE Write(r, q)
  <2>1. /\ q.state = "cancelling" /\ q.stop = TRUE /\ q.pending = "failed"
        /\ q.exec = r.exec /\ q.epoch = r.epoch /\ q.lease = r.lease /\ q.bound = r.bound
        /\ q.deletion = r.deletion /\ q.failure = TRUE /\ q.result = 0
        /\ q.deadline = r.deadline /\ q.ttl = r.ttl
    BY <1>1 DEF Stopping, JobRecord
  <2>2. r.deletion = FALSE
    BY <1>1, <1>5 DEF GoodRecord, JobRecord
  <2> HIDE DEF q
  <2>3. GoodRecord(q)
    BY <1>1, <1>5, <2>1, <2>2 DEF GoodRecord, ProcessOwningStates
  <2>4. TransitionAllowed("starting", "cancelling")
    BY DEF TransitionAllowed, AllowedTransitions
  <2> QED
    BY <1>5, <2>1, <2>2, <2>3, <2>4 DEF Write, Ordered
<1> QED
  BY <1>3, <1>4, <1>5, CommitStep, IdleStep DEF NoCommit

LEMMA StartFailedWrites ==
  ASSUME TypeOK, RecordInv, NEW t \in Tasks, NEW e \in Epochs, StartFailed(t, e)
  PROVE  RecordInv' /\ History
<1> DEFINE r == rec[t]
<1>1. r \in JobRecord /\ GoodRecord(r)
  BY RecordFields DEF RecordInv
<1>2. ReservesNothingNew /\ UNCHANGED calls
  BY StageSetAgain DEF StartFailed
<1>3. CASE NoCommit
  BY <1>2, <1>3, IdleStep DEF NoCommit
<1>4. CASE r.state = "cancelling" /\ Commit(t, Stopped(r))
  BY <1>1, <1>2, <1>4, StoppedWrites, CommitStep
<1>5. CASE r.state = "starting" /\ Commit(t, Released(r, "failed", 0, TRUE))
  <2>1. ~r.deletion
    BY <1>1, <1>5 DEF GoodRecord
  <2>2. TransitionAllowed(r.state, "failed")
    BY <1>5 DEF TransitionAllowed, AllowedTransitions
  <2>3. "failed" \in States /\ "failed" \notin ProcessOwningStates \cup {"leased"}
    BY DEF States, ProcessOwningStates
  <2>4. Write(r, Released(r, "failed", 0, TRUE))
    BY <1>1, <1>5, <2>1, <2>2, <2>3, ReleasedWrites
  <2> QED
    BY <1>2, <1>5, <2>4, CommitStep
<1> QED
  BY <1>3, <1>4, <1>5 DEF StartFailed

LEMMA BindStartedWrites ==
  ASSUME TypeOK, RecordInv, NEW t \in Tasks, NEW e \in Epochs, BindStarted(t, e)
  PROVE  RecordInv' /\ History
<1> DEFINE r == rec[t]
           s == IF r.state = "starting" THEN "running" ELSE r.state
           q == [r EXCEPT !.bound = TRUE, !.state = s]
<1>1. r \in JobRecord /\ GoodRecord(r)
  BY RecordFields DEF RecordInv
<1>2. ReservesNothingNew /\ UNCHANGED calls
  BY StageSetAgain DEF BindStarted
<1>3. NoCommit \/ (r.exec = e /\ Commit(t, q))
  BY DEF BindStarted
<1>4. ASSUME r.exec = e PROVE Write(r, q)
  <2>1. r.state \in ProcessOwningStates
    BY <1>1, <1>4 DEF GoodRecord, Epochs
  <2> HIDE DEF s
  <2>2. /\ q.state = s /\ q.stop = r.stop /\ q.pending = r.pending
        /\ q.exec = r.exec /\ q.epoch = r.epoch /\ q.lease = r.lease /\ q.bound = TRUE
        /\ q.deletion = r.deletion /\ q.failure = r.failure /\ q.result = r.result
        /\ q.deadline = r.deadline /\ q.ttl = r.ttl
    BY <1>1 DEF JobRecord
  <2> HIDE DEF q
  <2>3. /\ r.state = "starting" => s = "running"
        /\ r.state # "starting" => s = r.state
        /\ s \in {"running", "cancelling"} /\ (s = "cancelling" <=> r.state = "cancelling")
    BY <2>1 DEF s, ProcessOwningStates
  <2>4. GoodRecord(q)
    BY <1>1, <2>1, <2>2, <2>3 DEF GoodRecord, ProcessOwningStates
  <2>5. TransitionAllowed(r.state, s) /\ r.state # "absent"
    BY <2>1, <2>3 DEF TransitionAllowed, AllowedTransitions, ProcessOwningStates
  <2>6. r.deletion => r.state = "cancelling"
    BY <1>1, <2>1 DEF GoodRecord, ProcessOwningStates
  <2> QED
    BY <2>2, <2>3, <2>4, <2>5, <2>6 DEF Write, Ordered
<1> QED
  BY <1>2, <1>3, <1>4, CommitStep, IdleStep DEF NoCommit

LEMMA FinalizeWrites ==
  ASSUME TypeOK, RecordInv, NEW t \in Tasks, NEW e \in Epochs, Finalize(t, e)
  PROVE  RecordInv' /\ History
<1> DEFINE r == rec[t]
           q == [Stopped(r) EXCEPT !.deletion = @ \/ StopTarget(r) = "deleting"]
<1>1. r \in JobRecord /\ GoodRecord(r)
  BY RecordFields DEF RecordInv
<1>2. ReservesNothingNew /\ UNCHANGED calls
  BY AttemptsUnread DEF Finalize
<1>3. CASE NoCommit
  BY <1>2, <1>3, IdleStep DEF NoCommit
<1>4. CASE r.state = "cancelling" /\ Commit(t, q)
  <2>1. Stopped(r) \in JobRecord /\ Write(r, Stopped(r))
    BY <1>1, <1>4, StoppedType, StoppedWrites
  <2>2. r.deletion <=> StopTarget(r) = "deleting"
    BY <1>1, <1>4, OutcomesAllowed DEF GoodRecord
  <2>3. Stopped(r).deletion = r.deletion
    BY <1>1 DEF Stopped, Released, Detached, JobRecord
  <2>4. (Stopped(r).deletion \/ StopTarget(r) = "deleting") = Stopped(r).deletion
    BY <2>1, <2>2, <2>3 DEF JobRecord
  <2>5. q = [Stopped(r) EXCEPT !.deletion = (Stopped(r).deletion \/ StopTarget(r) = "deleting")]
    OBVIOUS
  <2>6. q = Stopped(r)
    BY <2>1, <2>4, <2>5 DEF JobRecord
  <2> QED
    BY <1>2, <1>4, <2>1, <2>6, CommitStep
<1>5. CASE r.state \in {"starting", "running"} /\ Commit(t, Finalized(r, child[t][e]))
  BY <1>1, <1>2, <1>5, FinalizedWrites, CommitStep
<1> QED
  BY <1>3, <1>4, <1>5 DEF Finalize, ProcessOwningStates

LEMMA ExecutionWrites ==
  ASSUME TypeOK, ProcessInv, RecordInv, NEW t \in Tasks, NEW e \in Epochs,
         Execution(t, e) \/ Rejection(t, e)
  PROVE  RecordInv' /\ History
<1>1. CASE ExecuteCommit(t, e)
  BY <1>1, StartWrites DEF ExecuteCommit
<1>2. CASE ExecuteOvertaken(t, e)
  BY <1>2, StartGivesUp DEF ExecuteOvertaken, NoAttempt
<1>3. CASE AttemptRejected(t, e)
  <2>1. CASE att[t][e].pc = "reserved"
    <3>1. [att[t][e] EXCEPT !.pc = "done"].pc = "done"
      BY Cells DEF Attempt
    <3> QED
      BY <1>3, <2>1, <3>1, StartGivesUp DEF AttemptRejected, SetAttempt
  <2>2. CASE att[t][e].pc # "reserved"
    BY <1>3, <2>2, StageSetAgain, IdleStep DEF AttemptRejected
  <2> QED
    BY <2>1, <2>2
<1>4. CASE StartReplyLost(t, e)
  BY <1>4, StartWrites DEF StartReplyLost
<1> QED
  BY <1>1, <1>2, <1>3, <1>4, ReserveReads, LaunchTimedOutWrites, StartFailedWrites,
     BindStartedWrites, FinalizeWrites, TerminationsReadNothing DEF Execution, Rejection

LEMMA NextWrites ==
  ASSUME TypeOK, ProcessInv, RecordInv, [Next]_vars
  PROVE  RecordInv' /\ History
<1>1. CASE UNCHANGED vars
  BY <1>1, AttemptsUnread, IdleStep DEF vars
<1>2. ASSUME NEW t \in Tasks, Requested(t) PROVE RecordInv' /\ History
  <2>1. CASE DeleteAgain(t)
    BY <2>1, AttemptsUnread, IdleStep DEF DeleteAgain
  <2> QED
    BY <1>2, <2>1, CreateWrites, ClaimWrites, CancelWrites, DeleteIdleWrites, DeleteOwningWrites,
       HeartbeatReads, PublishReads DEF Requested
<1>3. ASSUME NEW t \in Tasks, Continuation(t) PROVE RecordInv' /\ History
  <2>1. CASE EraseObjects(t)
    BY <2>1, AttemptsUnread, IdleStep DEF EraseObjects
  <2> QED
    BY <1>3, <2>1, CompleteDeletionWrites, HeartbeatWrites, PublishWrites, CallGivesUp
       DEF Continuation
<1>4. ASSUME NEW t \in Tasks, EraseRejected(t) PROVE RecordInv' /\ History
  BY <1>4, AttemptsUnread, IdleStep DEF EraseRejected
<1>5. CASE Tick
  BY <1>5, AttemptsUnread, IdleStep DEF Tick
<1>6. ASSUME NEW t \in Tasks, NEW e \in Epochs,
             Supervisor(t, e) \/ FinalizeReply(t, e) \/ WatchRejected(t, e)
      PROVE  RecordInv' /\ History
  BY <1>6, TerminationsReadNothing
<1> QED
  BY <1>1, <1>2, <1>3, <1>4, <1>5, <1>6, SweepWrites, ExecutionWrites DEF Next, Step

LEMMA InitRecords == Init => RecordInv
<1> SUFFICES ASSUME Init PROVE RecordInv
  OBVIOUS
<1>1. \A t \in Tasks : GoodRecord(rec[t])
  BY DEF Init, NoRecord, GoodRecord, ProcessOwningStates
<1> QED
  BY <1>1 DEF Init, RecordInv, NoAttempt, NoCall

LEMMA RecordInvariant == Spec => [](TypeOK /\ ProcessInv /\ RecordInv)
<1>1. Init => ProcessInv /\ RecordInv
  BY InitProcess, InitRecords
<1>2. TypeOK /\ ProcessInv /\ RecordInv /\ [Next]_vars => ProcessInv' /\ RecordInv'
  BY NextProcess, NextWrites
<1> QED
  BY <1>1, <1>2, TypeCorrect, PTL DEF Spec

\* The optional fields of every record agree with its state, although starts,
\* heartbeats and publications write what they have read before: a lease is
\* extended and an attempt begun only on the record that was read.
THEOREM RecordsConsistent == Spec => []RecordConsistent
<1>1. RecordInv => RecordConsistent
  BY DEF RecordInv, GoodRecord, RecordConsistent
<1> QED
  BY <1>1, RecordInvariant, PTL

\* No operation leaves the transition table, so that assertJobStateTransition
\* never throws in the middle of one, and a requested deletion stands.
THEOREM HistoriesOrdered == Spec => HistoryIsOrdered
<1>1. TypeOK /\ ProcessInv /\ RecordInv /\ [Next]_vars =>
        [\A t \in Tasks : FollowsTable(t) /\ DeletionStands(t)]_vars
  <2>1. History => \A t \in Tasks : FollowsTable(t) /\ DeletionStands(t)
    BY DEF History, Ordered, FollowsTable, DeletionStands
  <2> QED
    BY <2>1, NextWrites
<1> QED
  BY <1>1, RecordInvariant, PTL DEF Spec, HistoryIsOrdered

=============================================================================
