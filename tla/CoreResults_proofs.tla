------------------------- MODULE CoreResults_proofs -------------------------
(***************************************************************************)
(* For all values of the constants: records, result objects and deletions  *)
(* of ComputeServiceCore agree, a live child holds its slot, the capacity   *)
(* is respected, no stop is lost and the service implements ComputeJobs.    *)
(***************************************************************************)
EXTENDS CoreProcess_proofs, FiniteSetTheorems

-----------------------------------------------------------------------------
(* The records that steps write *)

\* Which result a record may name, and that it owns its attempt's object.
GoodResult(r) ==
  /\ r.result # 0 => /\ r.result = r.epoch
                     /\ r.state \in {"running", "cancelling", "succeeded", "expired"}
  /\ r.state = "succeeded" => r.result # 0
  /\ r.exec # 0 => r.exec \in r.owned
  /\ r.state = "absent" => r.epoch = 0 /\ r.owned = {}

\* A write that neither begins nor ends an attempt ...
Goes(r, q) ==
  /\ q.exec = r.exec /\ q.owned = r.owned
  /\ r.epoch <= q.epoch
  /\ q.state = "leased" => r.state = "leased" \/ r.epoch < q.epoch
  /\ r.exec # 0 /\ r.bound => q.bound

\* ... nor publishes a result nor sets a tombstone.
Carried(r, q) ==
  /\ Goes(r, q)
  /\ q.result \in {0, r.result}
  /\ q.state = "deleted" => r.state = "deleted"

\* The writes that begin and that end attempt e.
Begun(r, q, e) ==
  /\ r.state = "leased" /\ r.exec = 0 /\ r.epoch = e
  /\ q.state = "starting" /\ q.exec = e /\ q.epoch = e /\ q.result = 0 /\ ~q.bound
  /\ q.owned = r.owned \cup {e}

Ended(r, q, e) ==
  /\ r.exec = e /\ q.exec = 0 /\ q.owned = r.owned /\ q.epoch = r.epoch
  /\ q.state \notin {"leased", "deleted"}
  /\ q.result = 0 \/ (q.result = r.result /\ q.state = "succeeded")

GoodResults == \A t \in Tasks : GoodResult(rec[t])

OthersKept(t) == \A x \in Tasks : x # t => rec'[x] = rec[x]

GoingOn == \A x \in Tasks : Goes(rec[x], rec'[x])

Kept == \A x \in Tasks : Carried(rec[x], rec'[x]) /\ GoodResult(rec'[x])

LEMMA Carries ==
  ASSUME NEW r \in JobRecord, GoodResult(r), NEW q,
         q.exec = r.exec, q.owned = r.owned, q.epoch = r.epoch,
         q.state = "leased" => r.state = "leased",
         \A s \in {"absent", "deleted"} : q.state = s => r.state = s,
         \/ q.result = 0
         \/ q.result = r.result /\ q.state \in {r.state, "running", "cancelling", "expired"},
         q.state = "succeeded" => r.state = "succeeded" /\ q.result = r.result,
         r.exec # 0 /\ r.bound => q.bound
  PROVE  Carried(r, q) /\ GoodResult(q)
<1>1. r.epoch <= r.epoch
  BY DEF JobRecord
<1> QED
  BY <1>1 DEF Carried, Goes, GoodResult

LEMMA NothingWritten ==
  ASSUME TypeOK, GoodResults, UNCHANGED rec
  PROVE  Kept
BY Carries, RecordFields DEF GoodResults, Kept

LEMMA KeptGoesOn ==
  ASSUME Kept
  PROVE  GoingOn /\ GoodResults'
BY DEF Kept, Carried, GoingOn, GoodResults

LEMMA OneWritten ==
  ASSUME TypeOK, GoodResults, NEW t \in Tasks, OthersKept(t),
         Carried(rec[t], rec'[t]), GoodResult(rec'[t])
  PROVE  Kept
BY Carries, RecordFields DEF GoodResults, Kept, OthersKept

LEMMA Committed ==
  ASSUME TypeOK, NEW t \in Tasks, NEW q, Commit(t, q)
  PROVE  rec'[t] = q /\ OthersKept(t)
BY DEF Commit, OthersKept, TypeOK

LEMMA CarriedCommit ==
  ASSUME TypeOK, GoodResults, NEW t \in Tasks,
         \/ NoCommit
         \/ \E q : Commit(t, q) /\ Carried(rec[t], q) /\ GoodResult(q)
  PROVE  Kept
<1>1. CASE NoCommit
  BY <1>1, NothingWritten DEF NoCommit
<1>2. CASE \E q : Commit(t, q) /\ Carried(rec[t], q) /\ GoodResult(q)
  BY <1>2, Committed, OneWritten
<1> QED
  BY <1>1, <1>2

\* The fields of the records that operations write.
LEMMA StoppingParts ==
  ASSUME NEW r \in JobRecord, NEW o
  PROVE  LET q == Stopping(r, o) IN
         /\ q.state = "cancelling" /\ q.exec = r.exec /\ q.epoch = r.epoch
         /\ q.result = r.result /\ q.owned = r.owned /\ q.bound = r.bound /\ q.stop = TRUE
BY DEF Stopping, JobRecord

\* A job without process comes to rest or is removed.
LEMMA RestingCarries ==
  ASSUME NEW r \in JobRecord, GoodRecord(r), GoodResult(r),
         r.state \notin ProcessOwningStates, NEW s, NEW res, NEW f,
         s \notin {"leased", "succeeded", "absent", "deleted"},
         res = 0 \/ (res = r.result /\ s = "expired")
  PROVE  Carried(r, Released(r, s, res, f)) /\ GoodResult(Released(r, s, res, f))
<1> DEFINE q == Released(r, s, res, f)
<1>1. /\ q.state = s /\ q.exec = 0 /\ q.epoch = r.epoch /\ q.result = res
      /\ q.owned = r.owned
  BY DEF Released, Detached, JobRecord
<1>2. r.exec = 0
  BY DEF GoodRecord
<1> HIDE DEF q
<1>3. Carried(r, q) /\ GoodResult(q)
  BY <1>1, <1>2, Carries
<1> QED
  BY <1>3 DEF q

\* A job with a process is being stopped.
LEMMA StoppingCarries ==
  ASSUME NEW r \in JobRecord, GoodResult(r), NEW o
  PROVE  Carried(r, Stopping(r, o)) /\ GoodResult(Stopping(r, o))
<1> DEFINE q == Stopping(r, o)
<1>1. /\ q.state = "cancelling" /\ q.exec = r.exec /\ q.epoch = r.epoch
      /\ q.result = r.result /\ q.owned = r.owned /\ q.bound = r.bound
  BY StoppingParts
<1> HIDE DEF q
<1>2. Carried(r, q) /\ GoodResult(q)
  BY <1>1, Carries
<1> QED
  BY <1>2 DEF q

-----------------------------------------------------------------------------
(* Operations that touch neither attempts nor the stage of a child *)

SameStages ==
  /\ UNCHANGED <<att, watch, slots>>
  /\ \A t \in Tasks, e \in Epochs : child'[t][e].st = child[t][e].st

LEMMA AskedStages ==
  ASSUME TypeOK, NEW t \in Tasks, NEW r \in JobRecord, RequestTermination(t, r)
  PROVE  \A x \in Tasks, f \in Epochs : child'[x][f].st = child[x][f].st
<1>1. r.exec # 0 => r.exec \in Epochs
  BY CoreAssumption DEF JobRecord, Epochs, CoreAssumption
<1>2. CASE child' = child
  BY <1>2
<1>3. CASE r.exec # 0 /\ child' = AskChild(t, r.exec)
  <2>1. [child[t][r.exec] EXCEPT !.stop = TRUE].st = child[t][r.exec].st
    BY <1>1, <1>3, Cells DEF Child
  <2>2. \A x \in Tasks, f \in Epochs :
          child'[x][f] = IF x = t /\ f = r.exec
                         THEN [child[t][r.exec] EXCEPT !.stop = TRUE] ELSE child[x][f]
    BY <1>1, <1>3 DEF AskChild, PutAt, TypeOK
  <2> QED
    BY <2>1, <2>2
<1> QED
  BY <1>2, <1>3 DEF RequestTermination, Asked

LEMMA CreateKeeps ==
  ASSUME TypeOK, RecordInv, GoodResults, NEW t \in Tasks, NEW q \in Requests, Create(t, q)
  PROVE  Kept /\ SameStages
<1> DEFINE r == [NoRecord EXCEPT !.state = "queued", !.deadline = q.deadline, !.ttl = q.ttl]
<1>1. /\ r.state = "queued" /\ r.exec = 0 /\ r.epoch = 0 /\ r.result = 0 /\ r.owned = {}
  BY DEF NoRecord
<1>2. rec[t].state = "absent" /\ rec[t].exec = 0 /\ rec[t].epoch = 0 /\ rec[t].owned = {}
  BY RecordFields DEF Create, RecordInv, GoodRecord, GoodResults, GoodResult, ProcessOwningStates
<1>3. Commit(t, r) /\ UNCHANGED <<att, watch, slots, child>>
  BY DEF Create
<1> HIDE DEF r
<1>4. Carried(rec[t], r) /\ GoodResult(r)
  BY <1>1, <1>2 DEF Carried, Goes, GoodResult
<1> QED
  BY <1>3, <1>4, CarriedCommit DEF SameStages

LEMMA ClaimKeeps ==
  ASSUME TypeOK, RecordInv, GoodResults, NEW t \in Tasks, NEW d \in LeaseDurations, Claim(t, d)
  PROVE  Kept /\ SameStages
<1> DEFINE r == rec[t]
           q == [r EXCEPT !.state = "leased", !.epoch = @ + 1, !.lease = LeaseExpiry(r, now, d),
                          !.failure = FALSE, !.pending = "none"]
<1>1. r \in JobRecord /\ r.epoch \in Nat
  BY RecordFields DEF JobRecord
<1>2. r.state = "queued" /\ r.exec = 0 /\ r.result = 0
  BY DEF Claim, RecordInv, GoodRecord, GoodResults, GoodResult, ProcessOwningStates
<1>3. /\ q.state = "leased" /\ q.exec = 0 /\ q.epoch = r.epoch + 1 /\ q.result = 0
      /\ q.owned = r.owned
  BY <1>1, <1>2 DEF JobRecord
<1>4. Commit(t, q) /\ UNCHANGED <<att, watch, slots, child>>
  BY DEF Claim
<1> HIDE DEF q
<1>5. Carried(r, q) /\ GoodResult(q)
  BY <1>1, <1>2, <1>3 DEF Carried, Goes, GoodResult
<1> QED
  BY <1>4, <1>5, CarriedCommit DEF SameStages

LEMMA CancelKeeps ==
  ASSUME TypeOK, RecordInv, GoodResults, NEW t \in Tasks, Cancel(t)
  PROVE  Kept /\ SameStages
<1> DEFINE r == rec[t]
<1>1. r \in JobRecord /\ GoodRecord(r) /\ GoodResult(r)
  BY RecordFields DEF RecordInv, GoodResults
<1>2. UNCHANGED <<att, watch, slots>>
  BY DEF Cancel
<1>3. CASE r.state \in {"queued", "leased"} /\ Commit(t, Released(r, "cancelled", 0, FALSE))
           /\ UNCHANGED child
  <2>1. r.state \notin ProcessOwningStates
    BY <1>3 DEF ProcessOwningStates
  <2> QED
    BY <1>1, <1>2, <1>3, <2>1, RestingCarries, CarriedCommit DEF SameStages
<1>4. CASE NoCommit /\ RequestTermination(t, r)
  BY <1>1, <1>2, <1>4, AskedStages, CarriedCommit DEF SameStages
<1>5. CASE Commit(t, Stopping(r, "cancelled")) /\ RequestTermination(t, Stopping(r, "cancelled"))
  <2>1. Stopping(r, "cancelled") \in JobRecord
    BY <1>1, StoppingType DEF PendingStopOutcomes
  <2> QED
    BY <1>1, <1>2, <1>5, <2>1, StoppingCarries, AskedStages, CarriedCommit DEF SameStages
<1> QED
  BY <1>3, <1>4, <1>5 DEF Cancel

LEMMA DeleteIdleKeeps ==
  ASSUME TypeOK, RecordInv, GoodResults, NEW t \in Tasks, DeleteIdle(t)
  PROVE  Kept /\ SameStages
<1> DEFINE r == rec[t]
           q == [Released(r, "deleting", 0, FALSE) EXCEPT !.deletion = TRUE]
<1>1. r \in JobRecord /\ GoodRecord(r) /\ GoodResult(r) /\ r.exec = 0
  BY RecordFields DEF RecordInv, GoodRecord, GoodResults, DeleteIdle
<1>2. Commit(t, q) /\ UNCHANGED <<att, watch, slots, child>>
  BY DEF DeleteIdle
<1>3. /\ q.state = "deleting" /\ q.exec = 0 /\ q.epoch = r.epoch /\ q.result = 0
      /\ q.owned = r.owned
  BY <1>1 DEF Released, Detached, JobRecord
<1> HIDE DEF q
<1>4. Carried(r, q) /\ GoodResult(q)
  BY <1>1, <1>3, Carries
<1> QED
  BY <1>2, <1>4, CarriedCommit DEF SameStages

LEMMA DeleteOwningKeeps ==
  ASSUME TypeOK, RecordInv, GoodResults, NEW t \in Tasks, DeleteOwning(t)
  PROVE  Kept /\ SameStages
<1> DEFINE r == rec[t]
           q == [Stopping(r, "deleted") EXCEPT !.deletion = TRUE]
<1>1. r \in JobRecord /\ GoodResult(r)
  BY RecordFields DEF GoodResults
<1>2. UNCHANGED <<att, watch, slots>>
      /\ \/ NoCommit /\ RequestTermination(t, r)
         \/ Commit(t, q) /\ RequestTermination(t, q)
  BY DEF DeleteOwning
<1>3. /\ q.state = "cancelling" /\ q.exec = r.exec /\ q.epoch = r.epoch
      /\ q.result = r.result /\ q.owned = r.owned /\ q.bound = r.bound
  BY <1>1 DEF Stopping, JobRecord
<1>4. q \in JobRecord
  <2>1. Stopping(r, "deleted") \in JobRecord
    BY <1>1, StoppingType DEF PendingStopOutcomes
  <2> QED
    BY <2>1 DEF JobRecord
<1> HIDE DEF q
<1>5. Carried(r, q) /\ GoodResult(q)
  BY <1>1, <1>3, Carries
<1> QED
  BY <1>1, <1>2, <1>4, <1>5, AskedStages, CarriedCommit DEF SameStages

LEMMA SweepKeeps ==
  ASSUME TypeOK, RecordInv, GoodResults, NEW t \in Tasks, Sweep(t)
  PROVE  Kept /\ SameStages
<1> DEFINE r == rec[t]
<1>1. r \in JobRecord /\ GoodRecord(r) /\ GoodResult(r) /\ now \in Nat
  BY RecordFields DEF RecordInv, GoodResults
<1>2. UNCHANGED <<att, watch, slots>>
  BY DEF Sweep, SweepCancelling, SweepOwning, SweepIdle
<1>3. CASE SweepCancelling(t)
  <2>1. PICK o : \/ NoCommit /\ RequestTermination(t, r)
                 \/ Commit(t, [r EXCEPT !.pending = o]) /\ UNCHANGED child
    BY <1>3 DEF SweepCancelling
  <2> DEFINE q == [r EXCEPT !.pending = o]
  <2>2. /\ q.state = r.state /\ q.exec = r.exec /\ q.epoch = r.epoch
        /\ q.result = r.result /\ q.owned = r.owned /\ q.bound = r.bound
    BY <1>1 DEF JobRecord
  <2> HIDE DEF q
  <2>3. Carried(r, q) /\ GoodResult(q)
    BY <1>1, <2>2, Carries
  <2> QED
    BY <1>1, <1>2, <2>1, <2>3, AskedStages, CarriedCommit DEF SameStages, q
<1>4. CASE SweepOwning(t)
  <2> DEFINE q == Stopping(r, TemporalOutcome(r, now))
  <2>1. Commit(t, q) /\ RequestTermination(t, q)
    BY <1>4 DEF SweepOwning
  <2>2. q \in JobRecord
    BY <1>1, TemporalOutcomeType, StoppingType
  <2>3. Carried(r, q) /\ GoodResult(q)
    BY <1>1, StoppingCarries
  <2> QED
    BY <1>2, <2>1, <2>2, <2>3, AskedStages, CarriedCommit DEF SameStages
<1>5. CASE SweepIdle(t)
  <2>1. UNCHANGED child /\ {"queued", "leased"} \cap ProcessOwningStates = {}
    BY <1>5 DEF SweepIdle, ProcessOwningStates
  <2>2. CASE r.state \notin ProcessOwningStates \cup {"expired"}
             /\ Commit(t, Released(r, "expired", r.result, FALSE))
    BY <1>1, <1>2, <2>1, <2>2, RestingCarries, CarriedCommit DEF SameStages
  <2>3. CASE r.state \in {"queued", "leased"} /\ Commit(t, Released(r, "timed_out", 0, FALSE))
    BY <1>1, <1>2, <2>1, <2>3, RestingCarries, CarriedCommit DEF SameStages
  <2>4. CASE r.state = "leased" /\ Commit(t, [r EXCEPT !.state = "queued", !.lease = 0])
    <3> DEFINE q == [r EXCEPT !.state = "queued", !.lease = 0]
    <3>1. /\ q.state = "queued" /\ q.exec = r.exec /\ q.epoch = r.epoch
          /\ q.result = r.result /\ q.owned = r.owned /\ q.bound = r.bound
      BY <1>1 DEF JobRecord
    <3>2. Commit(t, q)
      BY <2>4
    <3> HIDE DEF q
    <3>3. r.result = 0
      BY <1>1, <2>4 DEF GoodResult
    <3>4. Carried(r, q) /\ GoodResult(q)
      BY <1>1, <3>1, <3>3, Carries
    <3> QED
      BY <1>2, <2>1, <3>2, <3>4, CarriedCommit DEF SameStages
  <2> QED
    BY <1>5, <2>2, <2>3, <2>4 DEF SweepIdle
<1> QED
  BY <1>3, <1>4, <1>5 DEF Sweep

LEMMA CompleteDeletionKeeps ==
  ASSUME TypeOK, ProcessInv, RecordInv, GoodResults, NEW t \in Tasks, CompleteDeletion(t)
  PROVE  /\ GoingOn /\ GoodResults' /\ SameStages
         /\ Kept \/ /\ OthersKept(t) /\ rec'[t].state = "deleted" /\ rec'[t].result = 0
                    /\ objects \cap ({t} \X rec[t].owned) = {}
<1> DEFINE r == rec[t]
           q == Released(r, "deleted", 0, FALSE)
<1>1. r \in JobRecord /\ GoodRecord(r) /\ GoodResult(r) /\ r.exec = 0
  BY RecordFields DEF RecordInv, GoodRecord, GoodResults, CompleteDeletion, ProcessInv,
     VerifyingIsDeleting, ProcessOwningStates
<1>2. UNCHANGED <<att, watch, slots, child>>
  BY DEF CompleteDeletion
<1>3. CASE NoCommit
  BY <1>2, <1>3, NothingWritten, KeptGoesOn DEF NoCommit, SameStages
<1>4. CASE Commit(t, q) /\ objects \cap ({t} \X r.owned) = {}
  <2>1. /\ q.state = "deleted" /\ q.exec = 0 /\ q.epoch = r.epoch /\ q.result = 0
        /\ q.owned = r.owned
    BY <1>1 DEF Released, Detached, JobRecord
  <2> HIDE DEF q
  <2>2. Goes(r, q) /\ GoodResult(q)
    <3>1. r.epoch <= r.epoch
      BY <1>1 DEF JobRecord
    <3> QED
      BY <1>1, <2>1, <3>1 DEF Goes, GoodResult
  <2>3. rec'[t] = q /\ OthersKept(t)
    BY <1>4, Committed
  <2>4. \A x \in Tasks : x # t => Goes(rec[x], rec'[x]) /\ GoodResult(rec'[x])
    BY <2>3, Carries, RecordFields DEF OthersKept, GoodResults, Carried
  <2>5. GoingOn /\ GoodResults'
    BY <2>2, <2>3, <2>4 DEF GoingOn, GoodResults
  <2> QED
    BY <1>2, <1>4, <2>1, <2>3, <2>5 DEF SameStages
<1> QED
  BY <1>3, <1>4 DEF CompleteDeletion

\* A heartbeat moves the lease only.
LEMMA HeartbeatKeeps ==
  ASSUME TypeOK, GoodResults, NEW t \in Tasks, NEW p \in Calls, HeartbeatCommit(t, p)
  PROVE  Kept /\ SameStages
<1> DEFINE r == rec[t]
           q == [r EXCEPT !.lease = calls[t][p].until]
<1>1. r \in JobRecord /\ GoodResult(r)
  BY RecordFields DEF GoodResults
<1>2. /\ q.state = r.state /\ q.exec = r.exec /\ q.epoch = r.epoch
      /\ q.result = r.result /\ q.owned = r.owned /\ q.bound = r.bound
  BY <1>1 DEF JobRecord
<1>3. rec' = [rec EXCEPT ![t] = q] /\ UNCHANGED <<att, watch, slots, child>>
  BY DEF HeartbeatCommit
<1> HIDE DEF q
<1>4. Carried(r, q) /\ GoodResult(q)
  BY <1>1, <1>2, Carries
<1>5. rec'[t] = q /\ OthersKept(t)
  BY <1>3 DEF TypeOK, OthersKept
<1> QED
  BY <1>3, <1>4, <1>5, OneWritten DEF SameStages

\* The other operations and steps that write no record and move no attempt.
Untouched(t, e) ==
  \/ Tick \/ DeleteAgain(t) \/ EraseRejected(t) \/ EraseObjects(t) \/ PutResult(t, e)
  \/ \E p \in Calls : \/ CallOvertaken(t, p)
                      \/ \E d \in LeaseDurations : HeartbeatRead(t, p, e, d)
                      \/ \E k \in Epochs : PublishRead(t, p, e, k)
  \/ UNCHANGED vars

LEMMA UntouchedKeeps ==
  ASSUME TypeOK, GoodResults, NEW t \in Tasks, NEW e, Untouched(t, e)
  PROVE  Kept /\ SameStages
<1>1. UNCHANGED <<rec, att, watch, slots, child>>
  BY DEF Untouched, Tick, DeleteAgain, EraseRejected, EraseObjects, PutResult, CallOvertaken,
     HeartbeatRead, PublishRead, vars
<1> QED
  BY <1>1, NothingWritten DEF SameStages

-----------------------------------------------------------------------------
(* Attempts and the records they belong to *)

\* A child exists only for leases that have been executed; the record stays with
\* an attempt until its launch is settled and, when it has a child, until the
\* termination of that child is observed.
Stage(t, e) ==
  /\ child[t][e].st # "none" =>
       /\ e <= rec[t].epoch /\ e \in rec[t].owned
       /\ rec[t].state = "leased" => e < rec[t].epoch
       /\ att[t][e].pc \notin {"none", "reserved"}
  /\ att[t][e].pc \in {"racing", "deadline", "late", "startFailed"} =>
       child[t][e].st # "none" /\ watch[t][e].pc = "none" /\ rec[t].exec = e
  /\ att[t][e].pc = "binding" => child[t][e].st \in {"alive", "exited"}
  /\ watch[t][e].pc # "none" => child[t][e].st \in {"alive", "exited"}
  /\ watch[t][e].pc = "tracked" => rec[t].exec = e
  /\ att[t][e].pc = "reserved" => rec[t].exec = 0

StageInv == \A t \in Tasks, e \in Epochs : Stage(t, e)

LEMMA KeptStages ==
  ASSUME TypeOK, TypeOK', StageInv, GoingOn, SameStages
  PROVE  StageInv'
<1> SUFFICES ASSUME NEW t \in Tasks, NEW e \in Epochs PROVE Stage(t, e)'
  BY DEF StageInv
<1>1. Stage(t, e) /\ Goes(rec[t], rec'[t])
  BY DEF StageInv, GoingOn
<1>2. /\ rec[t].epoch \in Nat /\ rec'[t].epoch \in Nat /\ e \in Nat
  BY DEF TypeOK, JobRecord, Epochs
<1>3. /\ att'[t][e] = att[t][e] /\ watch'[t][e] = watch[t][e]
      /\ child'[t][e].st = child[t][e].st
  BY DEF SameStages
<1> QED
  BY <1>1, <1>2, <1>3 DEF Stage, Goes

\* Steps of one attempt: what it does to the other ones.
OnlyAttempt(t, e) ==
  \A x \in Tasks, f \in Epochs :
    x # t \/ f # e => /\ att'[x][f] = att[x][f] /\ watch'[x][f] = watch[x][f]
                      /\ child'[x][f] = child[x][f]

\* It keeps the others' stages when the record is kept, or when its own attempt
\* is the one that begins or ends.
LEMMA StageStep ==
  ASSUME TypeOK, TypeOK', StageInv, NEW t \in Tasks, NEW e \in Epochs, OnlyAttempt(t, e),
         \/ GoingOn
         \/ OthersKept(t) /\ (Begun(rec[t], rec'[t], e) \/ Ended(rec[t], rec'[t], e)),
         Stage(t, e)',
         Begun(rec[t], rec'[t], e) =>
           \A f \in Epochs : f # e => att[t][f].pc # "reserved"
  PROVE  StageInv'
<1> SUFFICES ASSUME NEW x \in Tasks, NEW f \in Epochs, x # t \/ f # e PROVE Stage(x, f)'
  BY DEF StageInv
<1>1. Stage(x, f)
  BY DEF StageInv
<1>2. rec[x].epoch \in Nat /\ rec'[x].epoch \in Nat
  BY DEF TypeOK, JobRecord
<1>a. e \in Nat \ {0} /\ f \in Nat \ {0}
  BY DEF Epochs
<1>3. /\ att'[x][f] = att[x][f] /\ watch'[x][f] = watch[x][f]
      /\ child'[x][f] = child[x][f]
  BY DEF OnlyAttempt
<1>4. CASE GoingOn
  BY <1>1, <1>2, <1>a, <1>3, <1>4 DEF Stage, GoingOn, Goes
<1>5. CASE OthersKept(t) /\ x # t
  <2>1. rec'[x] = rec[x]
    BY <1>5 DEF OthersKept
  <2> QED
    BY <1>1, <1>3, <2>1 DEF Stage
<1>6. CASE x = t /\ Begun(rec[t], rec'[t], e)
  BY <1>1, <1>2, <1>a, <1>3, <1>6 DEF Stage, Begun
<1>7. CASE x = t /\ Ended(rec[t], rec'[t], e)
  BY <1>1, <1>2, <1>a, <1>3, <1>7 DEF Stage, Ended
<1> QED
  BY <1>4, <1>5, <1>6, <1>7

-----------------------------------------------------------------------------
(* The steps of one attempt, of its child and of its watch *)

LEMMA AttemptPut ==
  ASSUME TypeOK, NEW t \in Tasks, NEW e \in Epochs, NEW a, att' = PutAt(att, t, e, a)
  PROVE  /\ att'[t][e] = a
         /\ \A x \in Tasks, y \in Epochs : x # t \/ y # e => att'[x][y] = att[x][y]
BY DEF PutAt, TypeOK

LEMMA WatchPut ==
  ASSUME TypeOK, NEW t \in Tasks, NEW e \in Epochs, NEW w, watch' = PutAt(watch, t, e, w)
  PROVE  /\ watch'[t][e] = w
         /\ \A x \in Tasks, y \in Epochs : x # t \/ y # e => watch'[x][y] = watch[x][y]
BY DEF PutAt, TypeOK

LEMMA ChildPut ==
  ASSUME TypeOK, NEW t \in Tasks, NEW e \in Epochs, NEW c, child' = PutAt(child, t, e, c)
  PROVE  /\ child'[t][e] = c
         /\ \A x \in Tasks, y \in Epochs : x # t \/ y # e => child'[x][y] = child[x][y]
BY DEF PutAt, TypeOK

LEMMA AttemptSet ==
  ASSUME TypeOK, NEW t \in Tasks, NEW e \in Epochs, NEW pc, SetAttempt(t, e, pc)
  PROVE  /\ att'[t][e].pc = pc /\ att'[t][e].slot = att[t][e].slot
         /\ \A x \in Tasks, y \in Epochs : x # t \/ y # e => att'[x][y] = att[x][y]
<1> DEFINE a == [att[t][e] EXCEPT !.pc = pc]
<1>1. att' = PutAt(att, t, e, a)
  BY DEF SetAttempt
<1>2. a.pc = pc /\ a.slot = att[t][e].slot
  BY Cells DEF Attempt
<1> HIDE DEF a
<1> QED
  BY <1>1, <1>2, AttemptPut

LEMMA WatchSet ==
  ASSUME TypeOK, NEW t \in Tasks, NEW e \in Epochs, NEW pc, SetWatch(t, e, pc)
  PROVE  /\ watch'[t][e].pc = pc /\ watch'[t][e].drop = watch[t][e].drop
         /\ watch'[t][e].deleting = watch[t][e].deleting
         /\ \A x \in Tasks, y \in Epochs : x # t \/ y # e => watch'[x][y] = watch[x][y]
<1> DEFINE w == [watch[t][e] EXCEPT !.pc = pc]
<1>1. watch' = PutAt(watch, t, e, w)
  BY DEF SetWatch
<1>2. w.pc = pc /\ w.drop = watch[t][e].drop /\ w.deleting = watch[t][e].deleting
  BY Cells DEF Watch
<1> HIDE DEF w
<1> QED
  BY <1>1, <1>2, WatchPut

LEMMA WatchEnded ==
  ASSUME TypeOK, NEW t \in Tasks, NEW e \in Epochs, watch' = PutAt(watch, t, e, WatchDone)
  PROVE  /\ watch'[t][e].pc = "done" /\ watch'[t][e].drop = FALSE
         /\ watch'[t][e].deleting = FALSE
         /\ \A x \in Tasks, y \in Epochs : x # t \/ y # e => watch'[x][y] = watch[x][y]
<1>1. WatchDone.pc = "done" /\ WatchDone.drop = FALSE /\ WatchDone.deleting = FALSE
  BY DEF WatchDone
<1> QED
  BY <1>1, WatchPut

SetChild(t, e, st) == child' = PutAt(child, t, e, [child[t][e] EXCEPT !.st = st])

LEMMA ChildSet ==
  ASSUME TypeOK, NEW t \in Tasks, NEW e \in Epochs, NEW st, SetChild(t, e, st)
  PROVE  /\ child'[t][e].st = st /\ child'[t][e].stop = child[t][e].stop
         /\ \A x \in Tasks, y \in Epochs : x # t \/ y # e => child'[x][y] = child[x][y]
<1> DEFINE c == [child[t][e] EXCEPT !.st = st]
<1>1. child' = PutAt(child, t, e, c)
  BY DEF SetChild
<1>2. c.st = st /\ c.stop = child[t][e].stop
  BY Cells DEF Child
<1> HIDE DEF c
<1> QED
  BY <1>1, <1>2, ChildPut

LEMMA ChildExited ==
  ASSUME TypeOK, NEW t \in Tasks, NEW e \in Epochs, ChildExits(t, e)
  PROVE  /\ child'[t][e].st = "exited"
         /\ \A x \in Tasks, y \in Epochs : x # t \/ y # e => child'[x][y] = child[x][y]
<1>1. PICK ok \in BOOLEAN :
        child' = PutAt(child, t, e, [child[t][e] EXCEPT !.st = "exited", !.ok = ok, !.at = now])
  BY DEF ChildExits
<1> DEFINE c == [child[t][e] EXCEPT !.st = "exited", !.ok = ok, !.at = now]
<1>2. c.st = "exited"
  BY Cells DEF Child
<1> HIDE DEF c
<1>3. child' = PutAt(child, t, e, c)
  BY <1>1 DEF c
<1> QED
  BY <1>2, <1>3, ChildPut

LEMMA ChildAskedStage ==
  ASSUME TypeOK, NEW t \in Tasks, NEW e \in Epochs, child' = AskChild(t, e)
  PROVE  /\ child'[t][e].st = child[t][e].st /\ child'[t][e].stop = TRUE
         /\ \A x \in Tasks, y \in Epochs : x # t \/ y # e => child'[x][y] = child[x][y]
<1> DEFINE c == [child[t][e] EXCEPT !.stop = TRUE]
<1>1. c.st = child[t][e].st /\ c.stop = TRUE
  BY Cells DEF Child
<1>2. child' = PutAt(child, t, e, c)
  BY DEF AskChild
<1> HIDE DEF c
<1> QED
  BY <1>1, <1>2, ChildPut

LEMMA ChildPutLate ==
  ASSUME TypeOK, NEW t \in Tasks, NEW e \in Epochs, LatePut(t, e)
  PROVE  /\ child'[t][e].st = child[t][e].st /\ child'[t][e].stop = child[t][e].stop
         /\ child[t][e].st = "exited" /\ child'[t][e].late
         /\ \A x \in Tasks, y \in Epochs : x # t \/ y # e => child'[x][y] = child[x][y]
<1> DEFINE c == [child[t][e] EXCEPT !.late = TRUE]
<1>1. c.st = child[t][e].st /\ c.stop = child[t][e].stop /\ c.late = TRUE
  BY Cells DEF Child
<1>2. child' = PutAt(child, t, e, c) /\ child[t][e].st = "exited"
  BY DEF LatePut
<1> HIDE DEF c
<1> QED
  BY <1>1, <1>2, ChildPut

LEMMA LatePutKeeps ==
  ASSUME TypeOK, GoodResults, NEW t \in Tasks, NEW e \in Epochs, LatePut(t, e)
  PROVE  Kept /\ SameStages
<1>1. UNCHANGED <<rec, att, watch, slots>>
  BY DEF LatePut
<1>2. \A x \in Tasks, y \in Epochs : child'[x][y].st = child[x][y].st
  BY ChildPutLate
<1> QED
  BY <1>1, <1>2, NothingWritten DEF SameStages

\* That a put came late is remembered.
LateStays == \A x \in Tasks, y \in Epochs : child[x][y].late => child'[x][y].late

LEMMA ChildrenStayLate ==
  ASSUME TypeOK, NEW t \in Tasks, NEW e \in Epochs,
         \/ UNCHANGED child
         \/ child' = AskChild(t, e)
         \/ \E st : SetChild(t, e, st)
         \/ ChildExits(t, e)
         \/ LatePut(t, e)
  PROVE  LateStays
<1>1. ASSUME NEW c, child' = PutAt(child, t, e, c), child[t][e].late => c.late
      PROVE  LateStays
  BY <1>1, ChildPut DEF LateStays
<1>2. CASE UNCHANGED child
  BY <1>2 DEF LateStays
<1>3. CASE child' = AskChild(t, e)
  <2>1. [child[t][e] EXCEPT !.stop = TRUE].late = child[t][e].late
    BY Cells DEF Child
  <2> QED
    BY <1>1, <1>3, <2>1 DEF AskChild
<1>4. ASSUME NEW st, SetChild(t, e, st) PROVE LateStays
  <2>1. [child[t][e] EXCEPT !.st = st].late = child[t][e].late
    BY Cells DEF Child
  <2> QED
    BY <1>1, <1>4, <2>1 DEF SetChild
<1>5. CASE ChildExits(t, e)
  <2>1. PICK ok \in BOOLEAN :
          child' = PutAt(child, t, e, [child[t][e] EXCEPT !.st = "exited", !.ok = ok, !.at = now])
    BY <1>5 DEF ChildExits
  <2>2. [child[t][e] EXCEPT !.st = "exited", !.ok = ok, !.at = now].late = child[t][e].late
    BY Cells DEF Child
  <2> QED
    BY <1>1, <2>1, <2>2
<1>6. CASE LatePut(t, e)
  BY <1>6, ChildPutLate DEF LateStays
<1> QED
  BY <1>2, <1>3, <1>4, <1>5, <1>6

LEMMA TerminationAsks ==
  ASSUME TypeOK, NEW t \in Tasks, Cancel(t) \/ DeleteOwning(t) \/ Sweep(t)
  PROVE  UNCHANGED child \/ \E r \in JobRecord : RequestTermination(t, r)
<1>1. rec[t] \in JobRecord /\ now \in Nat
  BY RecordFields
<1>2. \A o \in PendingStopOutcomes : Stopping(rec[t], o) \in JobRecord
  BY <1>1, StoppingType
<1>3. CASE Cancel(t)
  <2>1. Stopping(rec[t], "cancelled") \in JobRecord
    BY <1>2 DEF PendingStopOutcomes
  <2> QED
    BY <1>1, <1>3, <2>1 DEF Cancel
<1>4. CASE DeleteOwning(t)
  <2> DEFINE q == [Stopping(rec[t], "deleted") EXCEPT !.deletion = TRUE]
  <2>1. Stopping(rec[t], "deleted") \in JobRecord
    BY <1>2 DEF PendingStopOutcomes
  <2>2. q \in JobRecord
    BY <2>1 DEF JobRecord
  <2>3. RequestTermination(t, rec[t]) \/ RequestTermination(t, q)
    BY <1>4 DEF DeleteOwning
  <2> HIDE DEF q
  <2> QED
    BY <1>1, <2>2, <2>3
<1>5. CASE SweepCancelling(t)
  BY <1>1, <1>5 DEF SweepCancelling
<1>6. CASE SweepOwning(t)
  <2>1. TemporalOutcome(rec[t], now) \in PendingStopOutcomes
    BY <1>1, TemporalOutcomeType
  <2>2. Stopping(rec[t], TemporalOutcome(rec[t], now)) \in JobRecord
    BY <1>2, <2>1
  <2> QED
    BY <1>6, <2>2 DEF SweepOwning
<1>7. CASE SweepIdle(t)
  BY <1>7 DEF SweepIdle
<1> QED
  BY <1>3, <1>4, <1>5, <1>6, <1>7 DEF Sweep

LEMMA BindAsks ==
  ASSUME TypeOK, NEW t \in Tasks, NEW e \in Epochs, BindStarted(t, e)
  PROVE  \E r \in JobRecord : RequestTermination(t, r)
<1> DEFINE s == IF rec[t].state = "starting" THEN "running" ELSE rec[t].state
           b == [rec[t] EXCEPT !.bound = TRUE, !.state = s]
           q == [rec[t] EXCEPT !.exec = e, !.bound = TRUE, !.stop = TRUE]
<1>1. rec[t] \in JobRecord /\ e \in 0..MaxEpoch
  BY RecordFields, CoreAssumption DEF CoreAssumption, Epochs
<1>2. s \in States \cup {"absent"}
  BY <1>1 DEF JobRecord, States
<1>3. b \in JobRecord
  <2> HIDE DEF s
  <2> QED
    BY <1>1, <1>2 DEF JobRecord
<1>4. q \in JobRecord
  BY <1>1 DEF JobRecord
<1>5. RequestTermination(t, b) \/ RequestTermination(t, q)
  BY DEF BindStarted
<1> HIDE DEF b, q
<1> QED
  BY <1>3, <1>4, <1>5

LEMMA NextStayLate ==
  ASSUME TypeOK, [Next]_vars
  PROVE  LateStays
<1>1. ASSUME UNCHANGED child PROVE LateStays
  BY <1>1 DEF LateStays
<1>2. ASSUME NEW t \in Tasks, NEW r \in JobRecord, RequestTermination(t, r) PROVE LateStays
  <2>1. r.exec # 0 => r.exec \in Epochs
    BY CoreAssumption DEF JobRecord, Epochs, CoreAssumption
  <2> QED
    BY <1>1, <1>2, <2>1, ChildrenStayLate DEF RequestTermination, Asked
<1>3. ASSUME NEW t \in Tasks, Requested(t) \/ Continuation(t) \/ Sweep(t) \/ EraseRejected(t)
      PROVE  LateStays
  <2>1. CASE Cancel(t) \/ DeleteOwning(t) \/ Sweep(t)
    BY <1>1, <1>2, <2>1, TerminationAsks
  <2>2. CASE UNCHANGED child
    BY <1>1, <2>2
  <2> QED
    BY <1>3, <2>1, <2>2 DEF Requested, Create, Claim, DeleteIdle, DeleteAgain, HeartbeatRead,
       PublishRead, Continuation, EraseObjects, CompleteDeletion, HeartbeatCommit, PublishCommit,
       CallOvertaken, EraseRejected
<1>4. ASSUME NEW t \in Tasks, NEW e \in Epochs, Execution(t, e) PROVE LateStays
  <2>1. CASE ExecuteCommit(t, e)
    BY <2>1, ChildrenStayLate DEF ExecuteCommit, SetChild
  <2>2. CASE BindStarted(t, e)
    BY <1>1, <1>2, <2>2, BindAsks
  <2> QED
    BY <1>1, <1>4, <2>1, <2>2 DEF Execution, ExecuteReserve, ExecuteOvertaken, LaunchDeadline,
       MarkLaunchTimedOut, Launched, LateLaunched, LaunchRejected, StartFailed, Finalize, Cleanup
<1>5. ASSUME NEW t \in Tasks, NEW e \in Epochs, Supervisor(t, e) PROVE LateStays
  BY <1>1, <1>5, ChildrenStayLate
     DEF Supervisor, SpawnResolves, SpawnRejects, PutResult, SetChild
<1>6. ASSUME NEW t \in Tasks, NEW e \in Epochs,
             Rejection(t, e) \/ FinalizeReply(t, e) \/ WatchRejected(t, e)
      PROVE  LateStays
  BY <1>1, <1>6, ChildrenStayLate
     DEF Rejection, AttemptRejected, StartReplyLost, FinalizeReply, WatchRejected
<1>7. CASE Tick \/ UNCHANGED vars
  BY <1>1, <1>7 DEF Tick, vars
<1> QED
  BY <1>3, <1>4, <1>5, <1>6, <1>7 DEF Next, Step

-----------------------------------------------------------------------------
(* Every step keeps attempts and records together. *)

LEMMA SupervisorStages ==
  ASSUME TypeOK, TypeOK', StageInv, GoodResults, NEW t \in Tasks, NEW e \in Epochs,
         SpawnResolves(t, e) \/ SpawnRejects(t, e) \/ ChildExits(t, e)
  PROVE  Kept /\ StageInv'
<1>1. UNCHANGED <<rec, att, watch>> /\ Kept
  BY NothingWritten DEF SpawnResolves, SpawnRejects, ChildExits
<1>2. Stage(t, e) /\ child[t][e].st \in {"spawning", "alive"}
  BY DEF StageInv, SpawnResolves, SpawnRejects, ChildExits
<1>3. CASE SpawnResolves(t, e)
  <2>0. SetChild(t, e, "alive")
    BY <1>3 DEF SpawnResolves, SetChild
  <2>1. child'[t][e].st = "alive" /\ OnlyAttempt(t, e)
    BY <1>1, <2>0, ChildSet DEF OnlyAttempt
  <2>2. Stage(t, e)'
    BY <1>1, <1>2, <2>1 DEF Stage
  <2> QED
    BY <1>1, <2>1, <2>2, KeptGoesOn, StageStep DEF Begun
<1>4. CASE SpawnRejects(t, e)
  <2>0. SetChild(t, e, "rejected") /\ child[t][e].st = "spawning"
    BY <1>4 DEF SpawnRejects, SetChild
  <2>1. child'[t][e].st = "rejected" /\ OnlyAttempt(t, e) /\ child[t][e].st = "spawning"
    BY <1>1, <2>0, ChildSet DEF OnlyAttempt
  <2>2. Stage(t, e)'
    BY <1>1, <1>2, <2>1 DEF Stage
  <2> QED
    BY <1>1, <2>1, <2>2, KeptGoesOn, StageStep DEF Begun
<1>5. CASE ChildExits(t, e)
  <2>1. child'[t][e].st = "exited" /\ OnlyAttempt(t, e)
    BY <1>1, <1>5, ChildExited DEF OnlyAttempt
  <2>2. Stage(t, e)'
    BY <1>1, <1>2, <2>1 DEF Stage
  <2> QED
    BY <1>1, <2>1, <2>2, KeptGoesOn, StageStep DEF Begun
<1> QED
  BY <1>2, <1>3, <1>4, <1>5 DEF SpawnResolves, SpawnRejects, ChildExits

\* The launch moves on without a write.
LEMMA LaunchStages ==
  ASSUME TypeOK, TypeOK', StageInv, GoodResults, NEW t \in Tasks, NEW e \in Epochs,
         LaunchDeadline(t, e) \/ Launched(t, e) \/ LateLaunched(t, e) \/ LaunchRejected(t, e)
  PROVE  Kept /\ StageInv'
<1>1. UNCHANGED <<rec, child>> /\ Kept
  BY NothingWritten DEF LaunchDeadline, Launched, LateLaunched, LaunchRejected
<1>2. Stage(t, e) /\ ~Begun(rec[t], rec'[t], e)
  BY <1>1 DEF StageInv, Begun
<1>3. CASE LaunchDeadline(t, e)
  <2>1. att'[t][e].pc = "deadline" /\ OnlyAttempt(t, e) /\ watch' = watch /\ att[t][e].pc = "racing"
    BY <1>1, <1>3, AttemptSet DEF LaunchDeadline, OnlyAttempt
  <2>2. Stage(t, e)'
    BY <1>1, <1>2, <2>1 DEF Stage
  <2> QED
    BY <1>1, <1>2, <2>1, <2>2, KeptGoesOn, StageStep
<1>4. CASE Launched(t, e)
  <2>1. /\ att[t][e].pc = "racing" /\ child[t][e].st \in {"alive", "exited"}
        /\ \/ SetWatch(t, e, "tracked") /\ SetAttempt(t, e, "binding")
           \/ UNCHANGED watch /\ SetAttempt(t, e, "done")
    BY <1>4 DEF Launched
  <2>2. /\ OnlyAttempt(t, e)
        /\ \/ watch'[t][e].pc = "tracked" /\ att'[t][e].pc = "binding"
           \/ UNCHANGED watch /\ att'[t][e].pc = "done"
    BY <1>1, <2>1, AttemptSet, WatchSet DEF OnlyAttempt
  <2>3. Stage(t, e)'
    BY <1>1, <1>2, <2>1, <2>2 DEF Stage
  <2> QED
    BY <1>1, <1>2, <2>2, <2>3, KeptGoesOn, StageStep
<1>5. CASE LateLaunched(t, e)
  <2>1. /\ att[t][e].pc = "late" /\ child[t][e].st \in {"alive", "exited"}
        /\ SetWatch(t, e, "tracked")
        /\ SetAttempt(t, e, "binding") \/ SetAttempt(t, e, "done")
    BY <1>5 DEF LateLaunched
  <2>2. /\ OnlyAttempt(t, e) /\ watch'[t][e].pc = "tracked"
        /\ att'[t][e].pc \in {"binding", "done"}
    BY <1>1, <2>1, AttemptSet, WatchSet DEF OnlyAttempt
  <2>3. Stage(t, e)'
    BY <1>1, <1>2, <2>1, <2>2 DEF Stage
  <2> QED
    BY <1>1, <1>2, <2>2, <2>3, KeptGoesOn, StageStep
<1>6. CASE LaunchRejected(t, e)
  <2>1. /\ att[t][e].pc \in {"racing", "late"} /\ UNCHANGED watch
        /\ SetAttempt(t, e, "startFailed") \/ SetAttempt(t, e, "done")
    BY <1>6 DEF LaunchRejected
  <2>2. OnlyAttempt(t, e) /\ att'[t][e].pc \in {"startFailed", "done"}
    BY <1>1, <2>1, AttemptSet DEF OnlyAttempt
  <2>3. Stage(t, e)'
    BY <1>1, <1>2, <2>1, <2>2 DEF Stage
  <2> QED
    BY <1>1, <1>2, <2>2, <2>3, KeptGoesOn, StageStep
<1> QED
  BY <1>3, <1>4, <1>5, <1>6

\* The watch moves on; an attempt's continuation ends; a reservation is made
\* or given back.
LEMMA WatchStages ==
  ASSUME TypeOK, TypeOK', StageInv, GoodResults, NEW t \in Tasks, NEW e \in Epochs,
         FinalizeReply(t, e) \/ Cleanup(t, e) \/ WatchRejected(t, e)
  PROVE  Kept /\ StageInv'
<1>1. UNCHANGED <<rec, child, att>> /\ Kept
  BY NothingWritten DEF FinalizeReply, Cleanup, WatchRejected
<1>2. Stage(t, e) /\ ~Begun(rec[t], rec'[t], e) /\ watch[t][e].pc # "none"
  BY <1>1 DEF StageInv, Begun, FinalizeReply, Cleanup, WatchRejected
<1>3. \/ SetWatch(t, e, "done") \/ SetWatch(t, e, "cleanup")
      \/ watch' = PutAt(watch, t, e, WatchDone)
  BY DEF FinalizeReply, Cleanup, WatchRejected
<1>4. /\ watch'[t][e].pc \in {"done", "cleanup"}
      /\ \A x \in Tasks, y \in Epochs : x # t \/ y # e => watch'[x][y] = watch[x][y]
  <2>1. CASE SetWatch(t, e, "done")
    BY <2>1, WatchSet
  <2>2. CASE SetWatch(t, e, "cleanup")
    BY <2>2, WatchSet
  <2>3. CASE watch' = PutAt(watch, t, e, WatchDone)
    BY <2>3, WatchEnded
  <2> QED
    BY <1>3, <2>1, <2>2, <2>3
<1>6. OnlyAttempt(t, e)
  BY <1>1, <1>4 DEF OnlyAttempt
<1>5. Stage(t, e)'
  BY <1>1, <1>2, <1>4 DEF Stage
<1> QED
  BY <1>1, <1>2, <1>5, <1>6, KeptGoesOn, StageStep

LEMMA ReserveStages ==
  ASSUME TypeOK, TypeOK', RecordInv, StageInv, GoodResults, NEW t \in Tasks, NEW e \in Epochs,
         ExecuteReserve(t, e)
  PROVE  Kept /\ StageInv' /\ child[t][e].st = "none"
<1>1. UNCHANGED <<rec, child, watch>> /\ Kept
  BY NothingWritten DEF ExecuteReserve
<1>2. Stage(t, e) /\ ~Begun(rec[t], rec'[t], e) /\ rec[t].epoch = e /\ rec[t].state = "leased"
      /\ rec[t].exec = 0 /\ e \in Nat /\ e # 0
  BY <1>1 DEF StageInv, Begun, ExecuteReserve, LeaseActive, RecordInv, GoodRecord, Epochs,
     ProcessOwningStates
<1>3. child[t][e].st = "none"
  BY <1>2 DEF Stage
<1>4. PICK a : att' = PutAt(att, t, e, a) /\ a.pc = "reserved"
  BY DEF ExecuteReserve
<1>5. OnlyAttempt(t, e) /\ att'[t][e] = a
  BY <1>1, <1>4, AttemptPut DEF OnlyAttempt
<1>6. Stage(t, e)'
  BY <1>1, <1>2, <1>3, <1>4, <1>5 DEF Stage
<1> QED
  BY <1>1, <1>2, <1>3, <1>5, <1>6, KeptGoesOn, StageStep

LEMMA GiveUpStages ==
  ASSUME TypeOK, TypeOK', StageInv, GoodResults, NEW t \in Tasks, NEW e \in Epochs,
         ExecuteOvertaken(t, e) \/ AttemptRejected(t, e)
  PROVE  Kept /\ StageInv'
<1>1. UNCHANGED <<rec, watch>> /\ Kept
  BY NothingWritten DEF ExecuteOvertaken, AttemptRejected
<1>2. Stage(t, e) /\ ~Begun(rec[t], rec'[t], e)
  BY <1>1 DEF StageInv, Begun
<1>3. CASE ExecuteOvertaken(t, e)
  <2>1. att[t][e].pc = "reserved" /\ UNCHANGED child /\ att' = PutAt(att, t, e, NoAttempt)
    BY <1>3 DEF ExecuteOvertaken
  <2>2. OnlyAttempt(t, e) /\ att'[t][e].pc = "none"
    BY <1>1, <2>1, AttemptPut DEF OnlyAttempt, NoAttempt
  <2>3. Stage(t, e)'
    BY <1>1, <1>2, <2>1, <2>2 DEF Stage
  <2> QED
    BY <1>1, <1>2, <2>2, <2>3, KeptGoesOn, StageStep
<1>4. CASE AttemptRejected(t, e)
  <2>1. SetAttempt(t, e, "done") /\ (UNCHANGED child \/ child' = AskChild(t, e))
    BY <1>4 DEF AttemptRejected
  <2>a. /\ att'[t][e].pc = "done"
        /\ \A x \in Tasks, y \in Epochs : x # t \/ y # e => att'[x][y] = att[x][y]
    BY <2>1, AttemptSet
  <2>b. /\ child'[t][e].st = child[t][e].st
        /\ \A x \in Tasks, y \in Epochs : x # t \/ y # e => child'[x][y] = child[x][y]
    BY <2>1, ChildAskedStage
  <2>2. OnlyAttempt(t, e) /\ att'[t][e].pc = "done" /\ child'[t][e].st = child[t][e].st
    BY <1>1, <2>a, <2>b DEF OnlyAttempt
  <2>3. Stage(t, e)'
    BY <1>1, <1>2, <2>2 DEF Stage
  <2> QED
    BY <1>1, <1>2, <2>2, <2>3, KeptGoesOn, StageStep
<1> QED
  BY <1>3, <1>4

\* An attempt begins: its start is written.
LEMMA StartingBegins ==
  ASSUME NEW r \in JobRecord, NEW e \in Epochs, r.state = "leased", r.exec = 0, r.epoch = e
  PROVE  Begun(r, StartingRecord(r, e), e) /\ GoodResult(StartingRecord(r, e))
<1> DEFINE q == StartingRecord(r, e)
<1>1. /\ q.state = "starting" /\ q.exec = e /\ q.epoch = e /\ q.result = 0 /\ q.bound = FALSE
      /\ q.owned = r.owned \cup {e}
  BY DEF StartingRecord, StartingOwning, Released, Detached, JobRecord
<1> HIDE DEF q
<1>2. Begun(r, q, e) /\ GoodResult(q)
  BY <1>1 DEF Begun, GoodResult
<1> QED
  BY <1>2 DEF q

Starts(t, e) == ExecuteCommit(t, e) \/ StartReplyLost(t, e)

LEMMA StartBegins ==
  ASSUME TypeOK, ProcessInv, RecordInv, StageInv, GoodResults, NEW t \in Tasks,
         NEW e \in Epochs, Starts(t, e)
  PROVE  /\ Begun(rec[t], rec'[t], e) /\ OthersKept(t) /\ GoodResults'
         /\ UNCHANGED <<now, slots, watch, objects, erase, calls>>
         /\ OnlyAttempt(t, e)
         /\ att[t][e].pc = "reserved" /\ att'[t][e].pc \in {"racing", "done"}
         /\ att'[t][e].slot = att[t][e].slot
         /\ child[t][e].st = "none" /\ watch[t][e].pc = "none"
         /\ child'[t][e].st = "spawning" \/ (child'[t][e].st = "none" /\ att'[t][e].pc = "done")
         /\ child'[t][e].st = "spawning" => att'[t][e].pc = "racing"
         /\ ExecuteCommit(t, e) \/ failures' # 0
         /\ \A f \in Epochs : f # e => att[t][f].pc # "reserved"
<1> DEFINE q == StartingRecord(rec[t], e)
<1>1. /\ att[t][e].pc = "reserved" /\ <<t, "execute">> \notin stale
      /\ rec' = [rec EXCEPT ![t] = q] /\ UNCHANGED <<now, slots, watch, objects, erase, calls>>
  BY DEF Starts, ExecuteCommit, StartReplyLost
<1>2. rec[t] \in JobRecord /\ rec[t].state = "leased" /\ rec[t].epoch = e /\ rec[t].exec = 0
  BY <1>1, RecordFields DEF ProcessInv, ReservationIsCurrent, RecordInv, GoodRecord,
     ProcessOwningStates
<1>3. Begun(rec[t], q, e) /\ GoodResult(q)
  BY <1>2, StartingBegins
<1> HIDE DEF q
<1>4. rec'[t] = q /\ OthersKept(t)
  BY <1>1 DEF OthersKept, TypeOK
<1>5. GoodResults'
  BY <1>3, <1>4 DEF GoodResults, OthersKept
<1>6. child[t][e].st = "none" /\ watch[t][e].pc = "none"
  <2>1. e \in Nat
    BY DEF Epochs
  <2> QED
    BY <1>2, <2>1 DEF StageInv, Stage
<1>7. \A f \in Epochs : f # e => att[t][f].pc # "reserved"
  BY <1>1 DEF ProcessInv, OneReservation
<1>8. /\ OnlyAttempt(t, e) /\ att'[t][e].pc \in {"racing", "done"}
      /\ att'[t][e].slot = att[t][e].slot
      /\ child'[t][e].st = "spawning" \/ (child'[t][e].st = "none" /\ att'[t][e].pc = "done")
      /\ child'[t][e].st = "spawning" => att'[t][e].pc = "racing"
      /\ ExecuteCommit(t, e) \/ failures' # 0
  <2>1. CASE ExecuteCommit(t, e)
    <3>1. SetAttempt(t, e, "racing") /\ SetChild(t, e, "spawning")
      BY <2>1 DEF ExecuteCommit, SetChild
    <3>2. /\ att'[t][e].pc = "racing" /\ att'[t][e].slot = att[t][e].slot
          /\ \A x \in Tasks, y \in Epochs : x # t \/ y # e => att'[x][y] = att[x][y]
      BY <3>1, AttemptSet
    <3>3. /\ child'[t][e].st = "spawning"
          /\ \A x \in Tasks, y \in Epochs : x # t \/ y # e => child'[x][y] = child[x][y]
      BY <3>1, ChildSet
    <3> QED
      BY <1>1, <2>1, <3>2, <3>3 DEF OnlyAttempt
  <2>2. CASE StartReplyLost(t, e)
    <3>1. SetAttempt(t, e, "done") /\ UNCHANGED child /\ Fail
      BY <2>2 DEF StartReplyLost
    <3>2. /\ att'[t][e].pc = "done" /\ att'[t][e].slot = att[t][e].slot
          /\ \A x \in Tasks, y \in Epochs : x # t \/ y # e => att'[x][y] = att[x][y]
      BY <3>1, AttemptSet
    <3>3. failures \in Nat /\ failures' = failures + 1
      BY <3>1, CoreAssumption DEF Fail, TypeOK, CoreAssumption
    <3>4. failures' # 0
      BY <3>3
    <3> QED
      BY <1>1, <1>6, <3>1, <3>2, <3>4 DEF OnlyAttempt
  <2> QED
    BY <2>1, <2>2 DEF Starts
<1> QED
  BY <1>1, <1>3, <1>4, <1>5, <1>6, <1>7, <1>8

LEMMA StartStages ==
  ASSUME TypeOK, TypeOK', ProcessInv, RecordInv, StageInv, GoodResults, NEW t \in Tasks,
         NEW e \in Epochs, Starts(t, e)
  PROVE  StageInv'
<1>1. /\ Begun(rec[t], rec'[t], e) /\ OthersKept(t) /\ OnlyAttempt(t, e) /\ UNCHANGED watch
      /\ att'[t][e].pc \in {"racing", "done"} /\ watch[t][e].pc = "none"
      /\ child'[t][e].st = "spawning" \/ (child'[t][e].st = "none" /\ att'[t][e].pc = "done")
      /\ \A f \in Epochs : f # e => att[t][f].pc # "reserved"
  BY StartBegins
<1>2. e \in Nat
  BY DEF Epochs
<1>3. Stage(t, e)'
  BY <1>1, <1>2 DEF Stage, Begun
<1> QED
  BY <1>1, <1>3, StageStep
LEMMA LaunchTimedOutKeeps ==
  ASSUME TypeOK, GoodResults, NEW t \in Tasks, NEW e \in Epochs, MarkLaunchTimedOut(t, e)
  PROVE  /\ Kept /\ att[t][e].pc = "deadline" /\ att'[t][e].pc = "late"
         /\ att'[t][e].slot = att[t][e].slot
         /\ \A x \in Tasks, y \in Epochs : x # t \/ y # e => att'[x][y] = att[x][y]
         /\ UNCHANGED <<slots, child, watch, objects, erase, calls, failures>>
<1> DEFINE r == rec[t]
           q == [Stopping(r, "failed") EXCEPT !.failure = TRUE, !.result = 0]
           a == [att[t][e] EXCEPT !.pc = "late", !.late = TRUE]
<1>1. r \in JobRecord /\ GoodResult(r)
  BY RecordFields DEF GoodResults
<1>2. /\ att[t][e].pc = "deadline" /\ att' = PutAt(att, t, e, a)
      /\ UNCHANGED <<slots, child, watch, objects, erase, calls, failures>>
      /\ NoCommit \/ Commit(t, q)
  BY DEF MarkLaunchTimedOut
<1>3. a.pc = "late" /\ a.slot = att[t][e].slot
  BY Cells DEF Attempt
<1>4. /\ q.state = "cancelling" /\ q.exec = r.exec /\ q.epoch = r.epoch
      /\ q.result = 0 /\ q.owned = r.owned /\ q.bound = r.bound
  BY <1>1 DEF Stopping, JobRecord
<1> HIDE DEF q, a
<1>5. Carried(r, q) /\ GoodResult(q)
  BY <1>1, <1>4, Carries
<1> QED
  BY <1>2, <1>3, <1>5, AttemptPut, CarriedCommit

LEMMA LaunchTimedOutStages ==
  ASSUME TypeOK, TypeOK', StageInv, GoodResults, NEW t \in Tasks, NEW e \in Epochs,
         MarkLaunchTimedOut(t, e)
  PROVE  StageInv'
<1>1. /\ Kept /\ att[t][e].pc = "deadline" /\ att'[t][e].pc = "late"
      /\ OnlyAttempt(t, e) /\ UNCHANGED <<child, watch>>
  BY LaunchTimedOutKeeps DEF OnlyAttempt
<1>2. GoingOn /\ Stage(t, e) /\ rec[t].exec = e
  BY <1>1, KeptGoesOn DEF StageInv, Stage
<1>3. /\ rec'[t].exec = e /\ rec[t].epoch <= rec'[t].epoch /\ rec[t].epoch \in Nat /\ e \in Nat
      /\ rec'[t].owned = rec[t].owned
      /\ rec'[t].state = "leased" => rec[t].state = "leased" \/ rec[t].epoch < rec'[t].epoch
      /\ rec'[t].epoch \in Nat
  BY <1>2 DEF GoingOn, Goes, TypeOK, JobRecord, Epochs
<1>4. Stage(t, e)'
  BY <1>1, <1>2, <1>3 DEF Stage
<1>5. ~Begun(rec[t], rec'[t], e)
  <2>1. e # 0
    BY DEF Epochs
  <2> QED
    BY <1>2, <2>1 DEF Begun
<1> QED
  BY <1>1, <1>2, <1>4, <1>5, StageStep

\* What requestTermination may do to the child of a record.
LEMMA AskedOnly ==
  ASSUME TypeOK, NEW t \in Tasks, NEW r \in JobRecord, NEW e \in Epochs, r.exec = e,
         RequestTermination(t, r)
  PROVE  /\ child'[t][e].st = child[t][e].st
         /\ child[t][e].stop => child'[t][e].stop
         /\ \A x \in Tasks, y \in Epochs : x # t \/ y # e => child'[x][y] = child[x][y]
         /\ r.bound /\ r.stop /\ child[t][e].st = "alive" =>
              child'[t][e].stop \/ failures' # 0
         /\ failures' # 0 \/ failures' = failures
<1>1. CASE child' = Asked(t, r) /\ UNCHANGED failures
  <2>1. CASE child' = AskChild(t, e)
    BY <1>1, <2>1, ChildAskedStage
  <2>2. CASE child' = child /\ ~(r.bound /\ r.stop /\ child[t][e].st = "alive")
    BY <1>1, <2>2
  <2>3. r.exec # 0
    BY DEF Epochs
  <2> QED
    BY <1>1, <2>1, <2>2, <2>3 DEF Asked
<1>2. CASE Fail /\ UNCHANGED child
  <2>1. failures \in Nat /\ failures' = failures + 1
    BY <1>2, CoreAssumption DEF Fail, TypeOK, CoreAssumption
  <2>2. failures' # 0
    BY <2>1
  <2> QED
    BY <1>2, <2>2
<1> QED
  BY <1>1, <1>2 DEF RequestTermination

LEMMA BindKeeps ==
  ASSUME TypeOK, GoodResults, NEW t \in Tasks, NEW e \in Epochs, BindStarted(t, e)
  PROVE  /\ Kept /\ att[t][e].pc = "binding" /\ att'[t][e].pc = "done"
         /\ att'[t][e].slot = att[t][e].slot
         /\ \A x \in Tasks, y \in Epochs : x # t \/ y # e => att'[x][y] = att[x][y]
         /\ child'[t][e].st = child[t][e].st
         /\ child[t][e].stop => child'[t][e].stop
         /\ \A x \in Tasks, y \in Epochs : x # t \/ y # e => child'[x][y] = child[x][y]
         /\ UNCHANGED <<slots, watch, objects, erase, calls>>
         /\ failures' # 0 \/ failures' = failures
         /\ rec[t].exec = e => /\ rec'[t].bound
                               /\ rec'[t].stop /\ child[t][e].st = "alive" =>
                                    child'[t][e].stop \/ failures' # 0
         /\ OthersKept(t) /\ (rec'[t] = rec[t] \/ rec[t].exec = e)
<1> DEFINE r == rec[t]
           s == IF r.state = "starting" THEN "running" ELSE r.state
           b == [r EXCEPT !.bound = TRUE, !.state = s]
           o == [r EXCEPT !.exec = e, !.bound = TRUE, !.stop = TRUE]
<1>1. r \in JobRecord /\ GoodResult(r) /\ e \in 0..MaxEpoch
  BY RecordFields DEF GoodResults, Epochs
<1>2. /\ att[t][e].pc = "binding" /\ SetAttempt(t, e, "done")
      /\ UNCHANGED <<slots, watch, objects, erase, calls>>
      /\ \/ r.exec = e /\ Commit(t, b) /\ RequestTermination(t, b)
         \/ r.exec # e /\ NoCommit /\ RequestTermination(t, o)
  BY DEF BindStarted
<1>3. /\ b.exec = r.exec /\ b.epoch = r.epoch /\ b.state = s
      /\ b.result = r.result /\ b.owned = r.owned /\ b.bound = TRUE /\ b.stop = r.stop
  BY <1>1 DEF JobRecord
<1>4. b \in JobRecord
  <2>1. s \in States \cup {"absent"}
    BY <1>1 DEF JobRecord, States, ProcessOwningStates, TerminalStates
  <2> QED
    BY <1>1, <2>1 DEF JobRecord
<1>5. o \in JobRecord /\ o.exec = e
  BY <1>1 DEF JobRecord
<1> HIDE DEF b, o
<1>6. Carried(r, b) /\ GoodResult(b)
  BY <1>1, <1>3, Carries
<1>7. Kept
  BY <1>2, <1>6, CarriedCommit
<1>8. /\ att'[t][e].pc = "done" /\ att'[t][e].slot = att[t][e].slot
      /\ \A x \in Tasks, y \in Epochs : x # t \/ y # e => att'[x][y] = att[x][y]
  BY <1>2, AttemptSet
<1>9. CASE r.exec = e /\ Commit(t, b) /\ RequestTermination(t, b)
  <2>1. rec'[t] = b /\ OthersKept(t)
    BY <1>9, Committed
  <2>2. /\ child'[t][e].st = child[t][e].st
        /\ child[t][e].stop => child'[t][e].stop
        /\ \A x \in Tasks, y \in Epochs : x # t \/ y # e => child'[x][y] = child[x][y]
        /\ b.bound /\ b.stop /\ child[t][e].st = "alive" => child'[t][e].stop \/ failures' # 0
        /\ failures' # 0 \/ failures' = failures
    BY <1>3, <1>4, <1>9, AskedOnly
  <2> QED
    BY <1>2, <1>3, <1>7, <1>8, <1>9, <2>1, <2>2
<1>10. CASE r.exec # e /\ NoCommit /\ RequestTermination(t, o)
  <2>1. rec'[t] = r /\ OthersKept(t)
    BY <1>10 DEF NoCommit, OthersKept
  <2>2. /\ child'[t][e].st = child[t][e].st
        /\ child[t][e].stop => child'[t][e].stop
        /\ \A x \in Tasks, y \in Epochs : x # t \/ y # e => child'[x][y] = child[x][y]
        /\ failures' # 0 \/ failures' = failures
    BY <1>5, <1>10, AskedOnly
  <2> QED
    BY <1>2, <1>7, <1>8, <1>10, <2>1, <2>2
<1> QED
  BY <1>2, <1>9, <1>10

LEMMA BindStages ==
  ASSUME TypeOK, TypeOK', StageInv, GoodResults, NEW t \in Tasks, NEW e \in Epochs,
         BindStarted(t, e)
  PROVE  StageInv'
<1>1. /\ Kept /\ att[t][e].pc = "binding" /\ att'[t][e].pc = "done" /\ UNCHANGED watch
      /\ OnlyAttempt(t, e) /\ child'[t][e].st = child[t][e].st
  BY BindKeeps DEF OnlyAttempt
<1>2. GoingOn /\ Stage(t, e) /\ child[t][e].st # "none"
  BY <1>1, KeptGoesOn DEF StageInv, Stage
<1>3. /\ rec'[t].exec = rec[t].exec /\ rec[t].epoch <= rec'[t].epoch /\ rec[t].epoch \in Nat
      /\ e \in Nat /\ rec'[t].owned = rec[t].owned
      /\ rec'[t].state = "leased" => rec[t].state = "leased" \/ rec[t].epoch < rec'[t].epoch
      /\ rec'[t].epoch \in Nat
  BY <1>2 DEF GoingOn, Goes, TypeOK, JobRecord, Epochs
<1>4. Stage(t, e)'
  BY <1>1, <1>2, <1>3 DEF Stage
<1>5. ~Begun(rec[t], rec'[t], e)
  BY <1>2, <1>3 DEF Stage, Begun
<1> QED
  BY <1>1, <1>2, <1>4, <1>5, StageStep
\* An attempt ends: a start that failed, or a termination that was observed.
LEMMA ReleasingEnds ==
  ASSUME NEW r \in JobRecord, GoodResult(r), NEW e \in Epochs, r.exec = e, NEW q,
         q.exec = 0, q.epoch = r.epoch, q.owned = r.owned,
         q.state \notin {"leased", "absent", "deleted"},
         q.state = "succeeded" => q.result # 0,
         q.result = 0 \/ (q.result = r.result /\ q.state = "succeeded")
  PROVE  Ended(r, q, e) /\ GoodResult(q)
<1>1. Ended(r, q, e)
  BY DEF Ended
<1>2. GoodResult(q)
  BY DEF GoodResult
<1> QED
  BY <1>1, <1>2

LEMMA StoppedEnds ==
  ASSUME NEW r \in JobRecord, GoodResult(r), NEW e \in Epochs, r.exec = e,
         r.state = "cancelling", r.pending # "none"
  PROVE  /\ Ended(r, Stopped(r), e) /\ GoodResult(Stopped(r))
         /\ Stopped(r).state = StopTarget(r) /\ Stopped(r).result = 0
         /\ StopTarget(r) # "succeeded"
<1> DEFINE q == Stopped(r)
<1>1. /\ q.state = StopTarget(r) /\ q.exec = 0 /\ q.epoch = r.epoch /\ q.result = 0
      /\ q.owned = r.owned
  BY DEF Stopped, Released, Detached, JobRecord
<1>2. StopTarget(r) \notin {"leased", "absent", "deleted", "succeeded"}
  BY DEF StopTarget, JobRecord, PendingStopOutcomes
<1> HIDE DEF q
<1>3. Ended(r, q, e) /\ GoodResult(q) /\ q.state = StopTarget(r) /\ q.result = 0
  BY <1>1, <1>2, ReleasingEnds
<1> QED
  BY <1>2, <1>3 DEF q

LEMMA StartFailedEnds ==
  ASSUME TypeOK, ProcessInv, RecordInv, StageInv, GoodResults, NEW t \in Tasks,
         NEW e \in Epochs, StartFailed(t, e)
  PROVE  /\ GoodResults'
         /\ att[t][e].pc = "startFailed" /\ att'[t][e].pc = "done"
         /\ att'[t][e].slot = att[t][e].slot
         /\ \A x \in Tasks, y \in Epochs : x # t \/ y # e => att'[x][y] = att[x][y]
         /\ UNCHANGED <<slots, child, watch, objects, calls, failures>>
         /\ OthersKept(t) /\ rec[t].exec = e
         /\ Kept \/ (Ended(rec[t], rec'[t], e) /\ rec'[t].result = 0)
         /\ erase' = erase \/ (rec'[t].state = "deleting" /\ StartErase(t))
<1> DEFINE r == rec[t]
<1>1. /\ att[t][e].pc = "startFailed" /\ SetAttempt(t, e, "done")
      /\ UNCHANGED <<slots, child, watch, objects, calls, failures>>
  BY DEF StartFailed
<1>2. r \in JobRecord /\ GoodResult(r) /\ GoodRecord(r) /\ r.exec = e
  BY <1>1, RecordFields DEF GoodResults, RecordInv, StageInv, Stage
<1>3. /\ att'[t][e].pc = "done" /\ att'[t][e].slot = att[t][e].slot
      /\ \A x \in Tasks, y \in Epochs : x # t \/ y # e => att'[x][y] = att[x][y]
  BY <1>1, AttemptSet
<1>4. CASE NoCommit /\ UNCHANGED erase
  <2>1. Kept /\ OthersKept(t)
    BY <1>4, NothingWritten DEF NoCommit, OthersKept
  <2> QED
    BY <1>1, <1>2, <1>3, <1>4, <2>1, KeptGoesOn
<1>5. ASSUME NEW q, Commit(t, q), Ended(r, q, e), GoodResult(q), q.result = 0,
             erase' = erase \/ (q.state = "deleting" /\ StartErase(t))
      PROVE  /\ GoodResults' /\ OthersKept(t) /\ Ended(r, rec'[t], e) /\ rec'[t].result = 0
             /\ erase' = erase \/ (rec'[t].state = "deleting" /\ StartErase(t))
  <2>1. rec'[t] = q /\ OthersKept(t)
    BY <1>5, Committed
  <2>2. GoodResults'
    BY <1>5, <2>1 DEF GoodResults, OthersKept
  <2> QED
    BY <1>5, <2>1, <2>2
<1>6. CASE /\ r.state = "cancelling" /\ Commit(t, Stopped(r))
           /\ IF StopTarget(r) = "deleting" THEN StartErase(t) ELSE UNCHANGED erase
  <2>1. r.pending # "none"
    BY <1>2, <1>6 DEF GoodRecord
  <2>2. /\ Ended(r, Stopped(r), e) /\ GoodResult(Stopped(r))
        /\ Stopped(r).state = StopTarget(r) /\ Stopped(r).result = 0
    BY <1>2, <1>6, <2>1, StoppedEnds
  <2>3. /\ GoodResults' /\ OthersKept(t) /\ Ended(r, rec'[t], e) /\ rec'[t].result = 0
        /\ erase' = erase \/ (rec'[t].state = "deleting" /\ StartErase(t))
    BY <1>5, <1>6, <2>2
  <2> QED
    BY <1>1, <1>2, <1>3, <2>3
<1>7. CASE r.state = "starting" /\ Commit(t, Released(r, "failed", 0, TRUE)) /\ UNCHANGED erase
  <2> DEFINE q == Released(r, "failed", 0, TRUE)
  <2>0. /\ q.state = "failed" /\ q.exec = 0 /\ q.epoch = r.epoch /\ q.result = 0
        /\ q.owned = r.owned
    BY <1>2 DEF Released, Detached, JobRecord
  <2>2. Commit(t, q) /\ UNCHANGED erase
    BY <1>7
  <2> HIDE DEF q
  <2>1. Ended(r, q, e) /\ GoodResult(q) /\ q.result = 0
    BY <1>2, <2>0, ReleasingEnds
  <2>3. /\ GoodResults' /\ OthersKept(t) /\ Ended(r, rec'[t], e) /\ rec'[t].result = 0
        /\ erase' = erase
    BY <1>5, <2>1, <2>2
  <2> QED
    BY <1>1, <1>2, <1>3, <2>3
<1> QED
  BY <1>4, <1>6, <1>7 DEF StartFailed

LEMMA StartFailedStages ==
  ASSUME TypeOK, TypeOK', ProcessInv, RecordInv, StageInv, GoodResults, NEW t \in Tasks,
         NEW e \in Epochs, StartFailed(t, e)
  PROVE  StageInv'
<1>1. /\ att[t][e].pc = "startFailed" /\ att'[t][e].pc = "done" /\ OnlyAttempt(t, e)
      /\ UNCHANGED <<child, watch>> /\ OthersKept(t) /\ rec[t].exec = e
      /\ Kept \/ Ended(rec[t], rec'[t], e)
  BY StartFailedEnds DEF OnlyAttempt
<1>2. GoingOn \/ Ended(rec[t], rec'[t], e)
  BY <1>1, KeptGoesOn
<1>3. Stage(t, e)
  BY DEF StageInv
<1>4. rec[t].epoch \in Nat /\ rec'[t].epoch \in Nat /\ e \in Nat /\ e # 0
  BY DEF TypeOK, JobRecord, Epochs
<1>5. Stage(t, e)'
  BY <1>1, <1>2, <1>3, <1>4 DEF Stage, GoingOn, Goes, Ended
<1>6. ~Begun(rec[t], rec'[t], e)
  BY <1>1, <1>4 DEF Begun
<1> QED
  BY <1>1, <1>2, <1>5, <1>6, StageStep

\* The record a termination leaves.
LEMMA FinalizedEnds ==
  ASSUME NEW r \in JobRecord, GoodResult(r), NEW e \in Epochs, r.exec = e, NEW x
  PROVE  LET q == Finalized(r, x) IN Ended(r, q, e) /\ GoodResult(q)
<1>1. TemporalOutcome(r, x.at) \in {"expired", "timed_out", "queued"}
  BY ClockOutcome
<1> DEFINE q == Finalized(r, x)
<1>2. \/ q = Released(r, TemporalOutcome(r, x.at), 0, FALSE)
      \/ r.result # 0 /\ q = Released(r, "succeeded", r.result, FALSE)
      \/ q = Released(r, "failed", 0, TRUE)
  BY DEF Finalized
<1> SUFFICES Ended(r, q, e) /\ GoodResult(q)
  OBVIOUS
<1> HIDE DEF q
<1>3. q.exec = 0 /\ q.epoch = r.epoch /\ q.owned = r.owned
  BY <1>2 DEF Released, Detached, JobRecord
<1>4. CASE q = Released(r, TemporalOutcome(r, x.at), 0, FALSE)
  <2>1. q.state = TemporalOutcome(r, x.at) /\ q.result = 0
    BY <1>4 DEF Released, Detached, JobRecord
  <2> QED
    BY <1>1, <1>3, <2>1, ReleasingEnds
<1>5. CASE r.result # 0 /\ q = Released(r, "succeeded", r.result, FALSE)
  <2>1. q.state = "succeeded" /\ q.result = r.result
    BY <1>5 DEF Released, Detached, JobRecord
  <2> QED
    BY <1>3, <1>5, <2>1, ReleasingEnds
<1>6. CASE q = Released(r, "failed", 0, TRUE)
  <2>1. q.state = "failed" /\ q.result = 0
    BY <1>6 DEF Released, Detached, JobRecord
  <2> QED
    BY <1>3, <2>1, ReleasingEnds
<1> QED
  BY <1>2, <1>4, <1>5, <1>6

LEMMA FinalizeEnds ==
  ASSUME TypeOK, RecordInv, StageInv, GoodResults, NEW t \in Tasks,
         NEW e \in Epochs, Finalize(t, e)
  PROVE  /\ GoodResults' /\ OthersKept(t) /\ Ended(rec[t], rec'[t], e)
         /\ watch[t][e].pc = "tracked" /\ child[t][e].st = "exited"
         /\ UNCHANGED <<slots, att, child, objects, erase, calls, failures>>
         /\ watch'[t][e].pc = "finalized"
         /\ watch'[t][e].drop <=> rec'[t].state # "succeeded"
         /\ watch'[t][e].deleting <=> rec'[t].state = "deleting"
         /\ \A x \in Tasks, y \in Epochs : x # t \/ y # e => watch'[x][y] = watch[x][y]
<1> DEFINE r == rec[t]
           s == [Stopped(r) EXCEPT !.deletion = @ \/ StopTarget(r) = "deleting"]
           f == IF r.state = "cancelling" THEN s ELSE Finalized(r, child[t][e])
           w == [pc |-> "finalized", drop |-> ~(f.state = "succeeded"),
                 deleting |-> f.state = "deleting"]
<1>1. watch[t][e].pc = "tracked" /\ child[t][e].st = "exited"
      /\ UNCHANGED <<slots, att, child, objects, erase, calls, failures>>
  BY DEF Finalize
<1>2. r \in JobRecord /\ GoodResult(r) /\ GoodRecord(r) /\ r.exec = e /\ e # 0
  BY <1>1, RecordFields DEF GoodResults, RecordInv, StageInv, Stage, Epochs
<1>3. r.state \in ProcessOwningStates
  BY <1>2 DEF GoodRecord
<1>4. Commit(t, f) /\ watch' = PutAt(watch, t, e, w)
  BY <1>2, <1>3 DEF Finalize
<1>5. Ended(r, f, e) /\ GoodResult(f)
  <2>1. CASE r.state = "cancelling"
    <3>1. Ended(r, Stopped(r), e) /\ GoodResult(Stopped(r))
      BY <1>2, <2>1, StoppedEnds DEF GoodRecord
    <3>2. /\ s.state = Stopped(r).state /\ s.exec = Stopped(r).exec
          /\ s.epoch = Stopped(r).epoch /\ s.result = Stopped(r).result
          /\ s.owned = Stopped(r).owned
      BY DEF Stopped, Released, Detached, JobRecord
    <3> HIDE DEF s
    <3>3. Ended(r, s, e) /\ GoodResult(s)
      BY <3>1, <3>2 DEF Ended, GoodResult
    <3> QED
      BY <2>1, <3>3
  <2>2. CASE r.state # "cancelling"
    BY <1>2, <2>2, FinalizedEnds
  <2> QED
    BY <2>1, <2>2
<1>6. /\ w.pc = "finalized" /\ (w.drop <=> f.state # "succeeded")
      /\ w.deleting <=> f.state = "deleting"
  OBVIOUS
<1> HIDE DEF f, w
<1>7. rec'[t] = f /\ OthersKept(t)
  BY <1>4, Committed
<1>8. GoodResults'
  BY <1>5, <1>7 DEF GoodResults, OthersKept
<1>9. /\ watch'[t][e] = w
      /\ \A x \in Tasks, y \in Epochs : x # t \/ y # e => watch'[x][y] = watch[x][y]
  BY <1>4, WatchPut
<1> QED
  BY <1>1, <1>5, <1>6, <1>7, <1>8, <1>9

LEMMA FinalizeStages ==
  ASSUME TypeOK, TypeOK', RecordInv, StageInv, GoodResults, NEW t \in Tasks,
         NEW e \in Epochs, Finalize(t, e)
  PROVE  StageInv'
<1>1. /\ OthersKept(t) /\ Ended(rec[t], rec'[t], e) /\ OnlyAttempt(t, e)
      /\ watch[t][e].pc = "tracked" /\ UNCHANGED <<att, child>>
      /\ watch'[t][e].pc = "finalized"
  BY FinalizeEnds DEF OnlyAttempt
<1>3. Stage(t, e)
  BY DEF StageInv
<1>4. rec[t].epoch \in Nat /\ rec'[t].epoch \in Nat /\ e \in Nat /\ e # 0
  BY DEF TypeOK, JobRecord, Epochs
<1>5. Stage(t, e)'
  BY <1>1, <1>3, <1>4 DEF Stage, Ended
<1>6. ~Begun(rec[t], rec'[t], e)
  BY <1>1, <1>4 DEF Begun, Ended
<1> QED
  BY <1>1, <1>5, <1>6, StageStep
-----------------------------------------------------------------------------
(* Publications *)

\* A publication that has not been overtaken names the running attempt, whose
\* object is in the store.
Publishing ==
  \A t \in Tasks, p \in Calls :
    calls[t][p].op = "publish" /\ <<t, p>> \notin stale =>
      calls[t][p].key = rec[t].exec /\ <<t, calls[t][p].key>> \in objects

PublishesNothing ==
  \A t \in Tasks, p \in Calls :
    calls'[t][p].op = "publish" /\ <<t, p>> \notin stale' =>
      calls'[t][p] = calls[t][p] /\ <<t, p>> \notin stale

LEMMA CallsUnread ==
  ASSUME UNCHANGED calls,
         \/ UNCHANGED stale
         \/ \E S : stale' = stale \cup S
         \/ \E t \in Tasks : stale' = stale \ {<<t, "execute">>}
  PROVE  PublishesNothing
BY CoreAssumption DEF PublishesNothing, CoreAssumption

LEMMA CallSettled ==
  ASSUME TypeOK, NEW t \in Tasks, NEW p \in Calls, NEW c, calls' = PutAt(calls, t, p, c),
         c.op # "publish",
         \/ UNCHANGED stale
         \/ \E S : stale' = stale \cup S
         \/ stale' = stale \ {<<t, p>>}
  PROVE  PublishesNothing
<1>1. /\ calls'[t][p] = c
      /\ \A x \in Tasks, y \in Calls : x # t \/ y # p => calls'[x][y] = calls[x][y]
  BY DEF PutAt, TypeOK
<1>2. \A x \in Tasks, y \in Calls :
        (x # t \/ y # p) /\ <<x, y>> \notin stale' => <<x, y>> \notin stale
  OBVIOUS
<1> QED
  BY <1>1, <1>2 DEF PublishesNothing

LEMMA HeartbeatPublishesNothing ==
  ASSUME TypeOK, NEW t \in Tasks, NEW p \in Calls, NEW e \in Epochs, NEW d \in LeaseDurations,
         HeartbeatRead(t, p, e, d)
  PROVE  PublishesNothing
<1> DEFINE c == [op |-> "heartbeat", key |-> 0, until |-> LeaseExpiry(rec[t], now, d)]
<1>1. calls' = PutAt(calls, t, p, c) /\ UNCHANGED stale
  BY DEF HeartbeatRead
<1>2. c.op = "heartbeat"
  OBVIOUS
<1> HIDE DEF c
<1> QED
  BY <1>1, <1>2, CallSettled

LEMMA StepsPublishNothing ==
  ASSUME TypeOK, NEW t \in Tasks, NEW e \in Epochs,
         \/ Sweep(t) \/ EraseRejected(t) \/ EraseObjects(t) \/ CompleteDeletion(t) \/ Tick
         \/ Execution(t, e) \/ Supervisor(t, e) \/ Rejection(t, e)
         \/ FinalizeReply(t, e) \/ WatchRejected(t, e) \/ UNCHANGED vars
  PROVE  PublishesNothing
<1>1. CASE \/ EraseRejected(t) \/ EraseObjects(t) \/ Tick \/ Supervisor(t, e)
           \/ FinalizeReply(t, e) \/ WatchRejected(t, e) \/ UNCHANGED vars
  BY <1>1, CallsUnread DEF EraseRejected, EraseObjects, Tick, Supervisor, SpawnResolves,
     SpawnRejects, PutResult, ChildExits, LatePut, FinalizeReply, WatchRejected, vars
<1>2. CASE Sweep(t) \/ CompleteDeletion(t)
  BY <1>2, CallsUnread DEF Sweep, SweepCancelling, SweepOwning, SweepIdle, CompleteDeletion,
     Commit, NoCommit
<1>3. CASE Rejection(t, e) \/ ExecuteReserve(t, e) \/ ExecuteCommit(t, e)
           \/ ExecuteOvertaken(t, e) \/ LaunchDeadline(t, e) \/ Launched(t, e)
           \/ LateLaunched(t, e) \/ LaunchRejected(t, e) \/ Cleanup(t, e)
  BY <1>3, CallsUnread DEF Rejection, AttemptRejected, StartReplyLost, ExecuteReserve,
     ExecuteCommit, ExecuteOvertaken, LaunchDeadline, Launched, LateLaunched, LaunchRejected,
     Cleanup
<1>4. CASE MarkLaunchTimedOut(t, e) \/ StartFailed(t, e) \/ BindStarted(t, e) \/ Finalize(t, e)
  BY <1>4, CallsUnread DEF MarkLaunchTimedOut, StartFailed, BindStarted, Finalize, Commit, NoCommit
<1> QED
  BY <1>1, <1>2, <1>3, <1>4 DEF Execution

LEMMA CallsPublishNothing ==
  ASSUME TypeOK, NEW t \in Tasks, NEW p \in Calls,
         HeartbeatCommit(t, p) \/ PublishCommit(t, p) \/ CallOvertaken(t, p)
  PROVE  PublishesNothing
<1>1. NoCall.op = "none"
  BY DEF NoCall
<1> QED
  BY <1>1, CallSettled DEF HeartbeatCommit, PublishCommit, CallOvertaken
-----------------------------------------------------------------------------
(* Results, objects and deletions *)

\* What the termination handler of an attempt relies on: the object it may drop
\* is not the record's result, and it completes only a deletion that stands.
WatchAt(t, e) ==
  /\ watch[t][e].pc \in {"finalized", "cleanup"} =>
       rec[t].exec # e /\ (watch[t][e].drop => rec[t].result # e)
  /\ rec[t].result = e => rec[t].exec = e \/ watch[t][e].pc \notin {"none", "tracked"}
  /\ watch[t][e].deleting => rec[t].state \in {"deleting", "deleted"}

\* Objects belong to attempts of the record, a result has its object, and a
\* tombstone leaves none but those that a late put brings.
StoreAt(t, e) ==
  /\ <<t, e>> \in objects => e \in rec[t].owned
  /\ rec[t].result = e => <<t, e>> \in objects
  /\ rec[t].state = "deleted" => (<<t, e>> \in objects => child[t][e].late)

Erasing == \A t \in Tasks : erase[t] # "idle" => rec[t].state \in {"deleting", "deleted"}

ResultInv ==
  /\ \A t \in Tasks, e \in Epochs : WatchAt(t, e) /\ StoreAt(t, e)
  /\ Erasing
  /\ Publishing

LEMMA DeletionsStay ==
  ASSUME TypeOK, RecordInv, RecordInv', History, NEW t \in Tasks,
         rec[t].state \in {"deleting", "deleted"}
  PROVE  rec'[t].state \in {"deleting", "deleted"}
<1>1. rec[t].deletion
  BY DEF RecordInv, GoodRecord
<1>2. rec'[t].state \in {"cancelling", "deleting", "deleted"}
  BY <1>1 DEF History, Ordered
<1>3. TransitionAllowed(rec[t].state, rec'[t].state)
  BY DEF History, Ordered
<1>4. TransitionAllowed(rec[t].state, rec'[t].state) => rec'[t].state # "cancelling"
  BY DEF TransitionAllowed, AllowedTransitions
<1> QED
  BY <1>2, <1>3, <1>4

\* Publications survive a step that publishes nothing and keeps the attempts
\* and their objects.
LEMMA PublishingKept ==
  ASSUME TypeOK, RecordInv, RecordInv', Publishing, PublishesNothing,
         \A t \in Tasks :
           rec'[t].state = "running" /\ rec[t].state = "running" =>
             /\ rec'[t].exec = rec[t].exec
             /\ <<t, rec[t].exec>> \in objects => <<t, rec[t].exec>> \in objects'
  PROVE  Publishing'
<1> SUFFICES ASSUME NEW t \in Tasks, NEW p \in Calls,
                    calls'[t][p].op = "publish", <<t, p>> \notin stale'
             PROVE  calls'[t][p].key = rec'[t].exec /\ <<t, calls'[t][p].key>> \in objects'
  BY DEF Publishing
<1>1. calls'[t][p] = calls[t][p] /\ <<t, p>> \notin stale
  BY DEF PublishesNothing
<1>2. calls[t][p].key = rec[t].exec /\ <<t, calls[t][p].key>> \in objects
  BY <1>1 DEF Publishing
<1>3. rec[t].state = "running" /\ rec'[t].state = "running"
  BY <1>1 DEF RecordInv, CallIsCurrent
<1> QED
  BY <1>1, <1>2, <1>3

LEMMA WatchCarried ==
  ASSUME TypeOK, RecordInv, RecordInv', History, NEW t \in Tasks, NEW e \in Epochs,
         WatchAt(t, e), Carried(rec[t], rec'[t]),
         watch'[t][e].pc = watch[t][e].pc, watch'[t][e].drop = watch[t][e].drop,
         watch'[t][e].deleting = watch[t][e].deleting
  PROVE  WatchAt(t, e)'
<1>1. e # 0
  BY DEF Epochs
<1>2. rec[t].state \in {"deleting", "deleted"} => rec'[t].state \in {"deleting", "deleted"}
  BY DeletionsStay
<1> QED
  BY <1>1, <1>2 DEF WatchAt, Carried, Goes

LEMMA StoreCarried ==
  ASSUME LateStays, NEW t \in Tasks, NEW e \in Epochs, StoreAt(t, e), Carried(rec[t], rec'[t]),
         <<t, e>> \in objects' <=> <<t, e>> \in objects
  PROVE  StoreAt(t, e)'
<1>1. e # 0
  BY DEF Epochs
<1> QED
  BY <1>1 DEF StoreAt, Carried, Goes, LateStays

\* Deletions are completed only where they stand.
LEMMA ErasingKept ==
  ASSUME TypeOK, RecordInv, RecordInv', History, Erasing,
         \A t \in Tasks :
           erase'[t] # "idle" => erase[t] # "idle" \/ rec'[t].state \in {"deleting", "deleted"}
  PROVE  Erasing'
BY DeletionsStay DEF Erasing

Context == TypeOK /\ ProcessInv /\ RecordInv /\ StageInv /\ GoodResults
After == TypeOK' /\ RecordInv' /\ History /\ LateStays

\* A step that leaves attempts, terminations and objects alone.
LEMMA KeptResults ==
  ASSUME Context, After, ResultInv, Kept, PublishesNothing,
         UNCHANGED <<watch, objects>>,
         \A t \in Tasks :
           erase'[t] # "idle" => erase[t] # "idle" \/ rec'[t].state \in {"deleting", "deleted"}
  PROVE  ResultInv'
<1>1. \A t \in Tasks : Carried(rec[t], rec'[t])
  BY DEF Kept
<1>2. \A t \in Tasks, e \in Epochs : WatchAt(t, e)' /\ StoreAt(t, e)'
  BY <1>1, WatchCarried, StoreCarried DEF ResultInv, Context, After
<1>3. Erasing'
  BY ErasingKept DEF ResultInv, Context, After
<1>4. Publishing'
  BY <1>1, PublishingKept DEF ResultInv, Carried, Goes, Context, After
<1> QED
  BY <1>2, <1>3, <1>4 DEF ResultInv

LEMMA RequestsKeepResults ==
  ASSUME Context, After, ResultInv, NEW t \in Tasks,
         \/ \E q \in Requests : Create(t, q)
         \/ \E d \in LeaseDurations : Claim(t, d)
         \/ Cancel(t) \/ DeleteIdle(t) \/ DeleteOwning(t) \/ DeleteAgain(t) \/ Sweep(t)
  PROVE  ResultInv'
<1>1. Kept
  <2>1. CASE DeleteAgain(t)
    BY <2>1, UntouchedKeeps DEF Untouched, Context
  <2> QED
    BY <2>1, CreateKeeps, ClaimKeeps, CancelKeeps, DeleteIdleKeeps, DeleteOwningKeeps, SweepKeeps
       DEF Context
<1>2. PublishesNothing
  <2>1. CASE Sweep(t)
    BY <2>1, CallsUnread DEF Sweep, SweepCancelling, SweepOwning, SweepIdle, Commit, NoCommit
  <2>2. CASE ~Sweep(t)
    BY <2>2, CallsUnread DEF Create, Claim, Cancel, DeleteIdle, DeleteOwning, DeleteAgain, Commit,
       NoCommit
  <2> QED
    BY <2>1, <2>2
<1>3. UNCHANGED <<watch, objects>>
  BY DEF Create, Claim, Cancel, DeleteIdle, DeleteOwning, DeleteAgain, Sweep, SweepCancelling,
     SweepOwning, SweepIdle
<1>4. CASE erase' = erase
  BY <1>1, <1>2, <1>3, <1>4, KeptResults DEF Context, After
<1>5. CASE DeleteIdle(t) \/ DeleteAgain(t)
  <2>1. \A x \in Tasks : x # t => erase'[x] = erase[x]
    BY <1>5 DEF DeleteIdle, DeleteAgain, Context, TypeOK
  <2>2. rec'[t].state = "deleting"
    <3>1. CASE DeleteIdle(t)
      <4> DEFINE q == [Released(rec[t], "deleting", 0, FALSE) EXCEPT !.deletion = TRUE]
      <4>1. Commit(t, q) /\ rec[t] \in JobRecord
        BY <3>1, RecordFields DEF DeleteIdle, Context
      <4>2. q.state = "deleting"
        BY <4>1 DEF Released, Detached, JobRecord
      <4> HIDE DEF q
      <4> QED
        BY <4>1, <4>2, Committed DEF Context
    <3>2. CASE DeleteAgain(t)
      BY <3>2 DEF DeleteAgain
    <3> QED
      BY <1>5, <3>1, <3>2
  <2> QED
    BY <1>1, <1>2, <1>3, <2>1, <2>2, KeptResults DEF Context, After
<1> QED
  BY <1>4, <1>5 DEF Create, Claim, Cancel, DeleteOwning, Sweep, SweepCancelling, SweepOwning,
     SweepIdle

\* A step that writes nothing these invariants speak of.
LEMMA UnseenStep ==
  ASSUME Context, ResultInv,
         UNCHANGED <<rec, att, child, watch, objects, erase, calls, stale>>
  PROVE  StageInv' /\ GoodResults' /\ ResultInv'
<1>1. StageInv' /\ GoodResults'
  BY DEF Context, StageInv, Stage, GoodResults
<1>2. \A x \in Tasks, y \in Epochs : WatchAt(x, y)' /\ StoreAt(x, y)'
  BY DEF ResultInv, WatchAt, StoreAt
<1>3. Erasing' /\ Publishing'
  BY DEF ResultInv, Erasing, Publishing
<1> QED
  BY <1>1, <1>2, <1>3 DEF ResultInv

LEMMA CallResults ==
  ASSUME Context, After, ResultInv, NEW t \in Tasks,
         EraseRejected(t) \/ \E p \in Calls : HeartbeatCommit(t, p) \/ CallOvertaken(t, p)
  PROVE  ResultInv'
<1>1. Kept
  <2>1. CASE UNCHANGED rec
    BY <2>1, NothingWritten DEF Context
  <2> QED
    BY <2>1, HeartbeatKeeps DEF Context, EraseRejected, CallOvertaken
<1>2. PublishesNothing
  BY CallsPublishNothing, CallsUnread DEF Context, EraseRejected
<1>3. UNCHANGED <<watch, objects>>
  BY DEF EraseRejected, HeartbeatCommit, CallOvertaken
<1>4. erase' = erase \/ EraseRejected(t)
  BY DEF HeartbeatCommit, CallOvertaken
<1>5. \A x \in Tasks : erase'[x] # "idle" => erase[x] # "idle"
  BY <1>4 DEF EraseRejected, Context, TypeOK
<1> QED
  BY <1>1, <1>2, <1>3, <1>5, KeptResults DEF Context, After

LEMMA SteadyResults ==
  ASSUME Context, After, ResultInv, NEW t \in Tasks, NEW e \in Epochs,
         \/ \E p \in Calls, d \in LeaseDurations : HeartbeatRead(t, p, e, d)
         \/ SpawnResolves(t, e) \/ SpawnRejects(t, e) \/ ChildExits(t, e)
         \/ LaunchDeadline(t, e) \/ LaunchRejected(t, e) \/ ExecuteReserve(t, e)
         \/ ExecuteOvertaken(t, e) \/ AttemptRejected(t, e) \/ MarkLaunchTimedOut(t, e)
         \/ BindStarted(t, e)
  PROVE  ResultInv'
<1>1. Kept
  <2>1. CASE UNCHANGED rec
    BY <2>1, NothingWritten DEF Context
  <2> QED
    BY <2>1, LaunchTimedOutKeeps, BindKeeps DEF Context, HeartbeatRead, SpawnResolves,
       SpawnRejects, ChildExits, LaunchDeadline, LaunchRejected, ExecuteReserve, ExecuteOvertaken,
       AttemptRejected
<1>2. PublishesNothing
  <2>1. CASE \E p \in Calls, d \in LeaseDurations : HeartbeatRead(t, p, e, d)
    BY <2>1, HeartbeatPublishesNothing DEF Context
  <2> QED
    BY <2>1, StepsPublishNothing DEF Context, Execution, Supervisor, Rejection
<1>3. UNCHANGED <<watch, objects, erase>>
  BY DEF HeartbeatRead, SpawnResolves, SpawnRejects, ChildExits, LaunchDeadline, LaunchRejected,
     ExecuteReserve, ExecuteOvertaken, AttemptRejected, MarkLaunchTimedOut, BindStarted
<1> QED
  BY <1>1, <1>2, <1>3, KeptResults DEF Context, After

LEMMA UnwrittenResults ==
  ASSUME Context, After, ResultInv, NEW t \in Tasks, NEW e \in Epochs,
         UNCHANGED <<rec, objects, erase, calls, stale>>,
         \A x \in Tasks, y \in Epochs : x # t \/ y # e => watch'[x][y] = watch[x][y],
         WatchAt(t, e)'
  PROVE  ResultInv'
<1>1. \A x \in Tasks, y \in Epochs : StoreAt(x, y)'
  BY DEF ResultInv, StoreAt, After, LateStays
<1>2. \A x \in Tasks, y \in Epochs : x # t \/ y # e => WatchAt(x, y)'
  BY DEF ResultInv, WatchAt
<1>3. Erasing' /\ Publishing'
  BY DEF ResultInv, Erasing, Publishing
<1> QED
  BY <1>1, <1>2, <1>3 DEF ResultInv

LEMMA WatchResults ==
  ASSUME Context, After, ResultInv, NEW t \in Tasks, NEW e \in Epochs,
         \/ Launched(t, e) \/ LateLaunched(t, e) \/ FinalizeReply(t, e) \/ WatchRejected(t, e)
  PROVE  ResultInv'
<1>1. UNCHANGED <<rec, objects, erase, calls, stale>>
  BY DEF Launched, LateLaunched, FinalizeReply, WatchRejected
<1>2. WatchAt(t, e) /\ Stage(t, e) /\ TypeOK
  BY DEF ResultInv, Context, StageInv
<1>3. CASE UNCHANGED watch
  BY <1>1, <1>2, <1>3, UnwrittenResults DEF WatchAt
<1>4. CASE SetWatch(t, e, "tracked") /\ (Launched(t, e) \/ LateLaunched(t, e))
  <2>1. /\ watch'[t][e].pc = "tracked" /\ watch'[t][e].drop = watch[t][e].drop
        /\ watch'[t][e].deleting = watch[t][e].deleting
        /\ \A x \in Tasks, y \in Epochs : x # t \/ y # e => watch'[x][y] = watch[x][y]
    BY <1>2, <1>4, WatchSet
  <2>2. rec[t].exec = e
    BY <1>2, <1>4 DEF Stage, Launched, LateLaunched
  <2>3. WatchAt(t, e)'
    BY <1>1, <1>2, <2>1, <2>2 DEF WatchAt
  <2> QED
    BY <1>1, <2>1, <2>3, UnwrittenResults
<1>5. CASE FinalizeReply(t, e)
  <2>1. watch[t][e].pc = "finalized" /\ (SetWatch(t, e, "done") \/ SetWatch(t, e, "cleanup"))
    BY <1>5 DEF FinalizeReply
  <2>2. /\ watch'[t][e].pc \in {"done", "cleanup"} /\ watch'[t][e].drop = watch[t][e].drop
        /\ watch'[t][e].deleting = watch[t][e].deleting
        /\ \A x \in Tasks, y \in Epochs : x # t \/ y # e => watch'[x][y] = watch[x][y]
    BY <1>2, <2>1, WatchSet
  <2>3. WatchAt(t, e)'
    BY <1>1, <1>2, <2>1, <2>2 DEF WatchAt
  <2> QED
    BY <1>1, <2>2, <2>3, UnwrittenResults
<1>6. CASE WatchRejected(t, e)
  <2>1. watch' = PutAt(watch, t, e, WatchDone)
    BY <1>6 DEF WatchRejected
  <2>2. /\ watch'[t][e].pc = "done" /\ watch'[t][e].deleting = FALSE
        /\ \A x \in Tasks, y \in Epochs : x # t \/ y # e => watch'[x][y] = watch[x][y]
    BY <1>2, <2>1, WatchEnded
  <2>3. WatchAt(t, e)'
    BY <1>1, <1>2, <2>2 DEF WatchAt
  <2> QED
    BY <1>1, <2>2, <2>3, UnwrittenResults
<1> QED
  BY <1>3, <1>4, <1>5, <1>6 DEF Launched, LateLaunched

\* An object appears that a running child has written.
LEMMA PutResults ==
  ASSUME Context, After, ResultInv, NEW t \in Tasks, NEW e \in Epochs, PutResult(t, e)
  PROVE  ResultInv'
<1>1. /\ UNCHANGED <<rec, watch, erase, calls, stale>>
      /\ objects' = objects \cup {<<t, e>>} /\ child[t][e].st = "alive"
  BY DEF PutResult
<1>2. rec[t].exec = e /\ rec[t].state \in ProcessOwningStates /\ e # 0
  BY <1>1 DEF Context, ProcessInv, LiveChildIsCurrentAttempt, Live, Epochs
<1>3. e \in rec[t].owned /\ rec[t].state # "deleted"
  BY <1>2 DEF Context, GoodResults, GoodResult, ProcessOwningStates
<1>4. \A x \in Tasks, y \in Epochs : WatchAt(x, y)' /\ StoreAt(x, y)'
  BY <1>1, <1>3 DEF ResultInv, WatchAt, StoreAt, After, LateStays
<1>5. Erasing' /\ Publishing'
  BY <1>1 DEF ResultInv, Erasing, Publishing
<1> QED
  BY <1>4, <1>5 DEF ResultInv

\* ... or has left behind: the attempt is one of its record's all the same.
LEMMA LatePutResults ==
  ASSUME Context, After, ResultInv, NEW t \in Tasks, NEW e \in Epochs, LatePut(t, e)
  PROVE  ResultInv'
<1>1. /\ UNCHANGED <<rec, watch, erase, calls, stale>>
      /\ objects' = objects \cup {<<t, e>>} /\ child'[t][e].late
  BY ChildPutLate DEF LatePut, Context
<1>2. e \in rec[t].owned
  BY ChildPutLate DEF Context, StageInv, Stage
<1>3. \A x \in Tasks, y \in Epochs : WatchAt(x, y)' /\ StoreAt(x, y)'
  BY <1>1, <1>2 DEF ResultInv, WatchAt, StoreAt, After, LateStays
<1>4. Erasing' /\ Publishing'
  BY <1>1 DEF ResultInv, Erasing, Publishing
<1> QED
  BY <1>3, <1>4 DEF ResultInv

\* Objects disappear that no record names and no publication waits for.
LEMMA ObjectsDropped ==
  ASSUME Context, After, ResultInv, NEW S, UNCHANGED <<rec, calls, stale>>,
         objects' = objects \ S,
         \A x \in Tasks, y \in Epochs :
           /\ rec[x].result = y => <<x, y>> \notin S
           /\ rec[x].exec = y /\ rec[x].state = "running" => <<x, y>> \notin S
           /\ WatchAt(x, y)',
         Erasing'
  PROVE  ResultInv'
<1>1. \A x \in Tasks, y \in Epochs : StoreAt(x, y)'
  BY DEF ResultInv, StoreAt, After, LateStays
<1>2. PublishesNothing
  BY CallsUnread
<1>3. ASSUME NEW x \in Tasks, rec[x].state = "running" PROVE <<x, rec[x].exec>> \notin S
  <2>1. rec[x].exec = rec[x].epoch /\ rec[x].epoch # 0
    BY <1>3 DEF Context, RecordInv, GoodRecord, ProcessOwningStates
  <2>2. rec[x].exec \in Epochs
    BY <2>1, CoreAssumption, RecordFields DEF Context, JobRecord, Epochs, CoreAssumption
  <2> QED
    BY <1>3, <2>2
<1>4. Publishing'
  BY <1>2, <1>3, PublishingKept DEF Context, After, ResultInv
<1> QED
  BY <1>1, <1>4 DEF ResultInv

LEMMA CleanupResults ==
  ASSUME Context, After, ResultInv, NEW t \in Tasks, NEW e \in Epochs, Cleanup(t, e)
  PROVE  ResultInv'
<1>1. /\ watch[t][e].pc = "cleanup" /\ UNCHANGED <<rec, calls, stale>>
      /\ objects' = IF watch[t][e].drop THEN objects \ {<<t, e>>} ELSE objects
      /\ IF watch[t][e].deleting THEN StartErase(t) ELSE UNCHANGED erase
      /\ watch' = PutAt(watch, t, e, WatchDone)
  BY DEF Cleanup
<1> DEFINE S == IF watch[t][e].drop THEN {<<t, e>>} ELSE {}
<1>2. objects' = objects \ S
  BY <1>1
<1>3. /\ watch'[t][e].pc = "done" /\ watch'[t][e].deleting = FALSE
      /\ \A x \in Tasks, y \in Epochs : x # t \/ y # e => watch'[x][y] = watch[x][y]
  BY <1>1, WatchEnded DEF Context
<1>4. WatchAt(t, e)
  BY DEF ResultInv
<1>5. \A x \in Tasks, y \in Epochs :
        /\ rec[x].result = y => <<x, y>> \notin S
        /\ rec[x].exec = y /\ rec[x].state = "running" => <<x, y>> \notin S
  BY <1>1, <1>4 DEF WatchAt
<1>6. \A x \in Tasks, y \in Epochs : WatchAt(x, y)'
  BY <1>1, <1>3 DEF ResultInv, WatchAt
<1>7. Erasing'
  <2>1. CASE watch[t][e].deleting /\ StartErase(t)
    BY <1>1, <1>4, <2>1 DEF WatchAt, StartErase, Erasing, ResultInv, Context, TypeOK
  <2>2. CASE UNCHANGED erase
    BY <1>1, <2>2 DEF Erasing, ResultInv
  <2> QED
    BY <1>1, <2>1, <2>2
<1> HIDE DEF S
<1> QED
  BY <1>1, <1>2, <1>5, <1>6, <1>7, ObjectsDropped

LEMMA EraseResults ==
  ASSUME Context, After, ResultInv, NEW t \in Tasks, EraseObjects(t)
  PROVE  ResultInv'
<1>1. /\ erase[t] = "erasing" /\ UNCHANGED <<rec, watch, calls, stale>>
      /\ objects' = objects \ ({t} \X rec[t].owned)
      /\ \A x \in Tasks : erase'[x] # "idle" => erase[x] # "idle"
  BY DEF EraseObjects, Context, TypeOK
<1>2. rec[t].state \in {"deleting", "deleted"}
  BY <1>1 DEF ResultInv, Erasing
<1>3. rec[t].result = 0
  BY <1>2 DEF Context, GoodResults, GoodResult
<1>4. \A x \in Tasks, y \in Epochs :
        /\ rec[x].result = y => <<x, y>> \notin {t} \X rec[t].owned
        /\ rec[x].exec = y /\ rec[x].state = "running" => <<x, y>> \notin {t} \X rec[t].owned
  BY <1>2, <1>3 DEF Epochs
<1>5. \A x \in Tasks, y \in Epochs : WatchAt(x, y)'
  BY <1>1 DEF ResultInv, WatchAt
<1>6. Erasing'
  BY <1>1 DEF ResultInv, Erasing
<1> QED
  BY <1>1, <1>4, <1>5, <1>6, ObjectsDropped

LEMMA PublishReadResults ==
  ASSUME Context, After, ResultInv, NEW t \in Tasks, NEW p \in Calls, NEW e \in Epochs,
         NEW k \in Epochs, PublishRead(t, p, e, k)
  PROVE  ResultInv'
<1> DEFINE c == [op |-> "publish", key |-> k, until |-> 0]
<1>1. /\ calls' = PutAt(calls, t, p, c) /\ UNCHANGED <<rec, watch, objects, erase, stale>>
      /\ rec[t].exec = k /\ <<t, k>> \in objects
  BY DEF PublishRead
<1>2. c.key = k
  OBVIOUS
<1> HIDE DEF c
<1>3. /\ calls'[t][p] = c
      /\ \A x \in Tasks, y \in Calls : x # t \/ y # p => calls'[x][y] = calls[x][y]
  BY <1>1 DEF PutAt, Context, TypeOK
<1>4. Publishing'
  BY <1>1, <1>2, <1>3 DEF ResultInv, Publishing
<1>5. \A x \in Tasks, y \in Epochs : WatchAt(x, y)' /\ StoreAt(x, y)'
  BY <1>1 DEF ResultInv, WatchAt, StoreAt, After, LateStays
<1>6. Erasing'
  BY <1>1 DEF ResultInv, Erasing
<1> QED
  BY <1>4, <1>5, <1>6 DEF ResultInv

\* The record that a publication writes names the running attempt.
LEMMA PublishCommitWrites ==
  ASSUME Context, Publishing, NEW t \in Tasks, NEW p \in Calls, PublishCommit(t, p)
  PROVE  /\ GoingOn /\ GoodResults' /\ OthersKept(t) /\ SameStages
         /\ rec'[t].result = rec[t].exec /\ rec[t].state = "running"
         /\ rec'[t].state = "running"
         /\ <<t, rec[t].exec>> \in objects
         /\ UNCHANGED <<objects, erase, failures>>
<1> DEFINE r == rec[t]
           q == [r EXCEPT !.result = calls[t][p].key]
<1>1. r \in JobRecord /\ GoodResult(r) /\ GoodRecord(r)
  BY RecordFields DEF Context, GoodResults, RecordInv
<1>2. /\ rec' = [rec EXCEPT ![t] = q]
      /\ UNCHANGED <<att, watch, slots, child, objects, erase, failures>>
      /\ calls[t][p].op = "publish" /\ <<t, p>> \notin stale
  BY DEF PublishCommit
<1>3. calls[t][p].key = r.exec /\ <<t, r.exec>> \in objects /\ r.state = "running"
  BY <1>2 DEF Publishing, Context, RecordInv, CallIsCurrent
<1>4. /\ q.state = r.state /\ q.exec = r.exec /\ q.epoch = r.epoch
      /\ q.result = r.exec /\ q.owned = r.owned /\ q.bound = r.bound
  BY <1>1, <1>3 DEF JobRecord
<1> HIDE DEF q
<1>5. rec'[t] = q /\ OthersKept(t)
  BY <1>2 DEF Context, TypeOK, OthersKept
<1>6. r.exec = r.epoch
  BY <1>1, <1>3 DEF GoodRecord, ProcessOwningStates
<1>7. GoodResult(q)
  BY <1>1, <1>3, <1>4, <1>6 DEF GoodResult
<1>8. Goes(r, q)
  <2>1. r.epoch <= r.epoch
    BY <1>1 DEF JobRecord
  <2> QED
    BY <1>4, <2>1 DEF Goes
<1>9. \A x \in Tasks : x # t => Goes(rec[x], rec'[x]) /\ GoodResult(rec'[x])
  <2>1. \A x \in Tasks : rec[x].epoch <= rec[x].epoch
    BY RecordFields DEF Context, JobRecord
  <2> QED
    BY <1>5, <2>1 DEF OthersKept, Goes, Context, GoodResults
<1> QED
  BY <1>2, <1>3, <1>4, <1>5, <1>7, <1>8, <1>9 DEF GoingOn, GoodResults, SameStages

LEMMA PublishCommitResults ==
  ASSUME Context, After, ResultInv, NEW t \in Tasks, NEW p \in Calls, PublishCommit(t, p)
  PROVE  ResultInv'
<1>1. /\ GoingOn /\ OthersKept(t) /\ UNCHANGED <<watch, objects, erase>>
      /\ rec'[t].result = rec[t].exec /\ rec[t].state = "running"
      /\ rec'[t].state = "running" /\ <<t, rec[t].exec>> \in objects
  BY PublishCommitWrites DEF ResultInv, SameStages
<1>2. PublishesNothing
  BY CallsPublishNothing DEF Context
<1>3. rec'[t].exec = rec[t].exec /\ rec'[t].owned = rec[t].owned
  BY <1>1 DEF GoingOn, Goes
<1>4. \A y \in Epochs : WatchAt(t, y)' /\ StoreAt(t, y)'
  BY <1>1, <1>3 DEF ResultInv, WatchAt, StoreAt, After, LateStays
<1>5. \A x \in Tasks, y \in Epochs : x # t => WatchAt(x, y)' /\ StoreAt(x, y)'
  BY <1>1 DEF ResultInv, WatchAt, StoreAt, OthersKept, After, LateStays
<1>6. Erasing'
  BY <1>1, ErasingKept DEF ResultInv, Context, After
<1>7. Publishing'
  BY <1>1, <1>2, PublishingKept DEF ResultInv, Context, After, GoingOn, Goes
<1> QED
  BY <1>4, <1>5, <1>6, <1>7 DEF ResultInv

\* The tombstone is written when no owned object is left.
LEMMA DeletionResults ==
  ASSUME Context, After, ResultInv, NEW t \in Tasks, CompleteDeletion(t)
  PROVE  ResultInv'
<1>1. /\ UNCHANGED <<watch, objects, calls>>
      /\ \A x \in Tasks : erase'[x] # "idle" => erase[x] # "idle"
  BY DEF CompleteDeletion, Context, TypeOK
<1>2. PublishesNothing
  BY CallsUnread DEF CompleteDeletion, Commit, NoCommit
<1>3. CASE Kept
  BY <1>1, <1>2, <1>3, KeptResults DEF Context, After
<1>4. CASE /\ OthersKept(t) /\ rec'[t].state = "deleted" /\ rec'[t].result = 0
           /\ objects \cap ({t} \X rec[t].owned) = {} /\ GoingOn
  <2>1. rec'[t].exec = rec[t].exec /\ rec'[t].owned = rec[t].owned
    BY <1>4 DEF GoingOn, Goes
  <2>2. \A y \in Epochs : <<t, y>> \notin objects /\ y # 0
    BY <1>4 DEF ResultInv, StoreAt, Epochs
  <2>3. \A y \in Epochs : WatchAt(t, y)' /\ StoreAt(t, y)'
    BY <1>1, <1>4, <2>1, <2>2 DEF ResultInv, WatchAt, StoreAt, After, LateStays
  <2>4. \A x \in Tasks, y \in Epochs : x # t => WatchAt(x, y)' /\ StoreAt(x, y)'
    BY <1>1, <1>4 DEF ResultInv, WatchAt, StoreAt, OthersKept, After, LateStays
  <2>5. Erasing'
    BY <1>1, ErasingKept DEF ResultInv, Context, After
  <2>6. Publishing'
    BY <1>1, <1>2, <1>4, PublishingKept DEF ResultInv, Context, After, GoingOn, Goes
  <2> QED
    BY <2>3, <2>4, <2>5, <2>6 DEF ResultInv
<1> QED
  BY <1>3, <1>4, CompleteDeletionKeeps DEF Context

\* Attempts begin without result ...
LEMMA StartResults ==
  ASSUME Context, After, ResultInv, NEW t \in Tasks, NEW e \in Epochs, Starts(t, e)
  PROVE  ResultInv'
<1>1. /\ Begun(rec[t], rec'[t], e) /\ OthersKept(t) /\ UNCHANGED <<watch, objects, erase, calls>>
      /\ watch[t][e].pc = "none"
  BY StartBegins DEF Context
<1>2. PublishesNothing
  BY StepsPublishNothing DEF Context, Starts, Execution, Rejection
<1>3. \A y \in Epochs : y # 0
  BY DEF Epochs
<1>4. \A y \in Epochs : WatchAt(t, y)' /\ StoreAt(t, y)'
  BY <1>1, <1>3 DEF ResultInv, WatchAt, StoreAt, Begun, After, LateStays
<1>5. \A x \in Tasks, y \in Epochs : x # t => WatchAt(x, y)' /\ StoreAt(x, y)'
  BY <1>1 DEF ResultInv, WatchAt, StoreAt, OthersKept, After, LateStays
<1>6. Erasing'
  BY <1>1, ErasingKept DEF ResultInv, Context, After
<1>7. Publishing'
  BY <1>1, <1>2, PublishingKept DEF ResultInv, Context, After, OthersKept, Begun
<1> QED
  BY <1>4, <1>5, <1>6, <1>7 DEF ResultInv

\* ... and end with the one they have published, if they succeed.
LEMMA EndedResults ==
  ASSUME Context, After, ResultInv, NEW t \in Tasks, NEW e \in Epochs,
         Ended(rec[t], rec'[t], e), OthersKept(t), PublishesNothing, UNCHANGED objects,
         \A x \in Tasks, y \in Epochs : x # t \/ y # e => watch'[x][y] = watch[x][y],
         \/ rec'[t].result = 0 /\ watch'[t][e] = watch[t][e] /\ watch[t][e].pc = "none"
         \/ /\ watch'[t][e].pc = "finalized"
            /\ watch'[t][e].drop => rec'[t].state # "succeeded"
            /\ watch'[t][e].deleting => rec'[t].state = "deleting",
         \A x \in Tasks :
           erase'[x] # "idle" => erase[x] # "idle" \/ rec'[x].state = "deleting"
  PROVE  ResultInv'
<1>1. e # 0 /\ \A y \in Epochs : y # 0
  BY DEF Epochs
<1>2. rec[t].exec = e /\ rec'[t].exec = 0 /\ rec'[t].owned = rec[t].owned
      /\ rec'[t].state # "deleted" /\ rec'[t].state # "running"
  BY <1>1 DEF Ended, After, RecordInv, GoodRecord, ProcessOwningStates
<1>3. rec[t].epoch = e /\ rec[t].state \in ProcessOwningStates
  BY <1>1, <1>2 DEF Context, RecordInv, GoodRecord
<1>4. rec'[t].result # 0 => /\ rec'[t].result = e /\ rec[t].result = e
                            /\ rec'[t].state = "succeeded"
  BY <1>3 DEF Ended, Context, GoodResults, GoodResult
<1>5. \A y \in Epochs : y # e => WatchAt(t, y)'
  <2> SUFFICES ASSUME NEW y \in Epochs, y # e PROVE WatchAt(t, y)'
    OBVIOUS
  <2>1. WatchAt(t, y) /\ rec[t].state \notin {"deleting", "deleted"}
    BY <1>3 DEF ResultInv, ProcessOwningStates
  <2> QED
    BY <1>1, <1>2, <1>4, <2>1 DEF WatchAt
<1>6. WatchAt(t, e)'
  <2>1. WatchAt(t, e) /\ rec[t].state \notin {"deleting", "deleted"}
    BY <1>3 DEF ResultInv, ProcessOwningStates
  <2> QED
    BY <1>1, <1>2, <1>4, <2>1 DEF WatchAt
<1>7. \A y \in Epochs : StoreAt(t, y)'
  BY <1>1, <1>2, <1>4 DEF ResultInv, StoreAt
<1>8. \A x \in Tasks, y \in Epochs : x # t => WatchAt(x, y)' /\ StoreAt(x, y)'
  BY DEF ResultInv, WatchAt, StoreAt, OthersKept, After, LateStays
<1>9. Erasing'
  BY ErasingKept DEF ResultInv, Context, After
<1>10. Publishing'
  BY <1>2, PublishingKept DEF ResultInv, Context, After, OthersKept
<1> QED
  BY <1>5, <1>6, <1>7, <1>8, <1>9, <1>10 DEF ResultInv

LEMMA FinalizeResults ==
  ASSUME Context, After, ResultInv, NEW t \in Tasks, NEW e \in Epochs, Finalize(t, e)
  PROVE  ResultInv'
<1>1. /\ OthersKept(t) /\ Ended(rec[t], rec'[t], e) /\ UNCHANGED <<objects, erase>>
      /\ watch'[t][e].pc = "finalized"
      /\ watch'[t][e].drop <=> rec'[t].state # "succeeded"
      /\ watch'[t][e].deleting <=> rec'[t].state = "deleting"
      /\ \A x \in Tasks, y \in Epochs : x # t \/ y # e => watch'[x][y] = watch[x][y]
  BY FinalizeEnds DEF Context
<1>2. PublishesNothing
  BY StepsPublishNothing DEF Context, Execution
<1> QED
  BY <1>1, <1>2, EndedResults

LEMMA StartFailedResults ==
  ASSUME Context, After, ResultInv, NEW t \in Tasks, NEW e \in Epochs, StartFailed(t, e)
  PROVE  ResultInv'
<1>1. /\ OthersKept(t) /\ UNCHANGED <<watch, objects>> /\ att[t][e].pc = "startFailed"
      /\ Kept \/ (Ended(rec[t], rec'[t], e) /\ rec'[t].result = 0)
      /\ erase' = erase \/ (rec'[t].state = "deleting" /\ StartErase(t))
  BY StartFailedEnds DEF Context
<1>2. PublishesNothing
  BY StepsPublishNothing DEF Context, Execution
<1>3. watch[t][e].pc = "none"
  BY <1>1 DEF Context, StageInv, Stage
<1>4. \A x \in Tasks : erase'[x] # "idle" => erase[x] # "idle" \/ rec'[x].state = "deleting"
  BY <1>1 DEF StartErase, Context, TypeOK
<1>5. CASE Kept
  BY <1>1, <1>2, <1>4, <1>5, KeptResults DEF Context, After
<1>6. CASE Ended(rec[t], rec'[t], e) /\ rec'[t].result = 0
  BY <1>1, <1>2, <1>3, <1>4, <1>6, EndedResults
<1> QED
  BY <1>1, <1>5, <1>6

-----------------------------------------------------------------------------
(* Every step keeps the three invariants. *)

LEMMA TaskContext ==
  ASSUME Context, After, ResultInv, NEW t \in Tasks,
         Requested(t) \/ Continuation(t) \/ Sweep(t) \/ EraseRejected(t)
  PROVE  StageInv' /\ GoodResults' /\ ResultInv'
<1>1. CASE \/ \E q \in Requests : Create(t, q)
           \/ \E d \in LeaseDurations : Claim(t, d)
           \/ Cancel(t) \/ DeleteIdle(t) \/ DeleteOwning(t) \/ DeleteAgain(t) \/ Sweep(t)
  <2>1. Kept /\ SameStages
    <3>1. CASE DeleteAgain(t)
      BY <3>1, UntouchedKeeps DEF Untouched, Context
    <3> QED
      BY <1>1, <3>1, CreateKeeps, ClaimKeeps, CancelKeeps, DeleteIdleKeeps, DeleteOwningKeeps,
         SweepKeeps DEF Context
  <2> QED
    BY <1>1, <2>1, KeptGoesOn, KeptStages, RequestsKeepResults DEF Context, After
<1>2. CASE EraseRejected(t) \/ \E p \in Calls : HeartbeatCommit(t, p) \/ CallOvertaken(t, p)
  <2>1. Kept /\ SameStages
    BY <1>2, HeartbeatKeeps, UntouchedKeeps DEF Untouched, Context
  <2> QED
    BY <1>2, <2>1, KeptGoesOn, KeptStages, CallResults DEF Context, After
<1>3. ASSUME NEW p \in Calls, NEW e \in Epochs, NEW d \in LeaseDurations,
             HeartbeatRead(t, p, e, d)
      PROVE  StageInv' /\ GoodResults' /\ ResultInv'
  <2>1. Kept /\ SameStages
    BY <1>3, UntouchedKeeps DEF Untouched, Context
  <2> QED
    BY <1>3, <2>1, KeptGoesOn, KeptStages, SteadyResults DEF Context, After
<1>4. ASSUME NEW p \in Calls, NEW e \in Epochs, NEW k \in Epochs, PublishRead(t, p, e, k)
      PROVE  StageInv' /\ GoodResults' /\ ResultInv'
  <2>1. Kept /\ SameStages
    BY <1>4, UntouchedKeeps DEF Untouched, Context
  <2> QED
    BY <1>4, <2>1, KeptGoesOn, KeptStages, PublishReadResults DEF Context, After
<1>5. ASSUME NEW p \in Calls, PublishCommit(t, p)
      PROVE  StageInv' /\ GoodResults' /\ ResultInv'
  <2>1. GoingOn /\ GoodResults' /\ SameStages
    BY <1>5, PublishCommitWrites DEF ResultInv
  <2> QED
    BY <1>5, <2>1, KeptStages, PublishCommitResults DEF Context, After
<1>6. CASE EraseObjects(t)
  <2>1. Kept /\ SameStages
    BY <1>6, UntouchedKeeps DEF Untouched, Context
  <2> QED
    BY <1>6, <2>1, KeptGoesOn, KeptStages, EraseResults DEF Context, After
<1>7. CASE CompleteDeletion(t)
  <2>1. GoingOn /\ GoodResults' /\ SameStages
    BY <1>7, CompleteDeletionKeeps DEF Context
  <2> QED
    BY <1>7, <2>1, KeptStages, DeletionResults DEF Context, After
<1> QED
  BY <1>1, <1>2, <1>3, <1>4, <1>5, <1>6, <1>7 DEF Requested, Continuation

LEMMA AttemptContext ==
  ASSUME Context, After, ResultInv, NEW t \in Tasks, NEW e \in Epochs,
         \/ Execution(t, e) \/ Supervisor(t, e) \/ Rejection(t, e)
         \/ FinalizeReply(t, e) \/ WatchRejected(t, e)
  PROVE  StageInv' /\ GoodResults' /\ ResultInv'
<1>0. TypeOK /\ TypeOK' /\ ProcessInv /\ RecordInv /\ RecordInv' /\ StageInv /\ GoodResults
  BY DEF Context, After
<1>1. CASE SpawnResolves(t, e) \/ SpawnRejects(t, e) \/ ChildExits(t, e)
  BY <1>0, <1>1, SupervisorStages, KeptGoesOn, SteadyResults
<1>2. CASE PutResult(t, e)
  <2>1. Kept /\ SameStages
    BY <1>0, <1>2, UntouchedKeeps DEF Untouched
  <2> QED
    BY <1>0, <1>2, <2>1, KeptGoesOn, KeptStages, PutResults
<1>14. CASE LatePut(t, e)
  BY <1>0, <1>14, LatePutKeeps, KeptGoesOn, KeptStages, LatePutResults
<1>3. CASE LaunchDeadline(t, e) \/ LaunchRejected(t, e)
  BY <1>0, <1>3, LaunchStages, KeptGoesOn, SteadyResults
<1>4. CASE Launched(t, e) \/ LateLaunched(t, e)
  BY <1>0, <1>4, LaunchStages, KeptGoesOn, WatchResults
<1>5. CASE FinalizeReply(t, e) \/ WatchRejected(t, e)
  BY <1>0, <1>5, WatchStages, KeptGoesOn, WatchResults
<1>6. CASE Cleanup(t, e)
  BY <1>0, <1>6, WatchStages, KeptGoesOn, CleanupResults
<1>7. CASE ExecuteReserve(t, e)
  BY <1>0, <1>7, ReserveStages, KeptGoesOn, SteadyResults
<1>8. CASE ExecuteOvertaken(t, e) \/ AttemptRejected(t, e)
  BY <1>0, <1>8, GiveUpStages, KeptGoesOn, SteadyResults
<1>9. CASE ExecuteCommit(t, e) \/ StartReplyLost(t, e)
  BY <1>0, <1>9, StartBegins, StartStages, StartResults DEF Starts
<1>10. CASE MarkLaunchTimedOut(t, e)
  BY <1>0, <1>10, LaunchTimedOutKeeps, LaunchTimedOutStages, KeptGoesOn, SteadyResults
<1>11. CASE BindStarted(t, e)
  BY <1>0, <1>11, BindKeeps, BindStages, KeptGoesOn, SteadyResults
<1>12. CASE StartFailed(t, e)
  BY <1>0, <1>12, StartFailedEnds, StartFailedStages, StartFailedResults
<1>13. CASE Finalize(t, e)
  BY <1>0, <1>13, FinalizeEnds, FinalizeStages, FinalizeResults
<1> QED
  BY <1>1, <1>2, <1>3, <1>4, <1>5, <1>6, <1>7, <1>8, <1>9, <1>10, <1>11, <1>12, <1>13, <1>14
     DEF Execution, Supervisor, Rejection

LEMMA NextContext ==
  ASSUME Context, TypeOK', ResultInv, [Next]_vars
  PROVE  Context' /\ ResultInv'
<1>1. ProcessInv' /\ After
  BY NextProcess, NextWrites, NextStayLate DEF Context, After
<1>2. ASSUME UNCHANGED vars \/ Tick
      PROVE  StageInv' /\ GoodResults' /\ ResultInv'
  <2>1. UNCHANGED <<rec, att, child, watch, objects, erase, calls, stale>>
    BY <1>2 DEF vars, Tick
  <2> QED
    BY <2>1, UnseenStep
<1>3. ASSUME NEW t \in Tasks, Requested(t) \/ Continuation(t) \/ Sweep(t) \/ EraseRejected(t)
      PROVE  StageInv' /\ GoodResults' /\ ResultInv'
  BY <1>1, <1>3, TaskContext
<1>4. ASSUME NEW t \in Tasks, NEW e \in Epochs,
             \/ Execution(t, e) \/ Supervisor(t, e) \/ Rejection(t, e)
             \/ FinalizeReply(t, e) \/ WatchRejected(t, e)
      PROVE  StageInv' /\ GoodResults' /\ ResultInv'
  BY <1>1, <1>4, AttemptContext
<1>5. StageInv' /\ GoodResults' /\ ResultInv'
  BY <1>2, <1>3, <1>4 DEF Next, Step
<1> QED
  BY <1>1, <1>5 DEF Context, After

LEMMA InitContext ==
  ASSUME Init
  PROVE  Context /\ ResultInv
<1>1. TypeOK /\ ProcessInv /\ RecordInv
  BY InitType, InitProcess, InitRecords
<1>2. \A t \in Tasks : GoodResult(rec[t])
  BY DEF Init, NoRecord, GoodResult
<1>3. \A t \in Tasks, e \in Epochs : Stage(t, e)
  BY DEF Init, Stage, NoChild, NoAttempt, NoWatch
<1>4. \A t \in Tasks, e \in Epochs : WatchAt(t, e) /\ StoreAt(t, e)
  BY DEF Init, WatchAt, StoreAt, NoRecord, NoWatch, Epochs
<1>5. Erasing /\ Publishing
  BY DEF Init, Erasing, Publishing, NoCall
<1> QED
  BY <1>1, <1>2, <1>3, <1>4, <1>5 DEF Context, StageInv, GoodResults, ResultInv

LEMMA ContextInvariant == Spec => [](Context /\ ResultInv)
<1>1. Context /\ ResultInv /\ TypeOK' /\ [Next]_vars => Context' /\ ResultInv'
  BY NextContext
<1> QED
  BY <1>1, InitContext, TypeCorrect, PTL DEF Spec

\* Records and result objects agree: a published result belongs to the latest
\* lease epoch and its object is in the store as long as the record names it, a
\* succeeded job has one, and every object, put in time or after the end of its
\* child, is one of an attempt that the record owns.  A deleted job has no
\* process, and no object but those that landed after the end of their child.
THEOREM ResultsMatch == Spec => []ResultsMatchRecords
<1>1. Context /\ ResultInv => ResultsMatchRecords
  <2> SUFFICES ASSUME Context, ResultInv, NEW t \in Tasks
               PROVE  /\ rec[t].result # 0 =>
                           rec[t].result = rec[t].epoch /\ <<t, rec[t].result>> \in objects
                      /\ rec[t].state = "succeeded" => rec[t].result # 0
                      /\ \A e \in Epochs :
                           /\ <<t, e>> \in objects => e \in rec[t].owned
                           /\ rec[t].state = "deleted" =>
                                ~Live(t, e) /\ (<<t, e>> \in objects => child[t][e].late)
    BY DEF ResultsMatchRecords
  <2>1. rec[t].result # 0 => rec[t].result \in Epochs
    BY CoreAssumption, RecordFields DEF Context, JobRecord, Epochs, CoreAssumption
  <2>2. rec[t].result # 0 => <<t, rec[t].result>> \in objects
    BY <2>1 DEF ResultInv, StoreAt
  <2>3. /\ rec[t].result # 0 => rec[t].result = rec[t].epoch
        /\ rec[t].state = "succeeded" => rec[t].result # 0
    BY DEF Context, GoodResults, GoodResult
  <2>4. \A e \in Epochs : rec[t].state = "deleted" => ~Live(t, e)
    BY DEF Context, ProcessInv, LiveChildIsCurrentAttempt, ProcessOwningStates
  <2>5. \A e \in Epochs :
          /\ <<t, e>> \in objects => e \in rec[t].owned
          /\ rec[t].state = "deleted" => (<<t, e>> \in objects => child[t][e].late)
    BY DEF ResultInv, StoreAt
  <2> QED
    BY <2>2, <2>3, <2>4, <2>5
<1> QED
  BY <1>1, ContextInvariant, PTL

-----------------------------------------------------------------------------
(* Slots *)

Held(t, e) == slots[t].id # 0 /\ slots[t].id = att[t][e].slot

\* A task without live child and without reservation: nobody relies on its slot.
Vacant(t) == \A f \in Epochs : ~Live(t, f) /\ att[t][f].pc # "reserved"

\* The slot of attempt e: held while its child lives or its start is due, and
\* bound to its child only while the attempt is the record's.
SlotAt(t, e) ==
  /\ Live(t, e) => Held(t, e)
  /\ att[t][e].pc = "reserved" => Held(t, e) /\ (failures = 0 => slots[t].child = 0)
  /\ watch[t][e].pc = "finalized" => Vacant(t)
  /\ slots[t].child = e =>
       /\ child[t][e].st \in {"alive", "exited"} /\ slots[t].id = att[t][e].slot
       /\ failures = 0 => rec[t].exec = e \/ watch[t][e].pc = "finalized"
  /\ att[t][e].pc = "startFailed" => child[t][e].st = "rejected"

SlotInv == \A t \in Tasks, e \in Epochs : SlotAt(t, e)

\* No handler of a termination waits for the reply to its write.
Answered == \A t \in Tasks, e \in Epochs : watch[t][e].pc # "finalized"

LEMMA NothingLive ==
  ASSUME Context, NEW t \in Tasks, rec[t].exec = 0
  PROVE  \A f \in Epochs : ~Live(t, f)
BY DEF Context, ProcessInv, LiveChildIsCurrentAttempt, Epochs

LEMMA OnlyLive ==
  ASSUME Context, NEW t \in Tasks, NEW e \in Epochs, NEW f \in Epochs, rec[t].exec = e, f # e
  PROVE  ~Live(t, f) /\ att[t][f].pc # "reserved" /\ att[t][e].pc # "reserved"
<1>1. rec[t].exec # 0
  BY DEF Epochs
<1> QED
  BY <1>1 DEF Context, ProcessInv, LiveChildIsCurrentAttempt, StageInv, Stage

\* Failures are counted.
LEMMA FailuresCount ==
  ASSUME TypeOK, [Next]_vars
  PROVE  failures' = 0 => failures = 0
<1>1. Fail => failures' # 0
  BY CoreAssumption DEF Fail, TypeOK, CoreAssumption
<1>2. ASSUME NEW t \in Tasks, NEW r, RequestTermination(t, r)
      PROVE  failures' = 0 => failures = 0
  BY <1>1, <1>2 DEF RequestTermination
<1>3. ASSUME NEW t \in Tasks, Requested(t) PROVE failures' = 0 => failures = 0
  BY <1>2, <1>3 DEF Requested, Create, Claim, Cancel, DeleteIdle, DeleteOwning, DeleteAgain,
     HeartbeatRead, PublishRead
<1>4. ASSUME NEW t \in Tasks, Continuation(t) \/ EraseRejected(t)
      PROVE  failures' = 0 => failures = 0
  BY <1>1, <1>4 DEF Continuation, EraseObjects, CompleteDeletion, HeartbeatCommit, PublishCommit,
     CallOvertaken, EraseRejected
<1>5. ASSUME NEW t \in Tasks, Sweep(t) PROVE failures' = 0 => failures = 0
  BY <1>2, <1>5 DEF Sweep, SweepCancelling, SweepOwning, SweepIdle
<1>6. ASSUME NEW t \in Tasks, NEW e \in Epochs, Execution(t, e)
      PROVE  failures' = 0 => failures = 0
  BY <1>2, <1>6 DEF Execution, ExecuteReserve, ExecuteCommit, ExecuteOvertaken, LaunchDeadline,
     MarkLaunchTimedOut, Launched, LateLaunched, LaunchRejected, StartFailed, BindStarted,
     Finalize, Cleanup
<1>7. ASSUME NEW t \in Tasks, NEW e \in Epochs,
             Supervisor(t, e) \/ Rejection(t, e) \/ FinalizeReply(t, e) \/ WatchRejected(t, e)
      PROVE  failures' = 0 => failures = 0
  BY <1>1, <1>7 DEF Supervisor, SpawnResolves, SpawnRejects, PutResult, ChildExits, LatePut, Rejection,
     AttemptRejected, StartReplyLost, FinalizeReply, WatchRejected
<1>8. CASE Tick \/ UNCHANGED vars
  BY <1>8 DEF Tick, vars
<1> QED
  BY <1>3, <1>4, <1>5, <1>6, <1>7, <1>8 DEF Next, Step

\* A step that keeps the slot of e, its attempt's stage, its child's stage and
\* its claim on the record keeps its hold.
LEMMA SlotAtKept ==
  ASSUME Answered, NEW t \in Tasks, NEW e \in Epochs, SlotAt(t, e),
         failures' = 0 => failures = 0,
         slots'[t] = slots[t], att'[t][e] = att[t][e], child'[t][e].st = child[t][e].st,
         watch'[t][e] = watch[t][e], rec'[t].exec = rec[t].exec
  PROVE  SlotAt(t, e)'
BY DEF Answered, SlotAt, Live, Held

LEMMA SlotsKept ==
  ASSUME Answered, SlotInv, SameStages, GoingOn, failures' = 0 => failures = 0
  PROVE  SlotInv'
<1> SUFFICES ASSUME NEW t \in Tasks, NEW e \in Epochs PROVE SlotAt(t, e)'
  BY DEF SlotInv
<1>1. /\ slots'[t] = slots[t] /\ att'[t][e] = att[t][e] /\ child'[t][e].st = child[t][e].st
      /\ watch'[t][e] = watch[t][e] /\ rec'[t].exec = rec[t].exec
  BY DEF SameStages, GoingOn, Goes
<1> QED
  BY <1>1, SlotAtKept DEF SlotInv

\* A step of attempt e of task t.
LEMMA SlotStep ==
  ASSUME Answered, SlotInv, failures' = 0 => failures = 0,
         NEW t \in Tasks, NEW e \in Epochs, OnlyAttempt(t, e),
         \A x \in Tasks : x # t => slots'[x] = slots[x] /\ rec'[x].exec = rec[x].exec,
         \A f \in Epochs : SlotAt(t, f)'
  PROVE  SlotInv'
<1> SUFFICES ASSUME NEW x \in Tasks, NEW f \in Epochs, x # t PROVE SlotAt(x, f)'
  BY DEF SlotInv
<1>1. /\ slots'[x] = slots[x] /\ att'[x][f] = att[x][f] /\ child'[x][f].st = child[x][f].st
      /\ watch'[x][f] = watch[x][f] /\ rec'[x].exec = rec[x].exec
  BY DEF OnlyAttempt
<1> QED
  BY <1>1, SlotAtKept DEF SlotInv

\* Such a step that leaves the slots and the claims on records alone.
LEMMA OwnSlotStep ==
  ASSUME Answered, SlotInv, failures' = 0 => failures = 0, UNCHANGED slots, GoingOn,
         NEW t \in Tasks, NEW e \in Epochs, OnlyAttempt(t, e), SlotAt(t, e)'
  PROVE  SlotInv'
<1>1. \A x \in Tasks : slots'[x] = slots[x] /\ rec'[x].exec = rec[x].exec
  BY DEF GoingOn, Goes
<1>2. ASSUME NEW f \in Epochs, f # e PROVE SlotAt(t, f)'
  <2>1. /\ slots'[t] = slots[t] /\ att'[t][f] = att[t][f] /\ child'[t][f].st = child[t][f].st
        /\ watch'[t][f] = watch[t][f] /\ rec'[t].exec = rec[t].exec
    BY <1>1, <1>2 DEF OnlyAttempt
  <2> QED
    BY <2>1, SlotAtKept DEF SlotInv
<1> QED
  BY <1>1, <1>2, SlotStep

LEMMA SupervisorSlots ==
  ASSUME Context, Answered, SlotInv, failures' = 0 => failures = 0,
         NEW t \in Tasks, NEW e \in Epochs,
         SpawnResolves(t, e) \/ SpawnRejects(t, e) \/ ChildExits(t, e)
  PROVE  SlotInv'
<1>1. UNCHANGED <<rec, att, watch, slots, failures>> /\ GoingOn /\ TypeOK
  BY NothingWritten, KeptGoesOn DEF Context, SpawnResolves, SpawnRejects, ChildExits
<1>2. SlotAt(t, e) /\ watch[t][e].pc # "finalized" /\ Stage(t, e)
  BY DEF SlotInv, Answered, Context, StageInv
<1>3. CASE SpawnResolves(t, e)
  <2>0. SetChild(t, e, "alive") /\ child[t][e].st = "spawning"
    BY <1>3 DEF SpawnResolves, SetChild
  <2>1. child'[t][e].st = "alive" /\ OnlyAttempt(t, e)
    BY <1>1, <2>0, ChildSet DEF OnlyAttempt
  <2>2. SlotAt(t, e)'
    BY <1>1, <1>2, <2>0, <2>1 DEF SlotAt, Live, Held
  <2> QED
    BY <1>1, <2>1, <2>2, OwnSlotStep
<1>4. CASE SpawnRejects(t, e)
  <2>0. SetChild(t, e, "rejected") /\ child[t][e].st = "spawning"
    BY <1>4 DEF SpawnRejects, SetChild
  <2>1. child'[t][e].st = "rejected" /\ OnlyAttempt(t, e)
    BY <1>1, <2>0, ChildSet DEF OnlyAttempt
  <2>2. SlotAt(t, e)'
    BY <1>1, <1>2, <2>0, <2>1 DEF SlotAt, Live, Held
  <2> QED
    BY <1>1, <2>1, <2>2, OwnSlotStep
<1>5. CASE ChildExits(t, e)
  <2>0. child[t][e].st = "alive"
    BY <1>5 DEF ChildExits
  <2>1. child'[t][e].st = "exited" /\ OnlyAttempt(t, e)
    BY <1>1, <1>5, ChildExited DEF OnlyAttempt
  <2>2. SlotAt(t, e)'
    BY <1>1, <1>2, <2>0, <2>1 DEF SlotAt, Live, Held
  <2> QED
    BY <1>1, <2>1, <2>2, OwnSlotStep
<1> QED
  BY <1>3, <1>4, <1>5

LEMMA DeadlineSlots ==
  ASSUME Context, Answered, SlotInv, failures' = 0 => failures = 0,
         NEW t \in Tasks, NEW e \in Epochs,
         \/ LaunchDeadline(t, e) \/ MarkLaunchTimedOut(t, e) \/ BindStarted(t, e) \/ Cleanup(t, e)
         \/ AttemptRejected(t, e)
  PROVE  SlotInv'
<1>0. SlotAt(t, e) /\ watch[t][e].pc # "finalized" /\ Stage(t, e) /\ TypeOK /\ GoodResults
  BY DEF SlotInv, Answered, Context, StageInv
<1>1. CASE LaunchDeadline(t, e)
  <2>1. UNCHANGED <<rec, slots, child, watch>> /\ SetAttempt(t, e, "deadline")
    BY <1>1 DEF LaunchDeadline
  <2>2. OnlyAttempt(t, e) /\ att'[t][e].pc = "deadline" /\ att'[t][e].slot = att[t][e].slot
    BY <1>0, <2>1, AttemptSet DEF OnlyAttempt
  <2>3. SlotAt(t, e)'
    BY <1>0, <2>1, <2>2 DEF SlotAt, Live, Held
  <2> QED
    BY <1>0, <2>1, <2>2, <2>3, NothingWritten, KeptGoesOn, OwnSlotStep
<1>2. CASE MarkLaunchTimedOut(t, e)
  <2>1. /\ Kept /\ att'[t][e].pc = "late" /\ att'[t][e].slot = att[t][e].slot
        /\ OnlyAttempt(t, e) /\ UNCHANGED <<slots, child, watch>>
    BY <1>0, <1>2, LaunchTimedOutKeeps DEF OnlyAttempt
  <2>2. GoingOn /\ rec'[t].exec = rec[t].exec
    BY <2>1, KeptGoesOn DEF GoingOn, Goes
  <2>3. SlotAt(t, e)'
    BY <1>0, <2>1, <2>2 DEF SlotAt, Live, Held
  <2> QED
    BY <2>1, <2>2, <2>3, OwnSlotStep
<1>3. CASE BindStarted(t, e)
  <2>1. /\ Kept /\ att'[t][e].pc = "done" /\ att'[t][e].slot = att[t][e].slot
        /\ OnlyAttempt(t, e) /\ UNCHANGED <<slots, watch>>
        /\ child'[t][e].st = child[t][e].st
    BY <1>0, <1>3, BindKeeps DEF OnlyAttempt
  <2>2. GoingOn /\ rec'[t].exec = rec[t].exec
    BY <2>1, KeptGoesOn DEF GoingOn, Goes
  <2>3. SlotAt(t, e)'
    BY <1>0, <2>1, <2>2 DEF SlotAt, Live, Held
  <2> QED
    BY <2>1, <2>2, <2>3, OwnSlotStep
<1>4. CASE Cleanup(t, e)
  <2>1. UNCHANGED <<rec, slots, child, att>> /\ watch' = PutAt(watch, t, e, WatchDone)
    BY <1>4 DEF Cleanup
  <2>2. OnlyAttempt(t, e) /\ watch'[t][e].pc = "done"
    BY <1>0, <2>1, WatchEnded DEF OnlyAttempt
  <2>3. SlotAt(t, e)'
    BY <1>0, <2>1, <2>2 DEF SlotAt, Live, Held
  <2> QED
    BY <1>0, <2>1, <2>2, <2>3, NothingWritten, KeptGoesOn, OwnSlotStep
<1>5. CASE AttemptRejected(t, e)
  <2>1. /\ UNCHANGED <<rec, slots, watch>> /\ SetAttempt(t, e, "done")
        /\ UNCHANGED child \/ child' = AskChild(t, e)
    BY <1>5 DEF AttemptRejected
  <2>2. /\ att'[t][e].pc = "done" /\ att'[t][e].slot = att[t][e].slot
        /\ \A x \in Tasks, y \in Epochs : x # t \/ y # e => att'[x][y] = att[x][y]
    BY <1>0, <2>1, AttemptSet
  <2>3. /\ child'[t][e].st = child[t][e].st
        /\ \A x \in Tasks, y \in Epochs : x # t \/ y # e => child'[x][y] = child[x][y]
    BY <1>0, <2>1, ChildAskedStage
  <2>4. OnlyAttempt(t, e)
    BY <2>1, <2>2, <2>3 DEF OnlyAttempt
  <2>5. SlotAt(t, e)'
    BY <1>0, <2>1, <2>2, <2>3 DEF SlotAt, Live, Held
  <2> QED
    BY <1>0, <2>1, <2>4, <2>5, NothingWritten, KeptGoesOn, OwnSlotStep
<1> QED
  BY <1>1, <1>2, <1>3, <1>4, <1>5

LEMMA SlotSet ==
  ASSUME TypeOK, NEW t \in Tasks, NEW s, slots' = [slots EXCEPT ![t] = s]
  PROVE  slots'[t] = s /\ \A x \in Tasks : x # t => slots'[x] = slots[x]
BY DEF TypeOK

\* The child is bound to its slot.
LEMMA LaunchedSlots ==
  ASSUME Context, Answered, SlotInv, failures' = 0 => failures = 0,
         NEW t \in Tasks, NEW e \in Epochs, Launched(t, e) \/ LateLaunched(t, e)
  PROVE  SlotInv'
<1>0. SlotAt(t, e) /\ watch[t][e].pc # "finalized" /\ Stage(t, e) /\ TypeOK /\ GoodResults
  BY DEF SlotInv, Answered, Context, StageInv
<1>1. /\ UNCHANGED <<rec, child, failures>> /\ rec[t].exec = e
      /\ child[t][e].st \in {"alive", "exited"}
      /\ UNCHANGED watch \/ SetWatch(t, e, "tracked")
      /\ SetAttempt(t, e, "binding") \/ SetAttempt(t, e, "done")
      /\ UNCHANGED slots \/ (CanBindChild(t, att[t][e].slot, e) /\ BindChild(t, e))
  BY <1>0 DEF Launched, LateLaunched, Stage
<1>2. /\ att'[t][e].pc \in {"binding", "done"} /\ att'[t][e].slot = att[t][e].slot
      /\ \A x \in Tasks, y \in Epochs : x # t \/ y # e => att'[x][y] = att[x][y]
  BY <1>0, <1>1, AttemptSet
<1>3. /\ watch'[t][e].pc # "finalized"
      /\ \A x \in Tasks, y \in Epochs : x # t \/ y # e => watch'[x][y] = watch[x][y]
  BY <1>0, <1>1, WatchSet
<1>4. OnlyAttempt(t, e)
  BY <1>1, <1>2, <1>3 DEF OnlyAttempt
<1>5. CASE UNCHANGED slots
  <2>1. SlotAt(t, e)'
    BY <1>0, <1>1, <1>2, <1>3, <1>5 DEF SlotAt, Live, Held
  <2> QED
    BY <1>0, <1>1, <1>4, <1>5, <2>1, NothingWritten, KeptGoesOn, OwnSlotStep
<1>6. CASE CanBindChild(t, att[t][e].slot, e) /\ BindChild(t, e)
  <2> DEFINE s == [slots[t] EXCEPT !.child = e]
  <2>1. s.child = e /\ s.id = slots[t].id
    BY <1>0 DEF TypeOK, Slot
  <2>2. slots' = [slots EXCEPT ![t] = s] /\ slots[t].id = att[t][e].slot
    BY <1>6 DEF BindChild, CanBindChild
  <2> HIDE DEF s
  <2>3. /\ slots'[t].child = e /\ slots'[t].id = slots[t].id
        /\ \A x \in Tasks : x # t => slots'[x] = slots[x]
    BY <1>0, <2>1, <2>2, SlotSet
  <2>4. SlotAt(t, e)'
    BY <1>0, <1>1, <1>2, <1>3, <2>2, <2>3 DEF SlotAt, Live, Held
  <2>5. ASSUME NEW f \in Epochs, f # e PROVE SlotAt(t, f)'
    <3>1. att'[t][f] = att[t][f] /\ watch'[t][f] = watch[t][f] /\ child' = child
      BY <1>1, <1>2, <1>3, <2>5
    <3>2. ~Live(t, f) /\ att[t][f].pc # "reserved"
      BY <1>1, <2>5, OnlyLive
    <3>3. SlotAt(t, f) /\ watch[t][f].pc # "finalized"
      BY DEF SlotInv, Answered
    <3> QED
      BY <2>3, <2>5, <3>1, <3>2, <3>3 DEF SlotAt, Live, Held
  <2> QED
    BY <1>1, <1>4, <2>3, <2>4, <2>5, SlotStep
<1> QED
  BY <1>1, <1>5, <1>6

\* A step of attempt e that keeps or gives back a slot nobody relies on.
LEMMA VacantSlots ==
  ASSUME Answered, SlotInv, failures' = 0 => failures = 0,
         NEW t \in Tasks, NEW e \in Epochs, OnlyAttempt(t, e),
         \A x \in Tasks : x # t => slots'[x] = slots[x] /\ rec'[x].exec = rec[x].exec,
         Vacant(t)', slots'[t] = slots[t] \/ slots'[t].child = 0,
         child'[t][e].st = child[t][e].st,
         slots[t].child = e => att'[t][e].slot = att[t][e].slot,
         att'[t][e].pc = "startFailed" => child[t][e].st = "rejected",
         \A f \in Epochs :
           failures' = 0 /\ slots[t].child = f => rec'[t].exec = f \/ watch'[t][f].pc = "finalized"
  PROVE  SlotInv'
<1> SUFFICES ASSUME NEW f \in Epochs PROVE SlotAt(t, f)'
  BY SlotStep
<1>1. SlotAt(t, f) /\ watch[t][f].pc # "finalized" /\ f # 0
  BY DEF SlotInv, Answered, Epochs
<1>2. ~Live(t, f)' /\ att'[t][f].pc # "reserved"
  BY DEF Vacant
<1>3. /\ child'[t][f].st = child[t][f].st
      /\ slots[t].child = f => att'[t][f].slot = att[t][f].slot
      /\ att'[t][f].pc = "startFailed" => child[t][f].st = "rejected"
  BY <1>1 DEF OnlyAttempt, SlotAt
<1>4. slots'[t].child = f => slots'[t] = slots[t]
  BY <1>1
<1>5. slots'[t].child = f =>
        /\ child'[t][f].st \in {"alive", "exited"} /\ slots'[t].id = att'[t][f].slot
        /\ failures' = 0 => rec'[t].exec = f \/ watch'[t][f].pc = "finalized"
  BY <1>1, <1>3, <1>4 DEF SlotAt
<1> QED
  BY <1>2, <1>3, <1>5 DEF SlotAt

LEMMA Unstarted ==
  ASSUME TypeOK, NEW t \in Tasks, NEW id, ReleaseUnstarted(t, id)
  PROVE  /\ slots'[t] = slots[t] \/ slots'[t].child = 0
         /\ \A x \in Tasks : x # t => slots'[x] = slots[x]
<1> DEFINE s == IF slots[t].id = id /\ slots[t].child = 0 THEN NoSlot ELSE slots[t]
<1>1. slots' = [slots EXCEPT ![t] = s]
  BY DEF ReleaseUnstarted
<1>2. s = slots[t] \/ s.child = 0
  BY DEF NoSlot
<1> HIDE DEF s
<1> QED
  BY <1>1, <1>2, SlotSet

LEMMA EndingSlots ==
  ASSUME Context, Answered, SlotInv, failures' = 0 => failures = 0,
         NEW t \in Tasks, NEW e \in Epochs,
         LaunchRejected(t, e) \/ StartFailed(t, e) \/ Finalize(t, e)
  PROVE  SlotInv'
<1>0. /\ SlotAt(t, e) /\ watch[t][e].pc # "finalized" /\ Stage(t, e) /\ TypeOK /\ GoodResults
      /\ RecordInv /\ ProcessInv /\ StageInv
  BY DEF SlotInv, Answered, Context, StageInv
<1>1. /\ rec[t].exec = e /\ child[t][e].st \in {"rejected", "exited"} /\ UNCHANGED child
      /\ child[t][e].st = "rejected" \/ Finalize(t, e)
      /\ att[t][e].pc # "reserved"
  <2>1. e # 0
    BY DEF Epochs
  <2> QED
    BY <1>0, <2>1 DEF Stage, SlotAt, LaunchRejected, StartFailed, Finalize
<1>2. \A f \in Epochs :
        f # e => ~Live(t, f) /\ att[t][f].pc # "reserved"
  BY <1>1, OnlyLive
<1>3. \A f \in Epochs :
        failures = 0 /\ slots[t].child = f => f = e /\ child[t][e].st # "rejected"
  BY <1>1 DEF SlotInv, SlotAt, Answered
<1>4. CASE LaunchRejected(t, e)
  <2>1. /\ UNCHANGED <<rec, watch>> /\ ReleaseUnstarted(t, att[t][e].slot)
        /\ SetAttempt(t, e, "done") \/ SetAttempt(t, e, "startFailed")
    BY <1>4 DEF LaunchRejected
  <2>2. /\ att'[t][e].pc \in {"done", "startFailed"} /\ att'[t][e].slot = att[t][e].slot
        /\ \A x \in Tasks, y \in Epochs : x # t \/ y # e => att'[x][y] = att[x][y]
    BY <1>0, <2>1, AttemptSet
  <2>3. OnlyAttempt(t, e) /\ Vacant(t)'
    BY <1>1, <1>2, <2>1, <2>2 DEF OnlyAttempt, Vacant, Live
  <2>4. /\ slots'[t] = slots[t] \/ slots'[t].child = 0
        /\ \A x \in Tasks : x # t => slots'[x] = slots[x]
    BY <1>0, <2>1, Unstarted
  <2>5. child[t][e].st = "rejected"
    BY <1>4 DEF LaunchRejected
  <2> QED
    BY <1>1, <1>3, <2>1, <2>2, <2>3, <2>4, <2>5, VacantSlots
<1>5. CASE StartFailed(t, e)
  <2>1. /\ UNCHANGED <<slots, watch>> /\ OthersKept(t)
        /\ att'[t][e].pc = "done" /\ att'[t][e].slot = att[t][e].slot
        /\ \A x \in Tasks, y \in Epochs : x # t \/ y # e => att'[x][y] = att[x][y]
    BY <1>0, <1>5, StartFailedEnds
  <2>2. OnlyAttempt(t, e) /\ Vacant(t)'
    BY <1>1, <1>2, <2>1 DEF OnlyAttempt, Vacant, Live
  <2>3. child[t][e].st = "rejected"
    BY <1>0, <1>5 DEF SlotAt, StartFailed
  <2> QED
    BY <1>1, <1>3, <2>1, <2>2, <2>3, VacantSlots DEF OthersKept
<1>6. CASE Finalize(t, e)
  <2>1. /\ UNCHANGED <<slots, att>> /\ OthersKept(t) /\ child[t][e].st = "exited"
        /\ watch'[t][e].pc = "finalized"
        /\ \A x \in Tasks, y \in Epochs : x # t \/ y # e => watch'[x][y] = watch[x][y]
    BY <1>0, <1>6, FinalizeEnds
  <2>2. OnlyAttempt(t, e) /\ Vacant(t)'
    BY <1>1, <1>2, <2>1 DEF OnlyAttempt, Vacant, Live
  <2>3. att[t][e].pc # "startFailed"
    BY <1>0, <2>1 DEF SlotAt
  <2> QED
    BY <1>1, <1>3, <2>1, <2>2, <2>3, VacantSlots DEF OthersKept
<1> QED
  BY <1>4, <1>5, <1>6

LEMMA OvertakenSlots ==
  ASSUME Context, Answered, SlotInv, failures' = 0 => failures = 0,
         NEW t \in Tasks, NEW e \in Epochs, ExecuteOvertaken(t, e)
  PROVE  SlotInv'
<1>0. Stage(t, e) /\ TypeOK /\ SlotAt(t, e)
  BY DEF Context, StageInv, SlotInv
<1>1. /\ att[t][e].pc = "reserved" /\ UNCHANGED <<rec, child, watch>>
      /\ ReleaseUnstarted(t, att[t][e].slot) /\ att' = PutAt(att, t, e, NoAttempt)
  BY DEF ExecuteOvertaken
<1>2. rec[t].exec = 0 /\ child[t][e].st = "none"
  BY <1>0, <1>1 DEF Stage
<1>3. \A f \in Epochs : ~Live(t, f) /\ (f # e => att[t][f].pc # "reserved")
  BY <1>1, <1>2, NothingLive DEF Context, ProcessInv, OneReservation
<1>4. /\ att'[t][e].pc = "none"
      /\ \A x \in Tasks, y \in Epochs : x # t \/ y # e => att'[x][y] = att[x][y]
  BY <1>0, <1>1, AttemptPut DEF NoAttempt
<1>5. OnlyAttempt(t, e) /\ Vacant(t)'
  BY <1>1, <1>3, <1>4 DEF OnlyAttempt, Vacant, Live
<1>6. /\ slots'[t] = slots[t] \/ slots'[t].child = 0
      /\ \A x \in Tasks : x # t => slots'[x] = slots[x]
  BY <1>0, <1>1, Unstarted
<1>7. \A f \in Epochs : failures = 0 /\ slots[t].child = f => rec[t].exec = f
  BY DEF SlotInv, SlotAt, Answered
<1>8. slots[t].child # e
  BY <1>0, <1>2 DEF SlotAt
<1> QED
  BY <1>1, <1>4, <1>5, <1>6, <1>7, <1>8, VacantSlots

LEMMA ReserveLeavesChild ==
  ASSUME Context, NEW t \in Tasks, NEW e \in Epochs, ExecuteReserve(t, e)
  PROVE  child[t][e].st = "none"
<1>1. rec[t].epoch = e /\ rec[t].state = "leased" /\ e \in Nat
  BY DEF ExecuteReserve, LeaseActive, Epochs
<1> QED
  BY <1>1 DEF Context, StageInv, Stage

\* A reservation holds a slot that is not bound, and the start that is written keeps it.
LEMMA ReserveSlots ==
  ASSUME Context, Answered, SlotInv, failures' = 0 => failures = 0,
         NEW t \in Tasks, NEW e \in Epochs, ExecuteReserve(t, e)
  PROVE  SlotInv'
<1>0. TypeOK /\ Stage(t, e) /\ RecordInv /\ ProcessInv
  BY DEF Context, StageInv
<1> DEFINE s == ReservedSlot(t, e)
           a == [pc |-> "reserved", late |-> FALSE, slot |-> s.id,
                 until |-> Earliest(LeaseExpiry(rec[t], now, MaxLaunch), rec[t].lease)]
<1>1. /\ UNCHANGED <<rec, child, watch, failures>> /\ rec[t].state = "leased"
      /\ slots' = [slots EXCEPT ![t] = s] /\ att' = PutAt(att, t, e, a)
      /\ ~Executing(t)
  BY DEF ExecuteReserve, Reserve
<1>2. a.pc = "reserved" /\ a.slot = s.id
  OBVIOUS
<1>3. s.id # 0 /\ (s.child = 0 \/ s = slots[t])
  BY DEF ReservedSlot, Epochs
<1> HIDE DEF s, a
<1>4. slots'[t] = s /\ \A x \in Tasks : x # t => slots'[x] = slots[x]
  BY <1>0, <1>1, SlotSet
<1>5. /\ att'[t][e] = a
      /\ \A x \in Tasks, y \in Epochs : x # t \/ y # e => att'[x][y] = att[x][y]
  BY <1>0, <1>1, AttemptPut
<1>6. rec[t].exec = 0
  BY <1>0, <1>1 DEF RecordInv, GoodRecord, ProcessOwningStates
<1>7. \A f \in Epochs : ~Live(t, f) /\ att[t][f].pc # "reserved"
  BY <1>0, <1>1, <1>6, NothingLive DEF Executing, ProcessInv, ReservationIsCurrent
<1>8. child[t][e].st = "none"
  BY ReserveLeavesChild
<1>9. failures = 0 => s.child = 0
  <2>1. slots[t].child \in 0..MaxEpoch
    BY <1>0 DEF TypeOK, Slot
  <2>2. slots[t].child \in Epochs => failures # 0
    BY <1>6 DEF SlotInv, SlotAt, Answered, Epochs
  <2>3. slots[t].child # 0 => slots[t].child \in Epochs
    BY <2>1, CoreAssumption DEF Epochs, CoreAssumption
  <2> QED
    BY <1>3, <2>2, <2>3
<1>10. OnlyAttempt(t, e)
  BY <1>1, <1>5 DEF OnlyAttempt
<1>11. ASSUME NEW f \in Epochs PROVE SlotAt(t, f)'
  <2>1. SlotAt(t, f) /\ watch[t][f].pc # "finalized" /\ f # 0
    BY DEF SlotInv, Answered, Epochs
  <2>2. CASE f = e
    BY <1>1, <1>2, <1>3, <1>4, <1>5, <1>7, <1>8, <1>9, <2>1, <2>2 DEF SlotAt, Live, Held
  <2>3. CASE f # e
    BY <1>1, <1>3, <1>4, <1>5, <1>7, <2>1, <2>3 DEF SlotAt, Live, Held
  <2> QED
    BY <2>2, <2>3
<1> QED
  BY <1>1, <1>4, <1>10, <1>11, SlotStep

LEMMA StartSlots ==
  ASSUME Context, Answered, SlotInv, failures' = 0 => failures = 0,
         NEW t \in Tasks, NEW e \in Epochs, Starts(t, e)
  PROVE  SlotInv'
<1>1. /\ Begun(rec[t], rec'[t], e) /\ OthersKept(t) /\ UNCHANGED <<slots, watch>>
      /\ OnlyAttempt(t, e)
      /\ att[t][e].pc = "reserved" /\ att'[t][e].pc \in {"racing", "done"}
      /\ att'[t][e].slot = att[t][e].slot /\ child[t][e].st = "none"
      /\ child'[t][e].st \in {"none", "spawning"}
      /\ \A f \in Epochs : f # e => att[t][f].pc # "reserved"
  BY StartBegins DEF Context
<1>2. \A f \in Epochs : ~Live(t, f)
  BY <1>1, NothingLive DEF Begun
<1>3. SlotAt(t, e)
  BY DEF SlotInv
<1>4. ASSUME NEW f \in Epochs PROVE SlotAt(t, f)'
  <2>1. SlotAt(t, f) /\ watch[t][f].pc # "finalized" /\ f # 0
    BY DEF SlotInv, Answered, Epochs
  <2>2. CASE f = e
    BY <1>1, <1>3, <2>1, <2>2 DEF SlotAt, Live, Held
  <2>3. CASE f # e
    <3>1. /\ att'[t][f] = att[t][f] /\ child'[t][f] = child[t][f] /\ watch'[t][f] = watch[t][f]
          /\ att[t][f].pc # "reserved" /\ ~Live(t, f)
      BY <1>1, <1>2, <2>3 DEF OnlyAttempt
    <3>2. failures = 0 => slots[t].child # f
      BY <1>1, <1>3, <2>1 DEF SlotAt
    <3> QED
      BY <1>1, <2>1, <3>1, <3>2 DEF SlotAt, Live, Held
  <2> QED
    BY <2>2, <2>3
<1> QED
  BY <1>1, <1>4, SlotStep DEF OthersKept

\* The reply to a termination gives back the slot of its child.
LEMMA ReplySlots ==
  ASSUME TypeOK, SlotInv, NEW t \in Tasks, NEW e \in Epochs, FinalizeReply(t, e)
  PROVE  SlotInv'
<1>1. /\ watch[t][e].pc = "finalized" /\ UNCHANGED <<rec, att, child, failures>>
      /\ ObserveTermination(t, att[t][e].slot, e)
      /\ SetWatch(t, e, "done") \/ SetWatch(t, e, "cleanup")
  BY DEF FinalizeReply
<1>2. /\ watch'[t][e].pc \in {"done", "cleanup"}
      /\ \A x \in Tasks, y \in Epochs : x # t \/ y # e => watch'[x][y] = watch[x][y]
  BY <1>1, WatchSet
<1> DEFINE s == IF slots[t].id = att[t][e].slot /\ slots[t].child = e THEN NoSlot ELSE slots[t]
<1>3. slots' = [slots EXCEPT ![t] = s]
  BY <1>1 DEF ObserveTermination
<1>4. /\ s.child = 0 \/ s = slots[t]
      /\ s = slots[t] => slots[t].id # att[t][e].slot \/ slots[t].child # e
  BY DEF NoSlot, Epochs
<1> HIDE DEF s
<1>5. slots'[t] = s /\ \A x \in Tasks : x # t => slots'[x] = slots[x]
  BY <1>3, SlotSet
<1>6. Vacant(t)
  BY <1>1 DEF SlotInv, SlotAt
<1>7. ASSUME NEW f \in Epochs PROVE SlotAt(t, f)'
  <2>1. SlotAt(t, f) /\ f # 0 /\ SlotAt(t, e)
    BY DEF SlotInv, Epochs
  <2>2. ~Live(t, f) /\ att[t][f].pc # "reserved"
    BY <1>6 DEF Vacant
  <2>3. Vacant(t)'
    BY <1>1, <1>6 DEF Vacant, Live
  <2>4. s.child = f => s = slots[t] /\ f # e
    BY <1>4, <2>1 DEF SlotAt
  <2> QED
    BY <1>1, <1>2, <1>5, <2>1, <2>2, <2>3, <2>4 DEF SlotAt, Live
<1>8. ASSUME NEW x \in Tasks, NEW f \in Epochs, x # t PROVE SlotAt(x, f)'
  <2>1. SlotAt(x, f)
    BY DEF SlotInv
  <2>2. slots'[x] = slots[x] /\ watch'[x][f] = watch[x][f]
    BY <1>2, <1>5, <1>8
  <2> QED
    BY <1>1, <2>1, <2>2 DEF SlotAt, Live, Held, Vacant
<1> QED
  BY <1>7, <1>8 DEF SlotInv

\* A rejected call of the handler leaves the slot as it is.
LEMMA WatchRejectedSlots ==
  ASSUME TypeOK, SlotInv, NEW t \in Tasks, NEW e \in Epochs, WatchRejected(t, e)
  PROVE  SlotInv'
<1>1. UNCHANGED <<rec, slots, att, child>> /\ watch' = PutAt(watch, t, e, WatchDone) /\ Fail
  BY DEF WatchRejected
<1>2. /\ watch'[t][e].pc = "done"
      /\ \A x \in Tasks, y \in Epochs : x # t \/ y # e => watch'[x][y] = watch[x][y]
  BY <1>1, WatchEnded
<1>3. failures' # 0
  BY <1>1, CoreAssumption DEF Fail, TypeOK, CoreAssumption
<1> SUFFICES ASSUME NEW x \in Tasks, NEW f \in Epochs PROVE SlotAt(x, f)'
  BY DEF SlotInv
<1>4. SlotAt(x, f)
  BY DEF SlotInv
<1>5. watch'[x][f].pc = "finalized" => watch[x][f].pc = "finalized"
  BY <1>2
<1> QED
  BY <1>1, <1>3, <1>4, <1>5 DEF SlotAt, Live, Held, Vacant

LEMMA NextSlots ==
  ASSUME Context, ResultInv, SlotInv, ~DelayedReplies, [Next]_vars
  PROVE  SlotInv'
<1>0. TypeOK /\ RecordInv /\ GoodResults /\ ProcessInv /\ StageInv
  BY DEF Context
<1>1. failures' = 0 => failures = 0
  BY <1>0, FailuresCount
<1>2. CASE UNCHANGED <<rec, slots, att, child, watch, failures>>
  BY <1>2 DEF SlotInv, SlotAt, Live, Held, Vacant
<1>3. ASSUME NEW t \in Tasks, NEW e \in Epochs, FinalizeReply(t, e) \/ WatchRejected(t, e)
      PROVE  SlotInv'
  BY <1>0, <1>3, ReplySlots, WatchRejectedSlots
<1>4. ASSUME Prompt PROVE Answered
  BY <1>4 DEF Prompt, Answered
<1>5. ASSUME Answered, NEW t \in Tasks,
             Requested(t) \/ Continuation(t) \/ Sweep(t) \/ EraseRejected(t)
      PROVE  SlotInv'
  <2>1. CASE \/ \E q \in Requests : Create(t, q)
             \/ \E d \in LeaseDurations : Claim(t, d)
             \/ Cancel(t) \/ DeleteIdle(t) \/ DeleteOwning(t) \/ Sweep(t)
             \/ \E p \in Calls : HeartbeatCommit(t, p)
    <3>1. Kept /\ SameStages
      BY <1>0, <2>1, CreateKeeps, ClaimKeeps, CancelKeeps, DeleteIdleKeeps, DeleteOwningKeeps,
         SweepKeeps, HeartbeatKeeps
    <3> QED
      BY <1>1, <1>5, <3>1, KeptGoesOn, SlotsKept
  <2>2. CASE \E e : Untouched(t, e)
    <3>1. Kept /\ SameStages
      BY <1>0, <2>2, UntouchedKeeps
    <3> QED
      BY <1>1, <1>5, <3>1, KeptGoesOn, SlotsKept
  <2>3. CASE CompleteDeletion(t) \/ \E p \in Calls : PublishCommit(t, p)
    <3>1. GoingOn /\ SameStages
      BY <1>0, <2>3, CompleteDeletionKeeps, PublishCommitWrites DEF ResultInv, Context
    <3> QED
      BY <1>1, <1>5, <3>1, SlotsKept
  <2> QED
    BY <1>5, <2>1, <2>2, <2>3 DEF Requested, Continuation, Untouched
<1>6. ASSUME Answered, NEW t \in Tasks, NEW e \in Epochs,
             Execution(t, e) \/ Supervisor(t, e) \/ Rejection(t, e)
      PROVE  SlotInv'
  <2>1. CASE PutResult(t, e)
    BY <1>2, <2>1 DEF PutResult
  <2>2. CASE LatePut(t, e)
    BY <1>0, <1>1, <1>6, <2>2, LatePutKeeps, KeptGoesOn, SlotsKept
  <2> QED
    BY <1>1, <1>6, <2>1, <2>2, SupervisorSlots, DeadlineSlots, LaunchedSlots, EndingSlots,
       OvertakenSlots, ReserveSlots, StartSlots DEF Execution, Supervisor, Rejection, Starts
<1>7. CASE Tick \/ UNCHANGED vars
  BY <1>2, <1>7 DEF Tick, vars
<1> QED
  BY <1>3, <1>4, <1>5, <1>6, <1>7 DEF Next, Step

LEMMA InitSlots ==
  ASSUME Init
  PROVE  SlotInv
BY DEF Init, SlotInv, SlotAt, Live, Vacant, NoSlot, NoAttempt, NoChild, NoWatch, Epochs

LEMMA SlotInvariant ==
  ASSUME ~DelayedReplies
  PROVE  Spec => [](Context /\ ResultInv /\ SlotInv)
<1>1. Context /\ ResultInv /\ SlotInv /\ [Next]_vars => SlotInv'
  BY NextSlots
<1>2. Init => SlotInv
  BY InitSlots
<1> QED
  BY <1>1, <1>2, ContextInvariant, PTL DEF Spec

\* Where a reply follows its write at once, every child that is being launched
\* or runs holds the slot its attempt reserved, whatever calls are rejected, and
\* unless one was rejected the slot is bound to no other child.
THEOREM LiveChildrenHoldSlots ==
  ASSUME ~DelayedReplies
  PROVE  Spec => []LiveChildHoldsSlot
<1>1. Context /\ ResultInv /\ SlotInv => LiveChildHoldsSlot
  <2> SUFFICES ASSUME Context, SlotInv, NEW t \in Tasks, NEW e \in Epochs, Live(t, e)
               PROVE  /\ slots[t].id # 0 /\ slots[t].id = att[t][e].slot
                      /\ failures = 0 => slots[t].child \in {0, e}
    BY DEF LiveChildHoldsSlot
  <2>1. Held(t, e) /\ rec[t].exec = e
    BY DEF SlotInv, SlotAt, Context, ProcessInv, LiveChildIsCurrentAttempt
  <2>2. \A f \in Epochs : failures = 0 /\ slots[t].child = f => f = e
    BY <2>1 DEF SlotInv, SlotAt, Vacant
  <2>3. slots[t].child \in Epochs \cup {0}
    <3>1. slots[t].child \in 0..MaxEpoch
      BY DEF Context, TypeOK, Slot
    <3> QED
      BY <3>1, CoreAssumption DEF Epochs, CoreAssumption
  <2> QED
    BY <2>1, <2>2, <2>3 DEF Held
<1> QED
  BY <1>1, SlotInvariant, PTL

-----------------------------------------------------------------------------
(* Capacity *)

Taken == {t \in Tasks : slots[t].id # 0}

Bounded == IsFiniteSet(Taken) /\ Cardinality(Taken) <= MaxConcurrency

TakesNothing == \A x \in Tasks : slots'[x].id # 0 => slots[x].id # 0

\* Only a reservation takes a slot.
LEMMA SlotsGivenBack ==
  ASSUME TypeOK, [Next]_vars
  PROVE  \/ TakesNothing
         \/ \E t \in Tasks, e \in Epochs : ExecuteReserve(t, e)
<1>1. ASSUME UNCHANGED slots PROVE TakesNothing
  BY <1>1 DEF TakesNothing
<1>2. ASSUME NEW t \in Tasks, NEW id, ReleaseUnstarted(t, id) PROVE TakesNothing
  <2>1. slots' = [slots EXCEPT ![t] = IF slots[t].id = id /\ slots[t].child = 0
                                      THEN NoSlot ELSE slots[t]]
    BY <1>2 DEF ReleaseUnstarted
  <2> QED
    BY <2>1 DEF TakesNothing, NoSlot, TypeOK
<1>3. ASSUME NEW t \in Tasks, NEW id, NEW e, ObserveTermination(t, id, e) PROVE TakesNothing
  <2>1. slots' = [slots EXCEPT ![t] = IF slots[t].id = id /\ slots[t].child = e
                                      THEN NoSlot ELSE slots[t]]
    BY <1>3 DEF ObserveTermination
  <2> QED
    BY <2>1 DEF TakesNothing, NoSlot, TypeOK
<1>4. ASSUME NEW t \in Tasks, NEW e, BindChild(t, e) PROVE TakesNothing
  <2>1. slots' = [slots EXCEPT ![t] = [slots[t] EXCEPT !.child = e]]
    BY <1>4 DEF BindChild
  <2>2. [slots[t] EXCEPT !.child = e].id = slots[t].id
    BY DEF TypeOK, Slot
  <2> QED
    BY <2>1, <2>2 DEF TakesNothing, TypeOK
<1>5. ASSUME NEW t \in Tasks, NEW e \in Epochs, Execution(t, e), ~ExecuteReserve(t, e)
      PROVE  TakesNothing
  BY <1>1, <1>2, <1>4, <1>5 DEF Execution, ExecuteCommit, ExecuteOvertaken, LaunchDeadline,
     MarkLaunchTimedOut, Launched, LateLaunched, LaunchRejected, StartFailed, BindStarted,
     Finalize, Cleanup
<1>6. ASSUME NEW t \in Tasks, NEW e \in Epochs,
             Supervisor(t, e) \/ Rejection(t, e) \/ FinalizeReply(t, e) \/ WatchRejected(t, e)
      PROVE  TakesNothing
  BY <1>1, <1>3, <1>6 DEF Supervisor, SpawnResolves, SpawnRejects, PutResult, ChildExits,
     LatePut, Rejection, AttemptRejected, StartReplyLost, FinalizeReply, WatchRejected
<1>7. ASSUME NEW t \in Tasks, Requested(t) PROVE TakesNothing
  BY <1>1, <1>7 DEF Requested, Create, Claim, Cancel, DeleteIdle, DeleteOwning, DeleteAgain,
     HeartbeatRead, PublishRead
<1>8. ASSUME NEW t \in Tasks, Continuation(t) \/ EraseRejected(t) \/ Sweep(t) PROVE TakesNothing
  BY <1>1, <1>8 DEF Continuation, EraseObjects, CompleteDeletion, HeartbeatCommit, PublishCommit,
     CallOvertaken, EraseRejected, Sweep, SweepCancelling, SweepOwning, SweepIdle
<1>9. ASSUME Tick \/ UNCHANGED vars PROVE TakesNothing
  BY <1>1, <1>9 DEF Tick, vars
<1> QED
  BY <1>5, <1>6, <1>7, <1>8, <1>9 DEF Next, Step

LEMMA NextBounded ==
  ASSUME TypeOK, Bounded, [Next]_vars
  PROVE  Bounded'
<1>0. MaxConcurrency \in Nat /\ Cardinality(Taken) \in Nat
  BY CoreAssumption, FS_CardinalityType DEF CoreAssumption, Bounded
<1>1. CASE TakesNothing
  <2>1. Taken' \in SUBSET Taken
    BY <1>1 DEF Taken, TakesNothing
  <2>2. IsFiniteSet(Taken') /\ Cardinality(Taken') <= Cardinality(Taken)
    BY <2>1, FS_Subset DEF Bounded
  <2>3. Cardinality(Taken') \in Nat
    BY <2>2, FS_CardinalityType
  <2>4. Cardinality(Taken') <= MaxConcurrency
    BY <1>0, <2>2, <2>3 DEF Bounded
  <2> QED
    BY <2>2, <2>4 DEF Bounded
<1>2. ASSUME NEW t \in Tasks, NEW e \in Epochs, ExecuteReserve(t, e) PROVE Bounded'
  <2>1. CanReserve(t) /\ slots' = [slots EXCEPT ![t] = ReservedSlot(t, e)]
    BY <1>2 DEF ExecuteReserve, Reserve
  <2>2. ReservedSlot(t, e).id # 0
    BY DEF ReservedSlot, Epochs
  <2>3. Taken' = Taken \cup {t}
    <3>1. slots'[t] = ReservedSlot(t, e) /\ \A x \in Tasks : x # t => slots'[x] = slots[x]
      BY <2>1, SlotSet
    <3> QED
      BY <2>2, <3>1 DEF Taken
  <2>4. /\ IsFiniteSet(Taken')
        /\ Cardinality(Taken') = IF t \in Taken THEN Cardinality(Taken) ELSE Cardinality(Taken) + 1
    BY <2>3, FS_AddElement DEF Bounded
  <2>5. t \in Taken \/ Cardinality(Taken) < MaxConcurrency
    BY <2>1 DEF CanReserve, Occupied, Taken
  <2>6. Cardinality(Taken') <= MaxConcurrency
    BY <1>0, <2>4, <2>5 DEF Bounded
  <2> QED
    BY <2>4, <2>6 DEF Bounded
<1> QED
  BY <1>1, <1>2, SlotsGivenBack

LEMMA BoundedInvariant == Spec => []Bounded
<1>1. Init => Bounded
  <2>1. Init => Taken = {}
    BY DEF Init, Taken, NoSlot
  <2>2. IsFiniteSet({}) /\ Cardinality({}) = 0 /\ 0 <= MaxConcurrency
    BY FS_EmptySet, CoreAssumption DEF CoreAssumption
  <2> QED
    BY <2>1, <2>2 DEF Bounded
<1>2. TypeOK /\ Bounded /\ [Next]_vars => Bounded'
  BY NextBounded
<1> QED
  BY <1>1, <1>2, TypeCorrect, PTL DEF Spec

\* Where a reply follows its write at once, there are never more processes than
\* maxConcurrency: every one has a task of its own that holds a slot.  Rejected
\* calls and children that outlive their launch deadline do not change that.
THEOREM CapacityIsRespected ==
  ASSUME ~DelayedReplies
  PROVE  Spec => []CapacityRespected
<1>1. Context /\ ResultInv /\ SlotInv /\ Bounded => CapacityRespected
  <2> SUFFICES ASSUME Context, SlotInv, Bounded PROVE CapacityRespected
    OBVIOUS
  <2> DEFINE L == {x \in Tasks \X Epochs : Live(x[1], x[2])}
             f == [x \in L |-> x[1]]
  <2>1. \A x \in L : x[1] \in Taken /\ x[2] = rec[x[1]].exec /\ x = <<x[1], x[2]>>
    BY DEF SlotInv, SlotAt, Held, Taken, Context, ProcessInv, LiveChildIsCurrentAttempt
  <2>2. f \in Injection(L, Taken)
    <3>1. f \in [L -> Taken]
      BY <2>1
    <3>2. \A x, y \in L : f[x] = f[y] => x = y
      <4> SUFFICES ASSUME NEW x \in L, NEW y \in L, f[x] = f[y] PROVE x = y
        OBVIOUS
      <4>1. x[1] = y[1]
        OBVIOUS
      <4>2. x[2] = y[2]
        BY <2>1, <4>1
      <4> HIDE DEF L
      <4> QED
        BY <2>1, <4>1, <4>2
    <3> HIDE DEF L, f
    <3> QED
      BY <3>1, <3>2 DEF Injection, IsInjective
  <2> HIDE DEF f
  <2>3. IsFiniteSet(L) /\ Cardinality(L) <= Cardinality(Taken)
    BY <2>2, FS_Injection DEF Bounded
  <2>4. /\ MaxConcurrency \in Nat /\ Cardinality(Taken) \in Nat /\ Cardinality(L) \in Nat
        /\ Cardinality(Taken) <= MaxConcurrency
    BY <2>3, CoreAssumption, FS_CardinalityType DEF CoreAssumption, Bounded
  <2>5. Cardinality(L) <= MaxConcurrency
    BY <2>3, <2>4
  <2> QED
    BY <2>4, <2>5 DEF CapacityRespected, Occupied, Taken
<1> QED
  BY <1>1, SlotInvariant, BoundedInvariant, PTL

-----------------------------------------------------------------------------
(* Stops *)

\* While no adapter call was rejected: the continuation that binds a child of the
\* record ends only with the child bound, and a bound child whose stop is recorded
\* has been asked to terminate.
StopAt(t, e) ==
  failures = 0 /\ rec[t].exec = e =>
    /\ child[t][e].st = "alive" /\ att[t][e].pc = "done" => rec[t].bound
    /\ child[t][e].st = "alive" /\ rec[t].stop /\ rec[t].bound => child[t][e].stop
    /\ child[t][e].st = "spawning" => ~rec[t].bound /\ att[t][e].pc # "done"

StopInv == \A t \in Tasks, e \in Epochs : StopAt(t, e)

\* The record keeps its attempt, whether its child is bound and whether it is to
\* stop, or loses its attempt.
StillAt(t) ==
  rec'[t].exec # 0 => /\ rec'[t].exec = rec[t].exec /\ rec'[t].bound = rec[t].bound
                      /\ rec'[t].stop = rec[t].stop

LEMMA StopKept ==
  ASSUME NEW t \in Tasks, NEW e \in Epochs, StopAt(t, e), StillAt(t),
         failures' = 0 => failures = 0, att'[t][e].pc = att[t][e].pc,
         child'[t][e].st = child[t][e].st, child[t][e].stop => child'[t][e].stop
  PROVE  StopAt(t, e)'
<1>1. e # 0
  BY DEF Epochs
<1> QED
  BY <1>1 DEF StopAt, StillAt

\* Steps that move neither an attempt nor a child.
LEMMA StopsKept ==
  ASSUME StopInv, failures' = 0 => failures = 0, UNCHANGED <<att, child>>,
         \A t \in Tasks : StillAt(t)
  PROVE  StopInv'
BY StopKept DEF StopInv

\* A step of attempt e.
LEMMA StopStep ==
  ASSUME StopInv, failures' = 0 => failures = 0,
         NEW t \in Tasks, NEW e \in Epochs, OnlyAttempt(t, e), OthersKept(t),
         rec'[t].exec \in {0, e} \/ rec'[t] = rec[t],
         StopAt(t, e)'
  PROVE  StopInv'
<1> SUFFICES ASSUME NEW x \in Tasks, NEW f \in Epochs, x # t \/ f # e PROVE StopAt(x, f)'
  BY DEF StopInv
<1>1. StopAt(x, f) /\ f # 0
  BY DEF StopInv, Epochs
<1>2. att'[x][f] = att[x][f] /\ child'[x][f] = child[x][f]
  BY DEF OnlyAttempt
<1>3. x # t => rec'[x] = rec[x]
  BY DEF OthersKept
<1>4. x = t => rec'[t].exec # f \/ rec'[t] = rec[t]
  BY <1>1
<1> QED
  BY <1>1, <1>2, <1>3, <1>4 DEF StopAt

\* A write with the termination request that follows it.
LEMMA AskedStops ==
  ASSUME TypeOK, StopInv, failures' = 0 => failures = 0, UNCHANGED att,
         NEW t \in Tasks, NEW r \in JobRecord, r.exec = rec[t].exec, r.bound = rec[t].bound,
         rec'[t] = r, OthersKept(t), RequestTermination(t, r)
  PROVE  StopInv'
<1> SUFFICES ASSUME NEW x \in Tasks, NEW f \in Epochs PROVE StopAt(x, f)'
  BY DEF StopInv
<1>1. StopAt(x, f) /\ f # 0
  BY DEF StopInv, Epochs
<1>2. CASE x = t /\ r.exec = f
  <2>1. /\ child'[t][f].st = child[t][f].st
        /\ r.bound /\ r.stop /\ child[t][f].st = "alive" => child'[t][f].stop \/ failures' # 0
    BY <1>2, AskedOnly
  <2> QED
    BY <1>1, <1>2, <2>1 DEF StopAt
<1>3. CASE x = t /\ r.exec # f
  BY <1>3 DEF StopAt
<1>4. CASE x # t
  <2>1. child'[x][f] = child[x][f]
    <3>1. CASE r.exec \in Epochs
      BY <1>4, <3>1, AskedOnly
    <3>2. CASE r.exec \notin Epochs
      <4>1. r.exec = 0
        BY <3>2, CoreAssumption DEF JobRecord, Epochs, CoreAssumption
      <4> QED
        BY <4>1 DEF RequestTermination, Asked
    <3> QED
      BY <3>1, <3>2
  <2>2. rec'[x] = rec[x]
    BY <1>4 DEF OthersKept
  <2> QED
    BY <1>1, <2>1, <2>2 DEF StopAt
<1> QED
  BY <1>2, <1>3, <1>4

LEMMA RestingDetached ==
  ASSUME NEW r \in JobRecord, NEW s, NEW res, NEW f
  PROVE  Released(r, s, res, f).exec = 0
BY DEF Released, Detached, JobRecord

LEMMA RestingStops ==
  ASSUME TypeOK, StopInv, failures' = 0 => failures = 0, UNCHANGED <<att, child>>,
         NEW t \in Tasks, OthersKept(t), rec'[t].exec = 0 \/ rec'[t] = rec[t]
  PROVE  StopInv'
<1>1. \A x \in Tasks : StillAt(x)
  BY DEF StillAt, OthersKept
<1> QED
  BY <1>1, StopsKept

LEMMA UnwrittenCommit ==
  ASSUME NEW t \in Tasks, NoCommit
  PROVE  rec'[t] = rec[t] /\ OthersKept(t)
BY DEF NoCommit, OthersKept

LEMMA CancelStops ==
  ASSUME TypeOK, StopInv, failures' = 0 => failures = 0, NEW t \in Tasks, Cancel(t)
  PROVE  StopInv'
<1> DEFINE r == rec[t]
<1>1. r \in JobRecord /\ UNCHANGED att
  BY RecordFields DEF Cancel
<1>2. CASE Commit(t, Released(r, "cancelled", 0, FALSE)) /\ UNCHANGED child
  BY <1>1, <1>2, Committed, RestingDetached, RestingStops
<1>3. CASE NoCommit /\ RequestTermination(t, r)
  BY <1>1, <1>3, UnwrittenCommit, AskedStops
<1>4. CASE Commit(t, Stopping(r, "cancelled")) /\ RequestTermination(t, Stopping(r, "cancelled"))
  <2> DEFINE q == Stopping(r, "cancelled")
  <2>1. q \in JobRecord
    BY <1>1, StoppingType DEF PendingStopOutcomes
  <2>2. q.exec = r.exec /\ q.bound = r.bound
    BY <1>1, StoppingParts
  <2>3. Commit(t, q) /\ RequestTermination(t, q)
    BY <1>4
  <2> HIDE DEF q
  <2> QED
    BY <1>1, <2>1, <2>2, <2>3, Committed, AskedStops
<1> QED
  BY <1>2, <1>3, <1>4 DEF Cancel

LEMMA DeleteOwningStops ==
  ASSUME TypeOK, StopInv, failures' = 0 => failures = 0, NEW t \in Tasks, DeleteOwning(t)
  PROVE  StopInv'
<1> DEFINE r == rec[t]
           q == [Stopping(r, "deleted") EXCEPT !.deletion = TRUE]
<1>1. r \in JobRecord /\ UNCHANGED att
  BY RecordFields DEF DeleteOwning
<1>2. CASE NoCommit /\ RequestTermination(t, r)
  BY <1>1, <1>2, UnwrittenCommit, AskedStops
<1>3. CASE Commit(t, q) /\ RequestTermination(t, q)
  <2>1. q \in JobRecord
    <3>1. Stopping(r, "deleted") \in JobRecord
      BY <1>1, StoppingType DEF PendingStopOutcomes
    <3> QED
      BY <3>1 DEF JobRecord
  <2>2. q.exec = r.exec /\ q.bound = r.bound
    BY <1>1 DEF Stopping, JobRecord
  <2>3. Commit(t, q) /\ RequestTermination(t, q)
    BY <1>3
  <2> HIDE DEF q
  <2> QED
    BY <1>1, <2>1, <2>2, <2>3, Committed, AskedStops
<1> QED
  BY <1>2, <1>3 DEF DeleteOwning

LEMMA SweepStops ==
  ASSUME TypeOK, RecordInv, StopInv, failures' = 0 => failures = 0, NEW t \in Tasks, Sweep(t)
  PROVE  StopInv'
<1> DEFINE r == rec[t]
<1>1. r \in JobRecord /\ UNCHANGED att /\ now \in Nat
  BY RecordFields DEF Sweep, SweepCancelling, SweepOwning, SweepIdle
<1>2. CASE SweepCancelling(t)
  <2>1. PICK o : \/ NoCommit /\ RequestTermination(t, r)
                 \/ Commit(t, [r EXCEPT !.pending = o]) /\ UNCHANGED child
    BY <1>2 DEF SweepCancelling
  <2>2. CASE NoCommit /\ RequestTermination(t, r)
    BY <1>1, <2>2, UnwrittenCommit, AskedStops
  <2>3. CASE Commit(t, [r EXCEPT !.pending = o]) /\ UNCHANGED child
    <3> DEFINE q == [r EXCEPT !.pending = o]
    <3>1. q.exec = r.exec /\ q.bound = r.bound /\ q.stop = r.stop
      BY <1>1 DEF JobRecord
    <3>2. Commit(t, q)
      BY <2>3
    <3> HIDE DEF q
    <3>3. rec'[t] = q /\ OthersKept(t)
      BY <3>2, Committed
    <3>4. \A x \in Tasks : StillAt(x)
      BY <3>1, <3>3 DEF StillAt, OthersKept
    <3> QED
      BY <1>1, <2>3, <3>4, StopsKept
  <2> QED
    BY <2>1, <2>2, <2>3
<1>3. CASE SweepOwning(t)
  <2> DEFINE q == Stopping(r, TemporalOutcome(r, now))
  <2>1. q \in JobRecord
    BY <1>1, TemporalOutcomeType, StoppingType
  <2>2. q.exec = r.exec /\ q.bound = r.bound
    BY <1>1, StoppingParts
  <2>3. Commit(t, q) /\ RequestTermination(t, q)
    BY <1>3 DEF SweepOwning
  <2> HIDE DEF q
  <2> QED
    BY <1>1, <2>1, <2>2, <2>3, Committed, AskedStops
<1>4. CASE SweepIdle(t)
  <2>1. PICK q : Commit(t, q) /\ q.exec = 0 /\ UNCHANGED child
    <3>1. r.state = "leased" => [r EXCEPT !.state = "queued", !.lease = 0].exec = 0
      BY <1>1 DEF JobRecord, RecordInv, GoodRecord, ProcessOwningStates
    <3> QED
      BY <1>1, <1>4, <3>1, RestingDetached DEF SweepIdle
  <2> QED
    BY <1>1, <2>1, Committed, RestingStops
<1> QED
  BY <1>2, <1>3, <1>4 DEF Sweep

\* Operations whose write leaves the job without attempt, or with the one it has.
LEMMA OtherStops ==
  ASSUME TypeOK, ProcessInv, RecordInv, StopInv, failures' = 0 => failures = 0, NEW t \in Tasks,
         \/ \E q \in Requests : Create(t, q)
         \/ \E d \in LeaseDurations : Claim(t, d)
         \/ DeleteIdle(t) \/ CompleteDeletion(t)
         \/ \E p \in Calls : HeartbeatCommit(t, p) \/ PublishCommit(t, p)
  PROVE  StopInv'
<1> DEFINE r == rec[t]
<1>1. r \in JobRecord /\ UNCHANGED <<att, child>>
  BY RecordFields DEF Create, Claim, DeleteIdle, CompleteDeletion, HeartbeatCommit, PublishCommit
<1>2. CASE \E q \in Requests : Create(t, q)
  <2>1. PICK q : Commit(t, q) /\ q.exec = 0
    <3>1. \A d, l : [NoRecord EXCEPT !.state = "queued", !.deadline = d, !.ttl = l].exec = 0
      BY DEF NoRecord
    <3> QED
      BY <1>2, <3>1 DEF Create
  <2> QED
    BY <1>1, <2>1, Committed, RestingStops
<1>3. CASE \E d \in LeaseDurations : Claim(t, d)
  <2>1. r.state = "queued" /\ r.exec = 0
    BY <1>3 DEF Claim, RecordInv, GoodRecord, ProcessOwningStates
  <2>2. PICK q : Commit(t, q) /\ q.exec = 0
    <3>1. \A l : [r EXCEPT !.state = "leased", !.epoch = @ + 1, !.lease = l,
                           !.failure = FALSE, !.pending = "none"].exec = 0
      BY <1>1, <2>1 DEF JobRecord
    <3> QED
      BY <1>3, <3>1 DEF Claim
  <2> QED
    BY <1>1, <2>2, Committed, RestingStops
<1>4. CASE DeleteIdle(t)
  <2>1. PICK q : Commit(t, q) /\ q.exec = 0
    <3>1. [Released(r, "deleting", 0, FALSE) EXCEPT !.deletion = TRUE].exec = 0
      BY <1>1 DEF Released, Detached, JobRecord
    <3> QED
      BY <1>4, <3>1 DEF DeleteIdle
  <2> QED
    BY <1>1, <2>1, Committed, RestingStops
<1>5. CASE CompleteDeletion(t)
  <2>1. NoCommit \/ Commit(t, Released(r, "deleted", 0, FALSE))
    BY <1>5 DEF CompleteDeletion
  <2> QED
    BY <1>1, <2>1, UnwrittenCommit, Committed, RestingDetached, RestingStops
<1>6. CASE \E p \in Calls : HeartbeatCommit(t, p) \/ PublishCommit(t, p)
  <2>1. PICK q : /\ rec' = [rec EXCEPT ![t] = q]
                 /\ q.exec = r.exec /\ q.bound = r.bound /\ q.stop = r.stop
    <3>1. PICK p \in Calls : \/ rec' = [rec EXCEPT ![t] = [r EXCEPT !.lease = calls[t][p].until]]
                             \/ rec' = [rec EXCEPT ![t] = [r EXCEPT !.result = calls[t][p].key]]
      BY <1>6 DEF HeartbeatCommit, PublishCommit
    <3> DEFINE h == [r EXCEPT !.lease = calls[t][p].until]
               k == [r EXCEPT !.result = calls[t][p].key]
    <3>2. /\ h.exec = r.exec /\ h.bound = r.bound /\ h.stop = r.stop
          /\ k.exec = r.exec /\ k.bound = r.bound /\ k.stop = r.stop
      BY <1>1 DEF JobRecord
    <3>3. rec' = [rec EXCEPT ![t] = h] \/ rec' = [rec EXCEPT ![t] = k]
      BY <3>1
    <3> HIDE DEF h, k
    <3> QED
      BY <3>2, <3>3
  <2>2. rec'[t] = q /\ \A x \in Tasks : x # t => rec'[x] = rec[x]
    BY <2>1 DEF TypeOK
  <2>3. \A x \in Tasks : StillAt(x)
    BY <2>1, <2>2 DEF StillAt
  <2> QED
    BY <1>1, <2>3, StopsKept
<1> QED
  BY <1>2, <1>3, <1>4, <1>5, <1>6

-----------------------------------------------------------------------------
(* Stops and the steps of an attempt *)

LEMMA SupervisorStops ==
  ASSUME Context, StopInv, failures' = 0 => failures = 0, NEW t \in Tasks, NEW e \in Epochs,
         SpawnResolves(t, e) \/ SpawnRejects(t, e) \/ ChildExits(t, e)
  PROVE  StopInv'
<1>1. UNCHANGED <<rec, att, watch>> /\ OthersKept(t) /\ TypeOK /\ StopAt(t, e)
  BY DEF SpawnResolves, SpawnRejects, ChildExits, OthersKept, Context, StopInv
<1>2. CASE SpawnResolves(t, e)
  <2>0. SetChild(t, e, "alive") /\ child[t][e].st = "spawning"
    BY <1>2 DEF SpawnResolves, SetChild
  <2>1. child'[t][e].st = "alive" /\ OnlyAttempt(t, e)
    BY <1>1, <2>0, ChildSet DEF OnlyAttempt
  <2>2. StopAt(t, e)'
    BY <1>1, <2>0, <2>1 DEF StopAt
  <2> QED
    BY <1>1, <2>1, <2>2, StopStep
<1>3. CASE SpawnRejects(t, e)
  <2>0. SetChild(t, e, "rejected")
    BY <1>3 DEF SpawnRejects, SetChild
  <2>1. child'[t][e].st = "rejected" /\ OnlyAttempt(t, e)
    BY <1>1, <2>0, ChildSet DEF OnlyAttempt
  <2>2. StopAt(t, e)'
    BY <2>1 DEF StopAt
  <2> QED
    BY <1>1, <2>1, <2>2, StopStep
<1>4. CASE ChildExits(t, e)
  <2>1. child'[t][e].st = "exited" /\ OnlyAttempt(t, e)
    BY <1>1, <1>4, ChildExited DEF OnlyAttempt
  <2>2. StopAt(t, e)'
    BY <2>1 DEF StopAt
  <2> QED
    BY <1>1, <2>1, <2>2, StopStep
<1> QED
  BY <1>2, <1>3, <1>4

\* A launch timeout stops the job before its child is bound.
LEMMA LaunchTimedOutStops ==
  ASSUME Context, StopInv, failures' = 0 => failures = 0, NEW t \in Tasks,
         NEW e \in Epochs, MarkLaunchTimedOut(t, e)
  PROVE  StopInv'
<1> DEFINE r == rec[t]
           q == [Stopping(r, "failed") EXCEPT !.failure = TRUE, !.result = 0]
<1>1. TypeOK /\ GoodResults /\ StopAt(t, e) /\ r \in JobRecord /\ GoodRecord(r)
  BY RecordFields DEF Context, StopInv, RecordInv
<1>2. /\ att'[t][e].pc = "late" /\ OnlyAttempt(t, e) /\ UNCHANGED child
      /\ att[t][e].pc = "deadline"
  BY <1>1, LaunchTimedOutKeeps DEF OnlyAttempt
<1>3. CASE NoCommit
  <2>1. rec'[t] = rec[t] /\ OthersKept(t)
    BY <1>3, UnwrittenCommit
  <2>2. StopAt(t, e)'
    BY <1>1, <1>2, <2>1 DEF StopAt
  <2> QED
    BY <1>2, <2>1, <2>2, StopStep
<1>4. CASE Commit(t, q) /\ r.exec = e /\ r.state = "starting"
  <2>1. q.exec = r.exec /\ q.bound = r.bound
    BY <1>1 DEF Stopping, JobRecord
  <2>2. Commit(t, q)
    BY <1>4
  <2> HIDE DEF q
  <2>3. rec'[t] = q /\ OthersKept(t)
    BY <1>1, <2>2, Committed
  <2>4. ~r.bound
    BY <1>1, <1>4 DEF GoodRecord
  <2>5. StopAt(t, e)'
    BY <1>1, <1>2, <1>4, <2>1, <2>3, <2>4 DEF StopAt
  <2> QED
    BY <1>2, <1>4, <2>1, <2>3, <2>5, StopStep
<1> QED
  BY <1>3, <1>4 DEF MarkLaunchTimedOut

\* Where replies follow their writes at once, the slot of a live child is free for it.
LEMMA LiveChildBinds ==
  ASSUME Context, SlotInv, Answered, failures = 0, NEW t \in Tasks, NEW e \in Epochs,
         rec[t].exec = e, child[t][e].st = "alive"
  PROVE  CanBindChild(t, att[t][e].slot, e)
<1>1. Live(t, e)
  BY DEF Live
<1>2. slots[t].id = att[t][e].slot
  BY <1>1 DEF SlotInv, SlotAt, Held
<1>3. \A f \in Epochs : slots[t].child = f => f = e
  BY DEF SlotInv, SlotAt, Answered
<1>4. slots[t].child \in Epochs \cup {0}
  <2>1. slots[t].child \in 0..MaxEpoch
    BY DEF Context, TypeOK, Slot
  <2> QED
    BY <2>1, CoreAssumption DEF Epochs, CoreAssumption
<1> QED
  BY <1>2, <1>3, <1>4 DEF CanBindChild

LEMMA LaunchStops ==
  ASSUME Context, SlotInv, Answered, StopInv, failures' = 0 => failures = 0, NEW t \in Tasks,
         NEW e \in Epochs,
         LaunchDeadline(t, e) \/ Launched(t, e) \/ LateLaunched(t, e) \/ LaunchRejected(t, e)
  PROVE  StopInv'
<1>1. TypeOK /\ UNCHANGED <<rec, child, failures>> /\ OthersKept(t) /\ StopAt(t, e) /\ Stage(t, e)
  BY DEF Context, LaunchDeadline, Launched, LateLaunched, LaunchRejected, OthersKept, StopInv,
     StageInv
<1>2. PICK pc : SetAttempt(t, e, pc) /\ (UNCHANGED watch \/ SetWatch(t, e, "tracked"))
                /\ (pc = "done" => child[t][e].st # "spawning")
                /\ (pc = "done" /\ child[t][e].st = "alive" => ~CanBindChild(t, att[t][e].slot, e))
  BY DEF LaunchDeadline, Launched, LateLaunched, LaunchRejected
<1>3. /\ att'[t][e].pc = pc
      /\ \A x \in Tasks, y \in Epochs : x # t \/ y # e => att'[x][y] = att[x][y]
  BY <1>1, <1>2, AttemptSet
<1>4. \A x \in Tasks, y \in Epochs : x # t \/ y # e => watch'[x][y] = watch[x][y]
  BY <1>1, <1>2, WatchSet
<1>5. OnlyAttempt(t, e)
  BY <1>1, <1>3, <1>4 DEF OnlyAttempt
<1>6. failures = 0 /\ rec[t].exec = e /\ child[t][e].st = "alive" => pc # "done"
  BY <1>2, LiveChildBinds
<1>7. StopAt(t, e)'
  BY <1>1, <1>2, <1>3, <1>6 DEF StopAt
<1> QED
  BY <1>1, <1>5, <1>7, StopStep

\* The child is bound, and asked to terminate if a stop was recorded before.
LEMMA BindStops ==
  ASSUME Context, StopInv, failures' = 0 => failures = 0, NEW t \in Tasks, NEW e \in Epochs,
         BindStarted(t, e)
  PROVE  StopInv'
<1>1. TypeOK /\ GoodResults /\ StopAt(t, e) /\ Stage(t, e)
  BY DEF Context, StopInv, StageInv
<1>2. /\ att[t][e].pc = "binding" /\ att'[t][e].pc = "done" /\ OnlyAttempt(t, e)
      /\ child'[t][e].st = child[t][e].st /\ Kept
      /\ rec[t].exec = e => /\ rec'[t].bound
                            /\ rec'[t].stop /\ child[t][e].st = "alive" =>
                                 child'[t][e].stop \/ failures' # 0
      /\ OthersKept(t) /\ (rec'[t] = rec[t] \/ rec[t].exec = e)
  BY <1>1, BindKeeps DEF OnlyAttempt
<1>3. rec'[t].exec = rec[t].exec
  BY <1>2, KeptGoesOn DEF GoingOn, Goes
<1>4. child[t][e].st # "spawning"
  BY <1>1, <1>2 DEF Stage
<1>5. StopAt(t, e)'
  BY <1>1, <1>2, <1>3, <1>4 DEF StopAt
<1> QED
  BY <1>2, <1>3, <1>5, StopStep

\* A step of an attempt that is not, or no longer, the record's.
LEMMA ForeignStops ==
  ASSUME StopInv, failures' = 0 => failures = 0, NEW t \in Tasks, NEW e \in Epochs,
         OnlyAttempt(t, e), OthersKept(t), rec'[t].exec \in {0, e} \/ rec'[t] = rec[t],
         failures' # 0 \/ rec'[t].exec = 0 \/ child'[t][e].st \in {"none", "rejected", "exited"}
  PROVE  StopInv'
<1>1. e # 0
  BY DEF Epochs
<1>2. StopAt(t, e)'
  BY <1>1 DEF StopAt
<1> QED
  BY <1>2, StopStep

LEMMA ReserveStops ==
  ASSUME Context, StopInv, failures' = 0 => failures = 0, NEW t \in Tasks, NEW e \in Epochs,
         ExecuteReserve(t, e) \/ ExecuteOvertaken(t, e) \/ AttemptRejected(t, e)
  PROVE  StopInv'
<1>1. TypeOK /\ Stage(t, e) /\ UNCHANGED <<rec, watch>> /\ OthersKept(t)
  BY DEF Context, StageInv, ExecuteReserve, ExecuteOvertaken, AttemptRejected, OthersKept
<1>2. CASE ExecuteReserve(t, e)
  <2>1. PICK a : att' = PutAt(att, t, e, a) /\ UNCHANGED child
    BY <1>2 DEF ExecuteReserve
  <2>2. OnlyAttempt(t, e)
    BY <1>1, <2>1, AttemptPut DEF OnlyAttempt
  <2>3. rec[t].exec = 0
    BY <1>2 DEF ExecuteReserve, Context, RecordInv, GoodRecord, ProcessOwningStates
  <2> QED
    BY <1>1, <2>2, <2>3, ForeignStops
<1>3. CASE ExecuteOvertaken(t, e)
  <2>1. att' = PutAt(att, t, e, NoAttempt) /\ UNCHANGED child /\ att[t][e].pc = "reserved"
    BY <1>3 DEF ExecuteOvertaken
  <2>2. OnlyAttempt(t, e)
    BY <1>1, <2>1, AttemptPut DEF OnlyAttempt
  <2> QED
    BY <1>1, <2>1, <2>2, ForeignStops DEF Stage
<1>4. CASE AttemptRejected(t, e)
  <2>1. SetAttempt(t, e, "done") /\ Fail /\ (UNCHANGED child \/ child' = AskChild(t, e))
    BY <1>4 DEF AttemptRejected
  <2>2. \A x \in Tasks, y \in Epochs : x # t \/ y # e => child'[x][y] = child[x][y]
    BY <1>1, <2>1, ChildAskedStage
  <2>3. OnlyAttempt(t, e)
    BY <1>1, <2>1, <2>2, AttemptSet DEF OnlyAttempt
  <2>4. failures \in Nat /\ failures' = failures + 1
    BY <1>1, <2>1, CoreAssumption DEF Fail, TypeOK, CoreAssumption
  <2>5. failures' # 0
    BY <2>4
  <2> QED
    BY <1>1, <2>3, <2>5, ForeignStops
<1> QED
  BY <1>2, <1>3, <1>4

LEMMA StartStops ==
  ASSUME Context, StopInv, failures' = 0 => failures = 0, NEW t \in Tasks, NEW e \in Epochs,
         Starts(t, e)
  PROVE  StopInv'
<1>1. /\ Begun(rec[t], rec'[t], e) /\ OthersKept(t) /\ OnlyAttempt(t, e)
      /\ child'[t][e].st \in {"spawning", "none"}
      /\ child'[t][e].st = "spawning" => att'[t][e].pc = "racing"
  BY StartBegins DEF Context
<1>2. StopAt(t, e)'
  BY <1>1 DEF StopAt, Begun
<1> QED
  BY <1>1, <1>2, StopStep DEF Begun

LEMMA EndingStops ==
  ASSUME Context, StopInv, SlotInv, failures' = 0 => failures = 0, NEW t \in Tasks,
         NEW e \in Epochs, StartFailed(t, e) \/ Finalize(t, e)
  PROVE  StopInv'
<1>0. TypeOK /\ ProcessInv /\ RecordInv /\ StageInv /\ GoodResults /\ SlotAt(t, e)
  BY DEF Context, SlotInv
<1>1. CASE StartFailed(t, e)
  <2>1. /\ OnlyAttempt(t, e) /\ OthersKept(t) /\ UNCHANGED child /\ rec[t].exec = e
        /\ att[t][e].pc = "startFailed" /\ (Kept \/ Ended(rec[t], rec'[t], e))
    BY <1>0, <1>1, StartFailedEnds DEF OnlyAttempt
  <2>2. rec'[t].exec \in {0, e}
    BY <2>1, KeptGoesOn DEF GoingOn, Goes, Ended
  <2>3. child'[t][e].st = "rejected"
    BY <1>0, <2>1 DEF SlotAt
  <2> QED
    BY <2>1, <2>2, <2>3, ForeignStops
<1>2. CASE Finalize(t, e)
  <2>1. /\ OnlyAttempt(t, e) /\ OthersKept(t) /\ Ended(rec[t], rec'[t], e)
    BY <1>0, <1>2, FinalizeEnds DEF OnlyAttempt
  <2> QED
    BY <2>1, ForeignStops DEF Ended
<1> QED
  BY <1>1, <1>2

LEMMA UnseenStops ==
  ASSUME StopInv, failures' = 0 => failures = 0, UNCHANGED <<rec, att, child>>
  PROVE  StopInv'
<1>1. \A t \in Tasks : StillAt(t)
  BY DEF StillAt
<1> QED
  BY <1>1, StopsKept

LEMMA NextStops ==
  ASSUME Context, SlotInv, StopInv, ~DelayedReplies, [Next]_vars
  PROVE  StopInv'
<1>0. TypeOK /\ ProcessInv /\ RecordInv /\ (failures' = 0 => failures = 0)
  BY FailuresCount DEF Context
<1>1. CASE UNCHANGED <<rec, att, child>>
  BY <1>0, <1>1, UnseenStops
<1>2. ASSUME NEW t \in Tasks, Requested(t) \/ Continuation(t) \/ Sweep(t) \/ EraseRejected(t)
      PROVE  StopInv'
  <2>1. CASE \E e : Untouched(t, e)
    BY <1>1, <2>1 DEF Untouched, Tick, DeleteAgain, EraseRejected, EraseObjects, PutResult,
       CallOvertaken, HeartbeatRead, PublishRead, vars
  <2>2. CASE Cancel(t) \/ DeleteOwning(t) \/ Sweep(t)
    BY <1>0, <2>2, CancelStops, DeleteOwningStops, SweepStops
  <2>3. CASE \/ \E q \in Requests : Create(t, q)
             \/ \E d \in LeaseDurations : Claim(t, d)
             \/ DeleteIdle(t) \/ CompleteDeletion(t)
             \/ \E p \in Calls : HeartbeatCommit(t, p) \/ PublishCommit(t, p)
    BY <1>0, <2>3, OtherStops
  <2> QED
    BY <1>2, <2>1, <2>2, <2>3 DEF Requested, Continuation, Untouched
<1>3. ASSUME Prompt, NEW t \in Tasks, NEW e \in Epochs,
             Execution(t, e) \/ Supervisor(t, e) \/ Rejection(t, e)
      PROVE  StopInv'
  <2>1. Answered
    BY <1>3 DEF Prompt, Answered
  <2>2. CASE PutResult(t, e) \/ Cleanup(t, e)
    BY <1>1, <2>2 DEF PutResult, Cleanup
  <2>3. CASE LatePut(t, e)
    <3>1. UNCHANGED <<rec, att>>
      BY <2>3 DEF LatePut
    <3>2. \A x \in Tasks, y \in Epochs :
            child'[x][y].st = child[x][y].st /\ (child[x][y].stop => child'[x][y].stop)
      BY <1>0, <2>3, ChildPutLate
    <3>3. \A x \in Tasks, y \in Epochs : StopAt(x, y)'
      BY <1>0, <3>1, <3>2, StopKept DEF StopInv, StillAt
    <3> QED
      BY <3>3 DEF StopInv
  <2> QED
    BY <1>0, <1>3, <2>1, <2>2, <2>3, SupervisorStops, LaunchTimedOutStops, LaunchStops, BindStops,
       ReserveStops, StartStops, EndingStops DEF Execution, Supervisor, Rejection, Starts
<1>4. CASE \E t \in Tasks, e \in Epochs : FinalizeReply(t, e) \/ WatchRejected(t, e)
  BY <1>1, <1>4 DEF FinalizeReply, WatchRejected
<1>5. CASE Tick \/ UNCHANGED vars
  BY <1>1, <1>5 DEF Tick, vars
<1> QED
  BY <1>2, <1>3, <1>4, <1>5 DEF Next, Step

\* Where a reply follows its write at once, no stop is lost: whether a cancel, a
\* deletion, an expiry or a launch timeout comes before or after the child is bound,
\* the live child of a cancelling job was asked to terminate, or the continuation
\* that will bind it, and ask it then, has still to run.
THEOREM NoStopIsLost ==
  ASSUME ~DelayedReplies
  PROVE  Spec => []StopReachesChild
<1>1. Context /\ ResultInv /\ SlotInv /\ StopInv /\ [Next]_vars => StopInv'
  BY NextStops
<1>2. Init => StopInv
  BY DEF Init, StopInv, StopAt, NoRecord, Epochs
<1>3. Context /\ SlotInv /\ StopInv => StopReachesChild
  <2> SUFFICES ASSUME Context, SlotInv, StopInv, failures = 0, NEW t \in Tasks, NEW e \in Epochs,
                      rec[t].state = "cancelling", rec[t].exec = e, child[t][e].st = "alive"
               PROVE  \/ child[t][e].stop
                      \/ att[t][e].pc \in {"racing", "deadline", "late", "binding"}
    BY DEF StopReachesChild
  <2>1. rec[t].stop
    BY DEF Context, RecordInv, GoodRecord
  <2>2. att[t][e].pc = "done" => child[t][e].stop
    BY <2>1 DEF StopInv, StopAt
  <2>3. att[t][e].pc \notin {"none", "reserved"}
    BY DEF Context, StageInv, Stage
  <2>4. att[t][e].pc # "startFailed"
    BY DEF SlotInv, SlotAt
  <2>5. att[t][e] \in Attempt
    BY Cells DEF Context
  <2> QED
    BY <2>2, <2>3, <2>4, <2>5 DEF Attempt
<1> QED
  BY <1>1, <1>2, <1>3, SlotInvariant, PTL DEF Spec

-----------------------------------------------------------------------------
(* The abstract jobs *)

Works(t) == \E e \in Epochs : Live(t, e)

Answers(r) == r.state \in {"succeeded", "expired"} /\ r.result # 0

\* What a step leaves of a job as ComputeJobs sees it.
SamePhase(t) == Phase(rec'[t].state) = Phase(rec[t].state)
SameWork(t) == Works(t)' <=> Works(t)
SameAnswer(t) == Answers(rec'[t]) <=> Answers(rec[t])
SameJob(t) == SamePhase(t) /\ SameWork(t) /\ SameAnswer(t)

OtherJobs(t) == \A x \in Tasks : x # t => SameJob(x)

Shows == [Abstract!Next]_(Abstract!vars)

LEMMA NothingShows ==
  ASSUME \A t \in Tasks : SameJob(t)
  PROVE  Shows
<1>1. PhaseOf' = PhaseOf
  BY DEF PhaseOf, SameJob, SamePhase
<1>2. WorkingOf' = WorkingOf
  BY DEF WorkingOf, SameJob, SameWork, Works
<1>3. AnsweredOf' = AnsweredOf
  BY DEF AnsweredOf, SameJob, SameAnswer, Answers
<1> QED
  BY <1>1, <1>2, <1>3 DEF Shows, Abstract!vars

LEMMA PhaseMoves ==
  ASSUME NEW t \in Tasks, OtherJobs(t), NEW p, Phase(rec'[t].state) = p
  PROVE  PhaseOf' = [PhaseOf EXCEPT ![t] = p]
BY DEF PhaseOf, OtherJobs, SameJob, SamePhase

LEMMA WorkStays ==
  ASSUME NEW t \in Tasks, OtherJobs(t), SameWork(t)
  PROVE  WorkingOf' = WorkingOf
BY DEF WorkingOf, OtherJobs, SameJob, SameWork, Works

LEMMA WorkMoves ==
  ASSUME NEW t \in Tasks, OtherJobs(t), NEW w \in BOOLEAN, Works(t)' <=> w
  PROVE  WorkingOf' = [WorkingOf EXCEPT ![t] = w]
BY DEF WorkingOf, OtherJobs, SameJob, SameWork, Works

LEMMA AnswerStays ==
  ASSUME NEW t \in Tasks, OtherJobs(t), SameAnswer(t)
  PROVE  AnsweredOf' = AnsweredOf
BY DEF AnsweredOf, OtherJobs, SameJob, SameAnswer, Answers

LEMMA AnswerMoves ==
  ASSUME NEW t \in Tasks, OtherJobs(t), NEW a \in BOOLEAN, Answers(rec'[t]) <=> a
  PROVE  AnsweredOf' = [AnsweredOf EXCEPT ![t] = a]
BY DEF AnsweredOf, OtherJobs, SameJob, SameAnswer, Answers

LEMMA JobViews ==
  ASSUME NEW t \in Tasks
  PROVE  /\ PhaseOf[t] = Phase(rec[t].state)
         /\ WorkingOf[t] <=> Works(t)
         /\ AnsweredOf[t] <=> Answers(rec[t])
BY DEF PhaseOf, WorkingOf, AnsweredOf, Works, Answers

LEMMA JobShows ==
  ASSUME NEW t \in Tasks,
         \/ Abstract!Submit(t) \/ Abstract!Begin(t) \/ Abstract!End(t) \/ Abstract!Release(t)
         \/ Abstract!Settle({t}) \/ Abstract!Remove(t) \/ Abstract!Removed(t)
  PROVE  Shows
BY DEF Shows, Abstract!Next, Abstract!vars

\* The phases of the job states, and that a record with an attempt is owned.
LEMMA PhaseIs ==
  ASSUME NEW r \in JobRecord, GoodRecord(r)
  PROVE  /\ r.exec # 0 <=> Phase(r.state) = "owned"
         /\ r.exec # 0 <=> r.state \in ProcessOwningStates
BY DEF JobRecord, GoodRecord, Phase, ProcessOwningStates, States

LEMMA NoWork ==
  ASSUME Context, NEW t \in Tasks, rec[t].exec = 0
  PROVE  ~Works(t)
BY NothingLive DEF Works

-----------------------------------------------------------------------------
(* Steps that neither begin nor end an attempt *)

\* An answer is withdrawn only with the job.
Standing(r, q) == Answers(r) /\ q.state \in {"succeeded", "expired"} => q.result # 0

\* The possible moves of a record without attempt.
LEMMA IdleMoves ==
  ASSUME NEW r \in JobRecord, NEW q \in JobRecord, Ordered(r, q), Carried(r, q), r.exec = 0,
         GoodRecord(r), GoodRecord(q)
  PROVE  LET p == Phase(r.state)
             n == Phase(q.state)
         IN \/ p = n
            \/ p = "absent" /\ n = "waiting"
            \/ p = "waiting" /\ n = "settled"
            \/ p \in {"waiting", "settled"} /\ n = "removing"
<1>1. q.exec = 0
  BY DEF Carried, Goes
<1>2. r.state \notin ProcessOwningStates /\ q.state \notin ProcessOwningStates
  BY <1>1, PhaseIs
<1>3. r.state \in States \cup {"absent"} /\ q.state \in States \cup {"absent"}
  BY DEF JobRecord
<1>4. CASE r.state = "absent"
  BY <1>4 DEF Ordered, Phase, ProcessOwningStates
<1>5. CASE r.state \in {"queued", "leased"}
  <2>1. q.state \in {"queued", "leased", "cancelled", "timed_out", "expired", "deleting"}
    BY <1>2, <1>5 DEF Ordered, TransitionAllowed, AllowedTransitions, ProcessOwningStates
  <2> QED
    BY <1>5, <2>1 DEF Phase, ProcessOwningStates
<1>6. CASE r.state \in {"succeeded", "failed", "cancelled", "timed_out", "expired"}
  <2>1. q.state \in {"succeeded", "failed", "cancelled", "timed_out", "expired", "deleting"}
    BY <1>6 DEF Ordered, TransitionAllowed, AllowedTransitions
  <2> QED
    BY <1>6, <2>1 DEF Phase, ProcessOwningStates
<1>7. CASE r.state \in {"deleting", "deleted"}
  <2>1. q.state = r.state
    BY <1>7 DEF Ordered, TransitionAllowed, AllowedTransitions, Carried
  <2> QED
    BY <2>1
<1> QED
  BY <1>2, <1>3, <1>4, <1>5, <1>6, <1>7 DEF States, ProcessOwningStates

\* The answer of a record without attempt.
LEMMA IdleAnswers ==
  ASSUME NEW r \in JobRecord, NEW q \in JobRecord, Ordered(r, q), Carried(r, q), r.exec = 0,
         GoodRecord(r), GoodRecord(q), GoodResult(r), GoodResult(q), Standing(r, q)
  PROVE  IF Phase(q.state) = "removing" THEN ~Answers(q) ELSE Answers(q) <=> Answers(r)
<1>1. Phase(q.state) = "removing" => ~Answers(q)
  BY DEF Phase, Answers, ProcessOwningStates
<1>2. r.state \notin ProcessOwningStates
  BY PhaseIs
<1>3. r.result # 0 => Answers(r)
  BY <1>2 DEF GoodResult, Answers, ProcessOwningStates
<1>4. Answers(q) => r.result # 0
  BY DEF Answers, Carried
<1>5. ASSUME Answers(r), Phase(q.state) # "removing" PROVE Answers(q)
  <2>1. q.state \in {"succeeded", "expired", "deleting"}
    BY <1>5 DEF Answers, Ordered, TransitionAllowed, AllowedTransitions
  <2>2. q.state # "deleting"
    BY <1>5 DEF Phase, ProcessOwningStates
  <2> QED
    BY <1>5, <2>1, <2>2 DEF Standing, Answers
<1> QED
  BY <1>1, <1>3, <1>4, <1>5

LEMMA OwnedAnswersNothing ==
  ASSUME NEW r \in JobRecord, GoodRecord(r), r.exec # 0
  PROVE  ~Answers(r)
BY PhaseIs DEF Answers, ProcessOwningStates

\* Nothing but the record of t changes.
LEMMA OthersShow ==
  ASSUME NEW t \in Tasks, OthersKept(t),
         \A x \in Tasks, f \in Epochs : x # t => child'[x][f].st = child[x][f].st
  PROVE  OtherJobs(t)
BY DEF OthersKept, OtherJobs, SameJob, SamePhase, SameWork, SameAnswer, Works, Live

LEMMA CarriedShows ==
  ASSUME Context, After, NEW t \in Tasks, OtherJobs(t), SameWork(t),
         Carried(rec[t], rec'[t]), GoodResult(rec'[t]), Standing(rec[t], rec'[t])
  PROVE  Shows
<1> DEFINE r == rec[t]
           q == rec'[t]
<1>1. /\ r \in JobRecord /\ q \in JobRecord /\ GoodRecord(r) /\ GoodRecord(q)
      /\ Ordered(r, q) /\ GoodResult(r)
  BY RecordFields DEF Context, After, TypeOK, RecordInv, History, GoodResults
<1>2. q.exec = r.exec
  BY DEF Carried, Goes
<1>3. CASE r.exec # 0
  <2>1. SamePhase(t) /\ SameAnswer(t)
    BY <1>1, <1>2, <1>3, PhaseIs, OwnedAnswersNothing DEF SamePhase, SameAnswer
  <2> QED
    BY <2>1, NothingShows DEF SameJob, OtherJobs
<1>4. CASE r.exec = 0
  <2>1. ~Works(t)
    BY <1>4, NoWork
  <2>2. IF Phase(q.state) = "removing" THEN ~Answers(q) ELSE Answers(q) <=> Answers(r)
    BY <1>1, <1>4, IdleAnswers
  <2>3. CASE SamePhase(t)
    <3>1. SameAnswer(t)
      <4>1. Phase(q.state) = "removing" => ~Answers(r)
        BY <2>3 DEF SamePhase, Phase, Answers, ProcessOwningStates
      <4> QED
        BY <2>2, <4>1 DEF SameAnswer
    <3> QED
      BY <2>3, <3>1, NothingShows DEF SameJob, OtherJobs
  <2>4. CASE Phase(r.state) = "absent" /\ Phase(q.state) = "waiting"
    <3>1. Abstract!Submit(t)
      BY <2>2, <2>4, PhaseMoves, WorkStays, AnswerStays, JobViews DEF Abstract!Submit, SameAnswer
    <3> QED
      BY <3>1, JobShows
  <2>5. CASE Phase(r.state) = "waiting" /\ Phase(q.state) = "settled"
    <3>1. PhaseOf' = [PhaseOf EXCEPT ![t] = "settled"] /\ UNCHANGED <<WorkingOf, AnsweredOf>>
      BY <2>2, <2>5, PhaseMoves, WorkStays, AnswerStays, JobViews DEF SameAnswer
    <3>2. PhaseOf' = [j \in Tasks |-> IF j \in {t} THEN "settled" ELSE PhaseOf[j]]
          /\ PhaseOf[t] = "waiting"
      BY <2>5, <3>1, JobViews DEF PhaseOf
    <3>3. Abstract!Settle({t})
      BY <3>1, <3>2 DEF Abstract!Settle
    <3> QED
      BY <3>3, JobShows
  <2>6. CASE Phase(r.state) \in {"waiting", "settled"} /\ Phase(q.state) = "removing"
    <3>1. AnsweredOf' = [AnsweredOf EXCEPT ![t] = FALSE]
      BY <2>2, <2>6, AnswerMoves
    <3>2. Abstract!Remove(t)
      BY <2>6, <3>1, PhaseMoves, WorkStays, JobViews DEF Abstract!Remove
    <3> QED
      BY <3>2, JobShows
  <2> QED
    BY <1>1, <1>4, <2>3, <2>4, <2>5, <2>6, IdleMoves DEF SamePhase
<1> QED
  BY <1>3, <1>4

\* Writes and what they leave of an answer.
LEMMA WriteStands ==
  ASSUME TypeOK, NEW t \in Tasks,
         \/ NoCommit
         \/ \E q : Commit(t, q) /\ (~Answers(rec[t]) \/ q.state = "deleting"
                                    \/ q.result = rec[t].result)
  PROVE  OthersKept(t) /\ Standing(rec[t], rec'[t])
<1>1. CASE NoCommit
  BY <1>1 DEF NoCommit, OthersKept, Standing, Answers
<1>2. CASE \E q : Commit(t, q) /\ (~Answers(rec[t]) \/ q.state = "deleting"
                                    \/ q.result = rec[t].result)
  BY <1>2, Committed DEF Standing, Answers
<1> QED
  BY <1>1, <1>2

LEMMA OperationStands ==
  ASSUME TypeOK, RecordInv, NEW t \in Tasks,
         \/ \E q \in Requests : Create(t, q)
         \/ \E d \in LeaseDurations : Claim(t, d)
         \/ Cancel(t) \/ DeleteIdle(t) \/ DeleteOwning(t)
  PROVE  OthersKept(t) /\ Standing(rec[t], rec'[t])
<1>1. CASE \E q \in Requests : Create(t, q)
  BY <1>1, WriteStands DEF Create, Answers
<1>2. CASE \E d \in LeaseDurations : Claim(t, d)
  BY <1>2, WriteStands DEF Claim, Answers
<1>3. CASE Cancel(t)
  BY <1>3, WriteStands DEF Cancel, Answers, ProcessOwningStates
<1>4. CASE DeleteIdle(t)
  <2>1. [Released(rec[t], "deleting", 0, FALSE) EXCEPT !.deletion = TRUE].state = "deleting"
    BY RecordFields DEF Released, Detached, JobRecord
  <2> QED
    BY <1>4, <2>1, WriteStands DEF DeleteIdle
<1>5. CASE DeleteOwning(t)
  BY <1>5, WriteStands DEF DeleteOwning, Answers, ProcessOwningStates
<1> QED
  BY <1>1, <1>2, <1>3, <1>4, <1>5

LEMMA SweepStands ==
  ASSUME TypeOK, NEW t \in Tasks, Sweep(t)
  PROVE  OthersKept(t) /\ Standing(rec[t], rec'[t])
<1>1. CASE SweepCancelling(t)
  BY <1>1, WriteStands DEF SweepCancelling, Answers
<1>2. CASE SweepOwning(t)
  BY <1>2, WriteStands DEF SweepOwning, Answers
<1>3. CASE SweepIdle(t)
  <2>1. Released(rec[t], "expired", rec[t].result, FALSE).result = rec[t].result
    BY RecordFields DEF Released, Detached, JobRecord
  <2> QED
    BY <1>3, <2>1, WriteStands DEF SweepIdle, Answers
<1> QED
  BY <1>1, <1>2, <1>3 DEF Sweep

LEMMA HeartbeatStands ==
  ASSUME TypeOK, NEW t \in Tasks, NEW p \in Calls, HeartbeatCommit(t, p)
  PROVE  OthersKept(t) /\ Standing(rec[t], rec'[t])
<1> DEFINE q == [rec[t] EXCEPT !.lease = calls[t][p].until]
<1>1. q.result = rec[t].result
  BY RecordFields DEF JobRecord
<1>2. rec' = [rec EXCEPT ![t] = q]
  BY DEF HeartbeatCommit
<1> HIDE DEF q
<1>3. rec'[t] = q /\ OthersKept(t)
  BY <1>2 DEF TypeOK, OthersKept
<1> QED
  BY <1>1, <1>3 DEF Standing, Answers

LEMMA SameStagesShow ==
  ASSUME NEW t \in Tasks, OthersKept(t), SameStages
  PROVE  OtherJobs(t) /\ SameWork(t)
BY OthersShow DEF SameStages, SameWork, Works, Live

LEMMA TaskShows ==
  ASSUME Context, After, ResultInv, NEW t \in Tasks,
         \/ \E q \in Requests : Create(t, q)
         \/ \E d \in LeaseDurations : Claim(t, d)
         \/ Cancel(t) \/ DeleteIdle(t) \/ DeleteOwning(t) \/ Sweep(t)
         \/ \E p \in Calls : HeartbeatCommit(t, p)
  PROVE  Shows
<1>1. Kept /\ SameStages
  BY CreateKeeps, ClaimKeeps, CancelKeeps, DeleteIdleKeeps, DeleteOwningKeeps, SweepKeeps,
     HeartbeatKeeps DEF Context
<1>2. OthersKept(t) /\ Standing(rec[t], rec'[t])
  BY OperationStands, SweepStands, HeartbeatStands DEF Context
<1> QED
  BY <1>1, <1>2, SameStagesShow, CarriedShows DEF Kept

\* A publication is seen only when the job succeeds.
LEMMA PublishShows ==
  ASSUME Context, ResultInv, NEW t \in Tasks, NEW p \in Calls, PublishCommit(t, p)
  PROVE  Shows
<1>1. /\ OthersKept(t) /\ SameStages /\ rec[t].state = "running" /\ rec'[t].state = "running"
  BY PublishCommitWrites DEF ResultInv
<1>2. OtherJobs(t) /\ SameWork(t)
  BY <1>1, SameStagesShow
<1>3. SamePhase(t) /\ SameAnswer(t)
  BY <1>1 DEF SamePhase, SameAnswer, Answers
<1> QED
  BY <1>2, <1>3, NothingShows DEF OtherJobs, SameJob

LEMMA UnwrittenShows ==
  ASSUME UNCHANGED rec, \A x \in Tasks, f \in Epochs : Live(x, f)' <=> Live(x, f)
  PROVE  Shows
<1>1. \A x \in Tasks : SameJob(x)
  BY DEF SameJob, SamePhase, SameWork, SameAnswer, Works
<1> QED
  BY <1>1, NothingShows

\* The tombstone.
LEMMA DeletionShows ==
  ASSUME Context, ResultInv, NEW t \in Tasks, CompleteDeletion(t)
  PROVE  Shows
<1> DEFINE r == rec[t]
<1>1. r.state = "deleting" /\ UNCHANGED child /\ r \in JobRecord
  BY RecordFields DEF CompleteDeletion, Context, ProcessInv, VerifyingIsDeleting
<1>2. CASE NoCommit
  BY <1>1, <1>2, UnwrittenShows DEF NoCommit, Live
<1>3. CASE Commit(t, Released(r, "deleted", 0, FALSE))
  <2>1. Released(r, "deleted", 0, FALSE).state = "deleted"
    BY <1>1 DEF Released, Detached, JobRecord
  <2>2. rec'[t].state = "deleted" /\ OthersKept(t)
    BY <1>3, <2>1, Committed DEF Context
  <2>3. OtherJobs(t) /\ SameWork(t) /\ SameAnswer(t)
    BY <1>1, <2>2, OthersShow DEF SameWork, SameAnswer, Works, Live, Answers
  <2>4. Phase(r.state) = "removing" /\ Phase(rec'[t].state) = "removed"
    BY <1>1, <2>2 DEF Phase, ProcessOwningStates
  <2>5. Abstract!Removed(t)
    BY <2>3, <2>4, PhaseMoves, WorkStays, AnswerStays, JobViews DEF Abstract!Removed
  <2> QED
    BY <2>5, JobShows
<1> QED
  BY <1>2, <1>3 DEF CompleteDeletion

-----------------------------------------------------------------------------
(* The steps of an attempt *)

\* A step of attempt e that keeps the record of its task.
LEMMA AttemptShows ==
  ASSUME NEW t \in Tasks, NEW e \in Epochs, OnlyAttempt(t, e), OthersKept(t)
  PROVE  OtherJobs(t)
BY OthersShow DEF OnlyAttempt

\* The child of an attempt ends, or was never there.
LEMMA ChildEnds ==
  ASSUME Context, NEW t \in Tasks, NEW e \in Epochs, OnlyAttempt(t, e), UNCHANGED rec,
         Live(t, e), ~Live(t, e)'
  PROVE  Shows
<1>1. rec[t].exec = e /\ e # 0
  BY DEF Context, ProcessInv, LiveChildIsCurrentAttempt, Epochs
<1>2. \A f \in Epochs : f # e => ~Live(t, f)'
  BY <1>1, OnlyLive DEF OnlyAttempt, Live
<1>3. Works(t) /\ (Works(t)' <=> FALSE)
  BY <1>2 DEF Works
<1>4. OtherJobs(t) /\ SameAnswer(t) /\ SamePhase(t)
  BY AttemptShows DEF OthersKept, SameAnswer, SamePhase
<1>5. Phase(rec[t].state) = "owned"
  BY <1>1, PhaseIs, RecordFields DEF Context, RecordInv
<1>6. WorkingOf' = [WorkingOf EXCEPT ![t] = FALSE]
  BY <1>3, <1>4, WorkMoves
<1>7. PhaseOf' = PhaseOf
  <2>1. \A x \in Tasks : Phase(rec'[x].state) = Phase(rec[x].state)
    OBVIOUS
  <2> QED
    BY <2>1 DEF PhaseOf
<1>8. Abstract!End(t)
  BY <1>3, <1>4, <1>5, <1>6, <1>7, AnswerStays, JobViews DEF Abstract!End
<1> QED
  BY <1>8, JobShows

LEMMA SupervisorShows ==
  ASSUME Context, NEW t \in Tasks, NEW e \in Epochs, Supervisor(t, e)
  PROVE  Shows
<1>1. UNCHANGED <<rec, att, watch>> /\ TypeOK
  BY DEF Supervisor, SpawnResolves, SpawnRejects, ChildExits, PutResult, LatePut, Context
<1>2. CASE SpawnResolves(t, e)
  <2>1. SetChild(t, e, "alive") /\ child[t][e].st = "spawning"
    BY <1>2 DEF SpawnResolves, SetChild
  <2>2. /\ child'[t][e].st = "alive"
        /\ \A x \in Tasks, y \in Epochs : x # t \/ y # e => child'[x][y] = child[x][y]
    BY <1>1, <2>1, ChildSet
  <2>3. \A x \in Tasks, f \in Epochs : Live(x, f)' <=> Live(x, f)
    BY <2>1, <2>2 DEF Live
  <2> QED
    BY <1>1, <2>3, UnwrittenShows
<1>3. CASE SpawnRejects(t, e)
  <2>1. SetChild(t, e, "rejected") /\ child[t][e].st = "spawning"
    BY <1>3 DEF SpawnRejects, SetChild
  <2>2. child'[t][e].st = "rejected" /\ OnlyAttempt(t, e)
    BY <1>1, <2>1, ChildSet DEF OnlyAttempt
  <2> QED
    BY <1>1, <2>1, <2>2, ChildEnds DEF Live
<1>4. CASE ChildExits(t, e)
  <2>1. child[t][e].st = "alive"
    BY <1>4 DEF ChildExits
  <2>2. child'[t][e].st = "exited" /\ OnlyAttempt(t, e)
    BY <1>1, <1>4, ChildExited DEF OnlyAttempt
  <2> QED
    BY <1>1, <2>1, <2>2, ChildEnds DEF Live
<1>5. CASE PutResult(t, e)
  BY <1>5, UnwrittenShows DEF PutResult, Live
<1>6. CASE LatePut(t, e)
  <2>1. \A x \in Tasks, y \in Epochs : child'[x][y].st = child[x][y].st
    BY <1>1, <1>6, ChildPutLate
  <2> QED
    BY <1>1, <2>1, UnwrittenShows DEF Live
<1> QED
  BY <1>2, <1>3, <1>4, <1>5, <1>6 DEF Supervisor

\* The continuation of an attempt writes, but neither begins nor ends it.
LEMMA ContinuationShows ==
  ASSUME Context, After, NEW t \in Tasks, NEW e \in Epochs,
         MarkLaunchTimedOut(t, e) \/ BindStarted(t, e)
  PROVE  Shows
<1>1. TypeOK /\ GoodResults /\ RecordInv
  BY DEF Context
<1>2. Kept /\ OthersKept(t) /\ (rec'[t] = rec[t] \/ rec[t].exec = e)
  <2>1. CASE MarkLaunchTimedOut(t, e)
    <3>1. \/ NoCommit
          \/ rec[t].exec = e /\ \E q : Commit(t, q)
      BY <2>1 DEF MarkLaunchTimedOut
    <3> QED
      BY <1>1, <2>1, <3>1, UnwrittenCommit, Committed, LaunchTimedOutKeeps
  <2>2. CASE BindStarted(t, e)
    BY <1>1, <2>2, BindKeeps
  <2> QED
    BY <2>1, <2>2
<1>3. \A x \in Tasks, f \in Epochs : child'[x][f].st = child[x][f].st
  <2>1. CASE MarkLaunchTimedOut(t, e)
    BY <2>1 DEF MarkLaunchTimedOut
  <2>2. CASE BindStarted(t, e)
    <3>1. /\ child'[t][e].st = child[t][e].st
          /\ \A x \in Tasks, y \in Epochs : x # t \/ y # e => child'[x][y] = child[x][y]
      BY <1>1, <2>2, BindKeeps
    <3> QED
      BY <3>1
  <2> QED
    BY <2>1, <2>2
<1>4. OtherJobs(t) /\ SameWork(t)
  BY <1>2, <1>3, OthersShow DEF SameWork, Works, Live
<1>5. Standing(rec[t], rec'[t])
  <2>1. rec[t] \in JobRecord /\ GoodRecord(rec[t]) /\ e # 0
    BY <1>1, RecordFields DEF RecordInv, Epochs
  <2>2. rec[t].exec = e => ~Answers(rec[t])
    BY <2>1, OwnedAnswersNothing
  <2> QED
    BY <1>2, <2>2 DEF Standing, Answers
<1> QED
  BY <1>2, <1>4, <1>5, CarriedShows DEF Kept

\* A job is put back, settled or removed when its attempt ends.
LEMMA EndedShows ==
  ASSUME Context, After, NEW t \in Tasks, NEW e \in Epochs, OtherJobs(t), SameWork(t),
         ~Works(t), Ended(rec[t], rec'[t], e)
  PROVE  Shows
<1> DEFINE r == rec[t]
           q == rec'[t]
<1>1. /\ r \in JobRecord /\ q \in JobRecord /\ GoodRecord(r) /\ GoodRecord(q) /\ Ordered(r, q)
  BY RecordFields DEF Context, After, TypeOK, RecordInv, History
<1>2. r.exec # 0 /\ q.exec = 0 /\ q.state \notin {"leased", "deleted"}
  BY DEF Ended, Epochs
<1>3. Phase(r.state) = "owned" /\ ~Answers(r) /\ r.state \in ProcessOwningStates
  BY <1>1, <1>2, PhaseIs, OwnedAnswersNothing
<1>4. q.state \notin ProcessOwningStates \cup {"absent"}
  <2>1. q.state \notin ProcessOwningStates
    BY <1>1, <1>2, PhaseIs
  <2>2. q.state # "absent"
    BY <1>1, <1>3 DEF Ordered, TransitionAllowed, AllowedTransitions, ProcessOwningStates
  <2> QED
    BY <2>1, <2>2
<1>5. Phase(q.state) \in {"waiting", "settled", "removing"}
  BY <1>1, <1>2, <1>4 DEF JobRecord, States, Phase, ProcessOwningStates
<1>6. CASE Answers(q)
  <2>1. Phase(q.state) = "settled"
    BY <1>6 DEF Answers, Phase, ProcessOwningStates
  <2>2. AnsweredOf' = [AnsweredOf EXCEPT ![t] = TRUE]
    BY <1>6, AnswerMoves
  <2>3. Abstract!Release(t)
    BY <1>3, <2>1, <2>2, PhaseMoves, WorkStays, JobViews DEF Abstract!Release
  <2> QED
    BY <2>3, JobShows
<1>7. CASE ~Answers(q)
  <2>1. AnsweredOf' = AnsweredOf
    BY <1>3, <1>7, AnswerStays DEF SameAnswer
  <2>2. PhaseOf' = [PhaseOf EXCEPT ![t] = Phase(q.state)]
    BY PhaseMoves
  <2>3. Abstract!Release(t)
    BY <1>3, <1>5, <2>1, <2>2, WorkStays, JobViews DEF Abstract!Release
  <2> QED
    BY <2>3, JobShows
<1> QED
  BY <1>6, <1>7

LEMMA EndingShows ==
  ASSUME Context, After, NEW t \in Tasks, NEW e \in Epochs, StartFailed(t, e) \/ Finalize(t, e)
  PROVE  Shows
<1>0. TypeOK /\ ProcessInv /\ RecordInv /\ StageInv /\ GoodResults
  BY DEF Context
<1>1. UNCHANGED child /\ OthersKept(t)
  BY <1>0, StartFailedEnds, FinalizeEnds DEF StartFailed, Finalize
<1>2. OtherJobs(t) /\ SameWork(t)
  BY <1>1, OthersShow DEF SameWork, Works, Live
<1>3. rec[t].exec = e /\ ~Live(t, e)
  <2>1. CASE StartFailed(t, e)
    BY <1>0, <2>1, StartFailedEnds DEF ProcessInv, FailedStartHasNoChild
  <2>2. CASE Finalize(t, e)
    BY <1>0, <2>2, FinalizeEnds DEF Ended, Live
  <2> QED
    BY <2>1, <2>2
<1>4. ~Works(t)
  BY <1>3, OnlyLive DEF Works
<1>5. Ended(rec[t], rec'[t], e) \/ Kept
  BY <1>0, StartFailedEnds, FinalizeEnds
<1>6. CASE Ended(rec[t], rec'[t], e)
  BY <1>2, <1>4, <1>6, EndedShows
<1>7. CASE Kept
  <2>1. rec[t] \in JobRecord /\ GoodRecord(rec[t]) /\ e # 0
    BY <1>0, RecordFields DEF RecordInv, Epochs
  <2>2. ~Answers(rec[t])
    BY <1>3, <2>1, OwnedAnswersNothing
  <2> QED
    BY <1>2, <1>7, <2>2, CarriedShows DEF Kept, Standing
<1> QED
  BY <1>5, <1>6, <1>7

-----------------------------------------------------------------------------
(* A process begins *)

\* Either replies follow their writes at once or there are no more tasks than
\* processes allowed.
Uncrowded ==
  ~DelayedReplies \/ (IsFiniteSet(Tasks) /\ Cardinality(Tasks) <= MaxConcurrency)

Working == {x \in Tasks : WorkingOf[x]}

LEMMA RoomForOne ==
  ASSUME Uncrowded, Bounded, ~DelayedReplies => SlotInv, NEW t \in Tasks, ~Works(t),
         ~DelayedReplies => slots[t].id # 0
  PROVE  Cardinality(Working) < MaxConcurrency
<1>1. PICK S : /\ IsFiniteSet(S) /\ Cardinality(S) <= MaxConcurrency /\ t \in S
               /\ Working \subseteq S \ {t}
  <2>1. Working = {x \in Tasks : Works(x)} /\ t \notin Working
    BY DEF Working, WorkingOf, Works
  <2>2. CASE ~DelayedReplies
    <3>1. \A x \in Tasks : Works(x) => slots[x].id # 0
      BY <2>2 DEF Works, SlotInv, SlotAt, Held
    <3>2. Working \subseteq Taken /\ t \in Taken
      BY <2>1, <2>2, <3>1 DEF Taken
    <3> QED
      BY <2>1, <3>2 DEF Bounded
  <2>3. CASE IsFiniteSet(Tasks) /\ Cardinality(Tasks) <= MaxConcurrency
    BY <2>1, <2>3
  <2> QED
    BY <2>2, <2>3 DEF Uncrowded
<1>2. IsFiniteSet(S \ {t}) /\ Cardinality(S \ {t}) = Cardinality(S) - 1
  BY <1>1, FS_RemoveElement
<1>3. IsFiniteSet(Working) /\ Cardinality(Working) <= Cardinality(S \ {t})
  BY <1>1, <1>2, FS_Subset
<1>4. /\ Cardinality(S) \in Nat /\ Cardinality(S \ {t}) \in Nat /\ Cardinality(Working) \in Nat
      /\ MaxConcurrency \in Nat
  BY <1>1, <1>2, <1>3, FS_CardinalityType, CoreAssumption DEF CoreAssumption
<1> QED
  BY <1>1, <1>2, <1>3, <1>4

\* The instance counts with the same Cardinality.
LEMMA CountedAlike ==
  ASSUME NEW S
  PROVE  Abstract!Cardinality(S) = Cardinality(S)
BY DEF Abstract!Cardinality, Cardinality

LEMMA StartShows ==
  ASSUME Context, After, Uncrowded, Bounded, ~DelayedReplies => SlotInv, NEW t \in Tasks,
         NEW e \in Epochs, Starts(t, e)
  PROVE  Shows
<1>1. /\ Begun(rec[t], rec'[t], e) /\ OthersKept(t) /\ OnlyAttempt(t, e)
      /\ att[t][e].pc = "reserved" /\ child[t][e].st = "none"
      /\ child'[t][e].st \in {"spawning", "none"}
  BY StartBegins DEF Context
<1>2. OtherJobs(t)
  BY <1>1, AttemptShows
<1>3. ~Works(t)
  BY <1>1, NoWork DEF Begun
<1>4. /\ Phase(rec[t].state) = "waiting" /\ Phase(rec'[t].state) = "owned"
      /\ SameAnswer(t)
  BY <1>1 DEF Begun, Phase, ProcessOwningStates, SameAnswer, Answers
<1>5. CASE child'[t][e].st = "spawning"
  <2>1. Works(t)' <=> TRUE
    BY <1>5 DEF Works, Live
  <2>2. Abstract!Cardinality({x \in Tasks : WorkingOf[x]}) < MaxConcurrency
    BY <1>1, <1>3, RoomForOne, CountedAlike DEF SlotInv, SlotAt, Held, Working
  <2>3. WorkingOf' = [WorkingOf EXCEPT ![t] = TRUE]
    BY <1>2, <2>1, WorkMoves
  <2>4. /\ PhaseOf[t] = "waiting" /\ PhaseOf' = [PhaseOf EXCEPT ![t] = "owned"]
        /\ AnsweredOf' = AnsweredOf
    BY <1>2, <1>4, PhaseMoves, AnswerStays, JobViews
  <2>5. Abstract!Begin(t)
    BY <2>2, <2>3, <2>4, Zenon DEF Abstract!Begin
  <2> QED
    BY <2>5, JobShows
<1>6. CASE child'[t][e].st = "none"
  <2>1. SameWork(t)
    <3>1. \A f \in Epochs : Live(t, f)' <=> Live(t, f)
      BY <1>1, <1>6 DEF OnlyAttempt, Live
    <3> QED
      BY <3>1 DEF SameWork, Works
  <2>2. Abstract!Begin(t)
    BY <1>2, <1>4, <2>1, PhaseMoves, WorkStays, AnswerStays, JobViews DEF Abstract!Begin
  <2> QED
    BY <2>2, JobShows
<1> QED
  BY <1>1, <1>5, <1>6

-----------------------------------------------------------------------------
\* Steps that write no record and neither launch nor end a child.
LEMMA SilentShows ==
  ASSUME Context, NEW t \in Tasks, NEW e \in Epochs,
         \/ ExecuteReserve(t, e) \/ ExecuteOvertaken(t, e) \/ LaunchDeadline(t, e)
         \/ Launched(t, e) \/ LateLaunched(t, e) \/ LaunchRejected(t, e) \/ Cleanup(t, e)
         \/ FinalizeReply(t, e) \/ WatchRejected(t, e) \/ AttemptRejected(t, e)
  PROVE  Shows
<1>1. UNCHANGED rec /\ (UNCHANGED child \/ child' = AskChild(t, e))
  BY DEF ExecuteReserve, ExecuteOvertaken, LaunchDeadline, Launched, LateLaunched, LaunchRejected,
     Cleanup, FinalizeReply, WatchRejected, AttemptRejected
<1>2. \A x \in Tasks, f \in Epochs : child'[x][f].st = child[x][f].st
  <2>1. CASE child' = AskChild(t, e)
    <3>1. /\ child'[t][e].st = child[t][e].st
          /\ \A x \in Tasks, y \in Epochs : x # t \/ y # e => child'[x][y] = child[x][y]
      BY <2>1, ChildAskedStage DEF Context
    <3> QED
      BY <3>1
  <2>2. CASE UNCHANGED child
    BY <2>2
  <2> QED
    BY <1>1, <2>1, <2>2
<1> QED
  BY <1>1, <1>2, UnwrittenShows DEF Live

\* Only the beginning of a process depends on the limit.
LEMMA NextShowsOrStarts ==
  ASSUME Context, ResultInv, TypeOK', [Next]_vars
  PROVE  Shows \/ \E t \in Tasks, e \in Epochs : Starts(t, e)
<1>1. After
  BY NextWrites, NextStayLate DEF Context, After
<1>2. ASSUME UNCHANGED <<rec, child>> PROVE Shows
  BY <1>2, UnwrittenShows DEF Live
<1>3. ASSUME NEW t \in Tasks, Requested(t) \/ Continuation(t) \/ Sweep(t) \/ EraseRejected(t)
      PROVE  Shows
  <2>1. CASE \E e : Untouched(t, e)
    BY <1>2, <2>1 DEF Untouched, Tick, DeleteAgain, EraseRejected, EraseObjects, PutResult,
       CallOvertaken, HeartbeatRead, PublishRead, vars
  <2>2. CASE \/ \E q \in Requests : Create(t, q)
             \/ \E d \in LeaseDurations : Claim(t, d)
             \/ Cancel(t) \/ DeleteIdle(t) \/ DeleteOwning(t) \/ Sweep(t)
             \/ \E p \in Calls : HeartbeatCommit(t, p)
    BY <1>1, <2>2, TaskShows
  <2>3. CASE CompleteDeletion(t) \/ \E p \in Calls : PublishCommit(t, p)
    BY <2>3, DeletionShows, PublishShows
  <2> QED
    BY <1>3, <2>1, <2>2, <2>3 DEF Requested, Continuation, Untouched
<1>4. ASSUME NEW t \in Tasks, NEW e \in Epochs,
             \/ Execution(t, e) \/ Supervisor(t, e) \/ Rejection(t, e)
             \/ FinalizeReply(t, e) \/ WatchRejected(t, e)
      PROVE  Shows \/ Starts(t, e)
  BY <1>1, <1>4, SupervisorShows, ContinuationShows, EndingShows, SilentShows
     DEF Execution, Rejection, Starts
<1>5. CASE Tick \/ UNCHANGED vars
  BY <1>2, <1>5 DEF Tick, vars
<1> QED
  BY <1>3, <1>4, <1>5 DEF Next, Step

LEMMA NextShows ==
  ASSUME Context, ResultInv, TypeOK', Uncrowded, Bounded, ~DelayedReplies => SlotInv,
         [Next]_vars
  PROVE  Shows
<1>1. After
  BY NextWrites, NextStayLate DEF Context, After
<1> QED
  BY <1>1, NextShowsOrStarts, StartShows

LEMMA InitShows ==
  ASSUME Init
  PROVE  Abstract!Init
<1>1. PhaseOf = [t \in Tasks |-> "absent"]
  BY DEF Init, PhaseOf, NoRecord, Phase, ProcessOwningStates
<1>2. WorkingOf = [t \in Tasks |-> FALSE]
  BY DEF Init, WorkingOf, Live, NoChild
<1>3. AnsweredOf = [t \in Tasks |-> FALSE]
  BY DEF Init, AnsweredOf, NoRecord
<1> QED
  BY <1>1, <1>2, <1>3 DEF Abstract!Init

\* Seen through its phases, its live children and its available results, the
\* service is the abstract job service: a process is begun only within the limit
\* and only for a waiting job, no job is put back, settled or removed under a
\* running process, and no answer is withdrawn before the job is removed.
THEOREM ServiceImplementsJobs ==
  ASSUME Uncrowded
  PROVE  Spec => ImplementsComputeJobs
<1>1. /\ Context /\ ResultInv /\ Bounded /\ (~DelayedReplies => SlotInv) /\ TypeOK'
      /\ [Next]_vars
      => [Abstract!Next]_(Abstract!vars)
  BY NextShows DEF Shows
<1>2. Spec => [](~DelayedReplies => SlotInv)
  <2>1. CASE ~DelayedReplies
    BY <2>1, SlotInvariant, PTL
  <2>2. CASE DelayedReplies
    BY <2>2, PTL
  <2> QED
    BY <2>1, <2>2
<1> QED
  BY <1>1, <1>2, InitShows, ContextInvariant, BoundedInvariant, TypeCorrect, PTL
     DEF Spec, ImplementsComputeJobs, Abstract!Spec

-----------------------------------------------------------------------------
(* What a submitter may rely on, whatever the limit *)

AnswersKept ==
  \A t \in Tasks : AnsweredOf[t] => AnsweredOf'[t] \/ PhaseOf'[t] = "removing"

LEMMA ShownKeepsAnswers ==
  ASSUME Shows
  PROVE  AnswersKept
<1> USE DEF AnswersKept, PhaseOf, AnsweredOf
<1>1. CASE UNCHANGED AnsweredOf
  BY <1>1
<1>2. CASE \E t \in Tasks : Abstract!Release(t)
  BY <1>2 DEF Abstract!Release
<1>3. CASE \E t \in Tasks : Abstract!Remove(t)
  BY <1>3 DEF Abstract!Remove
<1> QED
  BY <1>1, <1>2, <1>3
     DEF Shows, Abstract!Next, Abstract!vars, Abstract!Submit, Abstract!Begin, Abstract!End,
         Abstract!Removed, Abstract!Settle

\* An answer that could be fetched stays until the deletion of its job begins, with
\* delayed replies and any number of tasks: neither an expiry, a cleanup, a retry
\* nor a publication that comes too late withdraws it (getResult).
THEOREM AnswersStay == Spec => [][AnswersKept]_vars
<1>1. ASSUME Context, ResultInv, TypeOK', [Next]_vars
      PROVE  AnswersKept
  <2>1. CASE Shows
    BY <2>1, ShownKeepsAnswers
  <2>2. ASSUME NEW t \in Tasks, NEW e \in Epochs, Starts(t, e)
        PROVE  AnswersKept
    <3>1. After
      BY <1>1, NextWrites, NextStayLate DEF Context, After
    <3>2. Begun(rec[t], rec'[t], e) /\ OthersKept(t) /\ OnlyAttempt(t, e)
      BY <1>1, <2>2, <3>1, StartBegins DEF Context
    <3>3. OtherJobs(t)
      BY <1>1, <3>1, <3>2, AttemptShows
    <3>4. SameAnswer(t)
      BY <3>2 DEF Begun, SameAnswer, Answers
    <3>5. AnsweredOf' = AnsweredOf
      BY <3>3, <3>4, AnswerStays
    <3> QED
      BY <3>5 DEF AnswersKept
  <2> QED
    BY <1>1, <2>1, <2>2, NextShowsOrStarts
<1> QED
  BY <1>1, ContextInvariant, TypeCorrect, PTL DEF Spec
=============================================================================
