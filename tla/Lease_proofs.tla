---------------------------- MODULE Lease_proofs ----------------------------
(***************************************************************************)
(* Slots, claims and processes agree, for any number of tasks, workers and  *)
(* slots.  The argument: whatever changes a job is refused once the slot's  *)
(* fence has moved, a claim is given back only for a job without an         *)
(* attempt, and an attempt ends only when its process is known to be gone.  *)
(* From this invariant: the workers together implement the abstract service *)
(* ComputeJobs, and, with the router's records on top of them, a receipt    *)
(* that says a job was deleted is true.                                     *)
(***************************************************************************)
EXTENDS HttpProperties, FiniteSetTheorems, TLAPS

JobRecords ==
  [state : States \cup {"absent"}, epoch : 0..MaxEpoch, lease : Nat,
   exec : BOOLEAN, pending : PendingStopOutcomes \cup {"none"},
   result : BOOLEAN, slot : 0..MaxSlots, fence : Nat]

SlotRows ==
  [enabled : BOOLEAN, fence : Nat, holder : Workers \cup {NoWorker},
   task : Tasks \cup {NoTask}, epoch : 0..MaxEpoch, expires : Nat,
   quarantined : BOOLEAN]

Claims ==
  [pc : {"idle", "ready", "recovered", "claimed", "launching", "watching", "ending", "down"},
   task : Tasks \cup {NoTask}, slot : 0..MaxSlots, epoch : 0..MaxEpoch, fence : Nat]

Children ==
  [st : {"none", "spawning", "rejected", "alive", "exited", "gone"},
   owner : Workers \cup {NoWorker}, stop : BOOLEAN, at : Nat, read : Nat]

\* A record by itself: an attempt or a claim goes with certain states only.
GoodRecord(r) ==
  /\ r \in JobRecords
  /\ r.exec => r.state \in ProcessOwningStates /\ r.slot # 0
  /\ r.state = "cancelling" => r.pending # "none"
  /\ r.state = "leased" => r.slot # 0
  /\ r.state = "absent" => r.slot = 0 /\ r.epoch = 0 /\ r.fence = 0

SameClaim(r, q) == q.slot = r.slot /\ q.fence = r.fence /\ q.epoch = r.epoch

\* A write that is no publication and leaves the claim alone.
Follows(r, q) == GoodRecord(q) /\ SameClaim(r, q) /\ (q.result => r.result)

Busy(c) == c.pc \in {"claimed", "launching", "watching", "ending"}

-----------------------------------------------------------------------------
\* The operators that build records.

LEMMA SettledFollows ==
  ASSUME NEW r, GoodRecord(r), NEW state \in States \ (ProcessOwningStates \cup {"leased"}),
         NEW result \in BOOLEAN, result => r.result
  PROVE  /\ Follows(r, Settled(r, state, result)) /\ ~Settled(r, state, result).exec
         /\ Settled(r, state, result).result = result
         /\ Settled(r, state, result).state = state
<1> DEFINE q == Settled(r, state, result)
<1>1. state \in States /\ state \notin {"absent", "cancelling", "leased"}
  BY DEF States, ProcessOwningStates
<1>2. /\ q \in JobRecords /\ q.state = state /\ q.exec = FALSE /\ q.result = result
      /\ SameClaim(r, q)
  BY <1>1 DEF Settled, SameClaim, GoodRecord, JobRecords
<1> HIDE DEF q
<1>3. GoodRecord(q)
  BY <1>1, <1>2 DEF GoodRecord
<1> QED BY <1>2, <1>3 DEF Follows, q

LEMMA StoppingFollows ==
  ASSUME NEW r, GoodRecord(r), r.state \in ProcessOwningStates,
         NEW pending \in PendingStopOutcomes
  PROVE  /\ Follows(r, Stopping(r, pending))
         /\ Stopping(r, pending).exec = r.exec
  BY DEF Follows, SameClaim, GoodRecord, JobRecords, Stopping, States, ProcessOwningStates,
         PendingStopOutcomes

LEMMA OutcomeState ==
  ASSUME NEW at
  PROVE  TemporalOutcome(at) \in {"expired", "timed_out", "queued"}
  BY DEF TemporalOutcome

LEMMA StopTargetState ==
  ASSUME NEW r, GoodRecord(r), r.state = "cancelling"
  PROVE  StopTarget(r) \in States \ (ProcessOwningStates \cup {"leased"})
  BY DEF GoodRecord, JobRecords, StopTarget, PendingStopOutcomes, States, ProcessOwningStates

\* A sweep never ends an attempt by itself.
LEMMA SweptFollows ==
  ASSUME NEW r, GoodRecord(r)
  PROVE  Follows(r, Swept(r)) /\ (r.exec => Swept(r).exec)
<1>1. Follows(r, r)
  BY DEF Follows, SameClaim
<1>2. CASE Swept(r) = r
  BY <1>1, <1>2
<1>3. CASE r.state = "cancelling" /\ Swept(r) = [r EXCEPT !.pending = TemporalOutcome(now)]
  <2>1. TemporalOutcome(now) \in PendingStopOutcomes \ {"none"}
    BY OutcomeState DEF PendingStopOutcomes
  <2> QED BY <1>3, <2>1 DEF Follows, SameClaim, GoodRecord, JobRecords
<1>4. CASE r.state \in {"starting", "running"} /\ Swept(r) = Stopping(r, TemporalOutcome(now))
  <2>1. TemporalOutcome(now) \in PendingStopOutcomes /\ r.state \in ProcessOwningStates
    BY <1>4, OutcomeState DEF PendingStopOutcomes, ProcessOwningStates
  <2> QED BY <1>4, <2>1, StoppingFollows
<1>5. CASE r.state \notin ProcessOwningStates
           /\ \/ Swept(r) = Settled(r, "expired", r.result)
              \/ Swept(r) = Settled(r, TemporalOutcome(now), FALSE)
  <2>1. ~r.exec /\ r.result \in BOOLEAN
    BY <1>5 DEF GoodRecord, JobRecords
  <2>2. {"expired", "timed_out", "queued"} \subseteq States \ (ProcessOwningStates \cup {"leased"})
    BY DEF States, ProcessOwningStates
  <2>3. Follows(r, Settled(r, "expired", r.result))
    BY <2>1, <2>2, SettledFollows
  <2>4. TemporalOutcome(now) \in States \ (ProcessOwningStates \cup {"leased"})
    BY <2>2, OutcomeState
  <2>5. Follows(r, Settled(r, TemporalOutcome(now), FALSE))
    BY <2>4, SettledFollows
  <2> QED BY <1>5, <2>1, <2>3, <2>5
<1> QED BY <1>2, <1>3, <1>4, <1>5 DEF Swept, ProcessOwningStates

\* An observed termination ends the attempt.
LEMMA TerminatedFollows ==
  ASSUME NEW r, GoodRecord(r), NEW ok \in BOOLEAN, NEW at
  PROVE  Follows(r, Terminated(r, ok, at))
<1>1. {"expired", "timed_out", "queued", "succeeded", "failed"}
        \subseteq States \ (ProcessOwningStates \cup {"leased"})
  BY DEF States, ProcessOwningStates
<1>2. CASE r.state = "cancelling"
  BY <1>2, StopTargetState, SettledFollows DEF Terminated
<1>3. CASE r.state # "cancelling"
  <2>1. \/ Terminated(r, ok, at) = Settled(r, TemporalOutcome(at), FALSE)
        \/ Terminated(r, ok, at) = Settled(r, "succeeded", TRUE) /\ r.result
        \/ Terminated(r, ok, at) = Settled(r, "failed", FALSE)
    BY <1>3 DEF Terminated
  <2>2. TemporalOutcome(at) \in States \ (ProcessOwningStates \cup {"leased"})
    BY <1>1, OutcomeState
  <2>3. Follows(r, Settled(r, TemporalOutcome(at), FALSE))
        /\ Follows(r, Settled(r, "failed", FALSE))
    BY <1>1, <2>2, SettledFollows
  <2>4. r.result => Follows(r, Settled(r, "succeeded", TRUE))
    BY <1>1, SettledFollows
  <2> QED BY <2>1, <2>3, <2>4
<1> QED BY <1>2, <1>3

LEMMA ReconciledFollows ==
  ASSUME NEW r, GoodRecord(r), NEW kind, NEW at
  PROVE  Follows(r, Reconciled(r, kind, at)) /\ ~Reconciled(r, kind, at).exec
<1>1. {"expired", "timed_out", "deleting", "succeeded", "failed", "queued", "cancelled"}
        \subseteq States \ (ProcessOwningStates \cup {"leased"})
  BY DEF States, ProcessOwningStates
<1>2. PICK state \in {"expired", "timed_out", "deleting", "succeeded", "failed", "queued", "cancelled"},
           result \in BOOLEAN :
        Reconciled(r, kind, at) = Settled(r, state, result) /\ (result => r.result)
  BY DEF Reconciled, GoodRecord, JobRecords, PendingStopOutcomes
<1> QED BY <1>1, <1>2, SettledFollows

LEMMA RecoveredFollows ==
  ASSUME NEW r, GoodRecord(r), ~r.exec
  PROVE  /\ GoodRecord(Recovered(r)) /\ Recovered(r).slot = 0
         /\ Recovered(r).epoch = r.epoch /\ ~Recovered(r).exec
         /\ Recovered(r).result => r.result
<1>1. PICK state \in {"expired", "timed_out", "queued", "succeeded"}, result \in BOOLEAN :
        /\ Recovered(r) = [Settled(r, state, result) EXCEPT !.slot = 0, !.fence = 0]
        /\ result => r.result
  BY OutcomeState DEF Recovered, GoodRecord, JobRecords
<1>2. {"expired", "timed_out", "queued", "succeeded"}
        \subseteq States \ (ProcessOwningStates \cup {"leased"})
  BY DEF States, ProcessOwningStates
<1>3. Follows(r, Settled(r, state, result)) /\ ~Settled(r, state, result).exec
      /\ Settled(r, state, result).result = result
      /\ Settled(r, state, result).state = state
  BY <1>1, <1>2, SettledFollows
<1>4. 0 \in 0..MaxSlots /\ 0 \in Nat
  BY LeaseAssumption DEF LeaseAssumption
<1> QED BY <1>1, <1>2, <1>3, <1>4 DEF Follows, SameClaim, GoodRecord, JobRecords,
           States, ProcessOwningStates

LEMMA ExpiryNat == ASSUME now \in Nat PROVE LeaseExpiry \in Nat
  BY LeaseAssumption DEF LeaseAssumption, LeaseExpiry, Earliest
-----------------------------------------------------------------------------
Types ==
  /\ now \in 0..MaxTime /\ limit \in Slots /\ crashes \in 0..MaxCrashes
  /\ job \in [Tasks -> JobRecords] /\ slot \in [Slots -> SlotRows]
  /\ worker \in [Workers -> Claims] /\ child \in [Tasks -> [Epochs -> Children]]

\* A live process is the record's attempt; claim columns name a slot of the job.
JobInv(t) ==
  /\ GoodRecord(job[t])
  /\ job[t].slot # 0 => slot[job[t].slot].task = t
  /\ \A e \in Epochs : Live(t, e) => job[t].exec /\ job[t].epoch = e

\* A held slot names the job that names it; quarantine is one fence ahead.
SlotInv(s) ==
  /\ Held(s) =>
       /\ slot[s].task \in Tasks
       /\ job[slot[s].task].slot = s /\ job[slot[s].task].epoch = slot[s].epoch
       /\ slot[s].fence = job[slot[s].task].fence + (IF slot[s].quarantined THEN 1 ELSE 0)
  /\ ~Held(s) => slot[s].task = NoTask /\ ~slot[s].quarantined

\* A worker's claim is the job's own, or the job has gone on without it.
WorkerInv(w) ==
  Busy(worker[w]) =>
    /\ worker[w].task \in Tasks /\ worker[w].slot \in Slots /\ worker[w].epoch \in Epochs
    /\ worker[w].epoch <= job[worker[w].task].epoch
    /\ worker[w].epoch = job[worker[w].task].epoch /\ job[worker[w].task].slot # 0 =>
         /\ worker[w].slot = job[worker[w].task].slot
         /\ worker[w].fence = job[worker[w].task].fence

LeaseInv ==
  /\ Types
  /\ \A t \in Tasks : JobInv(t)
  /\ \A s \in Slots : SlotInv(s)
  /\ \A w \in Workers : WorkerInv(w)

LEMMA LeaseInvImplies == ASSUME LeaseInv PROVE TypeOK /\ SlotsMatchClaims
<1>1. TypeOK
  BY DEF LeaseInv, Types, TypeOK, JobRecords, SlotRows, Claims, Children
<1>2. ASSUME NEW t \in Tasks, NEW e \in Epochs, Live(t, e)
      PROVE  /\ job[t].exec /\ job[t].epoch = e
             /\ \E s \in Slots : slot[s].task = t /\ slot[s].epoch = e
  <2>1. job[t].exec /\ job[t].epoch = e /\ job[t].slot # 0 /\ job[t].slot \in 0..MaxSlots
        /\ slot[job[t].slot].task = t
    BY <1>2 DEF LeaseInv, JobInv, GoodRecord, JobRecords
  <2>2. job[t].slot \in Slots
    BY <2>1, LeaseAssumption DEF LeaseAssumption, Slots
  <2>3. Held(job[t].slot)
    BY <2>1, <2>2, LeaseAssumption DEF LeaseAssumption, LeaseInv, SlotInv
  <2>4. slot[job[t].slot].epoch = e
    BY <2>1, <2>2, <2>3 DEF LeaseInv, SlotInv
  <2> QED BY <2>1, <2>2, <2>4
<1>3. \A s \in Slots : Held(s) =>
        /\ job[slot[s].task].slot = s /\ job[slot[s].task].epoch = slot[s].epoch
        /\ slot[s].fence = job[slot[s].task].fence + (IF slot[s].quarantined THEN 1 ELSE 0)
  BY DEF LeaseInv, SlotInv
<1>4. \A t \in Tasks : job[t].slot # 0 => slot[job[t].slot].task = t
  BY DEF LeaseInv, JobInv
<1>5. SlotsMatchClaims
  BY <1>2, <1>3, <1>4 DEF SlotsMatchClaims
<1> QED BY <1>1, <1>5

LEMMA InitLease == ASSUME Init PROVE LeaseInv
<1> USE DEF Init
<1>1. 0 \in 0..MaxTime /\ 0 \in 0..MaxCrashes /\ 0 \in 0..MaxEpoch /\ 0 \in 0..MaxSlots
      /\ MaxSlots \in Slots
  BY LeaseAssumption DEF LeaseAssumption, Slots
<1>2. NewJob \in JobRecords /\ GoodRecord(NewJob)
  BY <1>1 DEF NewJob, JobRecords, GoodRecord, ProcessOwningStates
<1>3. FreeSlot(TRUE, 0) \in SlotRows
  BY <1>1 DEF FreeSlot, SlotRows
<1>4. NoClaim \in Claims /\ ~Busy(NoClaim)
  BY <1>1 DEF NoClaim, Claims, Busy
<1>5. NoChild \in Children /\ NoChild.st = "none"
  BY DEF NoChild, Children
<1>6. Types
  BY <1>1, <1>2, <1>3, <1>4, <1>5 DEF Types
<1>7. ASSUME NEW t \in Tasks PROVE JobInv(t)
  BY <1>2, <1>5 DEF JobInv, Live, NewJob
<1>8. ASSUME NEW s \in Slots PROVE SlotInv(s)
  BY DEF SlotInv, Held, FreeSlot
<1>9. ASSUME NEW w \in Workers PROVE WorkerInv(w)
  BY <1>4 DEF WorkerInv
<1> QED BY <1>6, <1>7, <1>8, <1>9 DEF LeaseInv

-----------------------------------------------------------------------------
\* Clock, limit and workers as a step may leave them that claims nothing.
Frame ==
  /\ now' \in 0..MaxTime /\ limit' \in Slots /\ crashes' \in 0..MaxCrashes
  /\ worker' \in [Workers -> Claims] /\ child' \in [Tasks -> [Epochs -> Children]]
  /\ \A w \in Workers : Busy(worker'[w]) =>
       /\ Busy(worker[w]) /\ worker'[w].task = worker[w].task
       /\ worker'[w].slot = worker[w].slot /\ worker'[w].epoch = worker[w].epoch
       /\ worker'[w].fence = worker[w].fence

NoLaunch == \A t \in Tasks, e \in Epochs : Live(t, e)' => Live(t, e)

\* The rows of the slots but for their expiry and whether they are enabled.
SameHolders ==
  /\ slot' \in [Slots -> SlotRows]
  /\ \A s \in Slots :
       /\ slot'[s].holder = slot[s].holder /\ slot'[s].task = slot[s].task
       /\ slot'[s].epoch = slot[s].epoch /\ slot'[s].fence = slot[s].fence
       /\ slot'[s].quarantined = slot[s].quarantined

LEMMA SlotOfJob ==
  ASSUME LeaseInv, NEW t \in Tasks, job[t].slot # 0
  PROVE  /\ job[t].slot \in Slots /\ Held(job[t].slot) /\ slot[job[t].slot].task = t
         /\ slot[job[t].slot].epoch = job[t].epoch
<1>1. job[t].slot \in Slots /\ slot[job[t].slot].task = t
  BY LeaseAssumption DEF LeaseAssumption, Slots, LeaseInv, JobInv, GoodRecord, JobRecords
<1>2. Held(job[t].slot)
  BY <1>1, LeaseAssumption DEF LeaseAssumption, LeaseInv, SlotInv
<1> QED BY <1>1, <1>2 DEF LeaseInv, SlotInv

LEMMA JobOfSlot ==
  ASSUME LeaseInv, NEW s \in Slots, NEW t \in Tasks, slot[s].task = t
  PROVE  Held(s) /\ job[t].slot = s
  BY LeaseAssumption DEF LeaseAssumption, LeaseInv, SlotInv

\* Writes that leave every claim alone keep the invariant, when an attempt ends
\* only without a live process.
LEMMA ClaimsStand ==
  ASSUME LeaseInv, Frame, SameHolders, DOMAIN job' = Tasks, job' = [t \in Tasks |-> job'[t]],
         \A t \in Tasks : /\ GoodRecord(job'[t]) /\ SameClaim(job[t], job'[t])
                          /\ \A e \in Epochs : Live(t, e)' => job'[t].exec /\ job'[t].epoch = e
  PROVE  LeaseInv'
<1>1. Types'
  BY DEF Types, Frame, SameHolders, GoodRecord
<1>2. ASSUME NEW t \in Tasks PROVE JobInv(t)'
  <2>1. job'[t].slot # 0 => slot'[job'[t].slot].task = t
    BY SlotOfJob DEF SameClaim, SameHolders
  <2> QED BY <2>1 DEF JobInv
<1>3. ASSUME NEW s \in Slots PROVE SlotInv(s)'
  <2>1. SlotInv(s) /\ Held(s)' = Held(s)
    BY DEF LeaseInv, SameHolders, Held
  <2> QED BY <2>1 DEF SlotInv, SameHolders, SameClaim
<1>4. ASSUME NEW w \in Workers, Busy(worker'[w]) PROVE WorkerInv(w)'
  <2>1. WorkerInv(w) /\ Busy(worker[w])
    BY <1>4 DEF LeaseInv, Frame
  <2>2. worker[w].task \in Tasks /\ SameClaim(job[worker[w].task], job'[worker[w].task])
    BY <2>1 DEF WorkerInv
  <2> QED BY <1>4, <2>1, <2>2 DEF WorkerInv, Frame, SameClaim
<1>5. ASSUME NEW w \in Workers PROVE WorkerInv(w)'
  BY <1>4 DEF WorkerInv
<1> QED BY <1>1, <1>2, <1>3, <1>5 DEF LeaseInv

\* A slot is given back together with the claim columns of its job.
LEMMA GivenBack ==
  ASSUME LeaseInv, Frame, NoLaunch, NEW s \in Slots, NEW t \in Tasks, slot[s].task = t,
         NEW r, GoodRecord(r), r.slot = 0, r.epoch = job[t].epoch,
         \A e \in Epochs : ~Live(t, e)',
         job' = [job EXCEPT ![t] = r],
         NEW b \in BOOLEAN, slot' = [slot EXCEPT ![s] = FreeSlot(b, slot[s].fence)]
  PROVE  LeaseInv'
<1>1. job \in [Tasks -> JobRecords] /\ slot \in [Slots -> SlotRows]
  BY DEF LeaseInv, Types
<1>2. /\ job'[t] = r /\ \A u \in Tasks \ {t} : job'[u] = job[u]
      /\ slot'[s] = FreeSlot(b, slot[s].fence) /\ \A x \in Slots \ {s} : slot'[x] = slot[x]
  BY <1>1
<1>3. Types'
  <2>1. FreeSlot(b, slot[s].fence) \in SlotRows
    BY <1>1, LeaseAssumption DEF LeaseAssumption, FreeSlot, SlotRows
  <2> QED BY <1>1, <2>1 DEF Types, Frame, GoodRecord
<1>4. ASSUME NEW u \in Tasks PROVE JobInv(u)'
  <2>1. CASE u = t
    BY <1>2, <2>1 DEF JobInv
  <2>2. CASE u # t
    <3>1. job'[u].slot # 0 => slot'[job'[u].slot].task = u
      BY <1>2, <2>2, SlotOfJob
    <3> QED BY <1>2, <2>2, <3>1 DEF JobInv, LeaseInv, NoLaunch
  <2> QED BY <2>1, <2>2
<1>5. ASSUME NEW x \in Slots PROVE SlotInv(x)'
  <2>1. CASE x = s
    BY <1>2, <2>1 DEF SlotInv, Held, FreeSlot
  <2>2. CASE x # s
    <3>1. SlotInv(x) /\ slot'[x] = slot[x] /\ slot[x].task # t
      BY <1>2, <2>2, JobOfSlot DEF LeaseInv
    <3> QED BY <1>2, <3>1 DEF SlotInv, Held
  <2> QED BY <2>1, <2>2
<1>6. ASSUME NEW w \in Workers, Busy(worker'[w]) PROVE WorkerInv(w)'
  <2>1. WorkerInv(w) /\ Busy(worker[w])
    BY <1>6 DEF LeaseInv, Frame
  <2> QED BY <1>2, <1>6, <2>1 DEF WorkerInv, Frame
<1>7. ASSUME NEW w \in Workers PROVE WorkerInv(w)'
  BY <1>6 DEF WorkerInv
<1> QED BY <1>3, <1>4, <1>5, <1>7 DEF LeaseInv
-----------------------------------------------------------------------------
\* The two action properties, of one step.
FreezeStep ==
  \A s \in Slots :
    slot[s].quarantined /\ slot'[s].quarantined
      => job'[slot[s].task] = job[slot[s].task]

PublishStep ==
  \A t \in Tasks :
    ~job[t].result /\ job'[t].result =>
      \E s \in Slots : /\ slot[s].task = t /\ slot[s].epoch = job[t].epoch
                       /\ slot[s].fence = job[t].fence

Kept == LeaseInv' /\ FreezeStep /\ PublishStep

\* The fence of a quarantined slot has moved: no write to its job passes it.
LEMMA FencedStep ==
  ASSUME LeaseInv, \A t \in Tasks : job'[t] = job[t] \/ Fenced(t)
  PROVE  FreezeStep
<1> SUFFICES ASSUME NEW s \in Slots, slot[s].quarantined
             PROVE  job'[slot[s].task] = job[slot[s].task]
  BY DEF FreezeStep
<1> DEFINE t == slot[s].task
<1>1. t \in Tasks /\ job[t].slot = s /\ slot[s].fence = job[t].fence + 1
      /\ job[t].fence \in Nat /\ s # 0
  BY LeaseAssumption DEF LeaseAssumption, LeaseInv, SlotInv, JobInv, GoodRecord, JobRecords, Slots
<1>2. ~Fenced(t)
  BY <1>1 DEF Fenced
<1> QED BY <1>1, <1>2

LEMMA OneWrite ==
  ASSUME LeaseInv, Frame, NoLaunch, SameHolders, NEW t \in Tasks, NEW r, Follows(job[t], r),
         job' = [job EXCEPT ![t] = r], r = job[t] \/ Fenced(t),
         ~r.exec => \A e \in Epochs : ~Live(t, e)'
  PROVE  Kept
<1>1. job \in [Tasks -> JobRecords]
  BY DEF LeaseInv, Types
<1>2. /\ job'[t] = r /\ \A u \in Tasks \ {t} : job'[u] = job[u]
      /\ DOMAIN job' = Tasks /\ job' = [u \in Tasks |-> job'[u]]
  BY <1>1
<1>3. ASSUME NEW u \in Tasks
      PROVE  /\ GoodRecord(job'[u]) /\ SameClaim(job[u], job'[u])
             /\ \A e \in Epochs : Live(u, e)' => job'[u].exec /\ job'[u].epoch = e
             /\ job'[u] = job[u] \/ Fenced(u)
             /\ job'[u].result => job[u].result
  <2>1. CASE u = t
    BY <1>2, <2>1 DEF Follows, LeaseInv, JobInv, SameClaim, NoLaunch
  <2>2. CASE u # t
    BY <1>2, <2>2 DEF LeaseInv, JobInv, SameClaim, NoLaunch
  <2> QED BY <2>1, <2>2
<1>4. LeaseInv'
  BY <1>2, <1>3, ClaimsStand
<1>5. FreezeStep
  BY <1>3, FencedStep
<1> QED BY <1>3, <1>4, <1>5 DEF Kept, PublishStep

LEMMA NoWrite ==
  ASSUME LeaseInv, Frame, NoLaunch, SameHolders, job' = job
  PROVE  Kept
<1>1. job \in [Tasks -> JobRecords]
  BY DEF LeaseInv, Types
<1>2. ASSUME NEW u \in Tasks
      PROVE  /\ GoodRecord(job'[u]) /\ SameClaim(job[u], job'[u])
             /\ \A e \in Epochs : Live(u, e)' => job'[u].exec /\ job'[u].epoch = e
  BY DEF LeaseInv, JobInv, SameClaim, NoLaunch
<1>3. LeaseInv'
  BY <1>1, <1>2, ClaimsStand
<1> QED BY <1>3, FencedStep DEF Kept, PublishStep

LEMMA StillFrame ==
  ASSUME LeaseInv, UNCHANGED <<now, limit, worker, child, crashes>>
  PROVE  Frame /\ NoLaunch
  BY DEF LeaseInv, Types, Frame, NoLaunch, Live

LEMMA SameRows == ASSUME LeaseInv, slot' = slot PROVE SameHolders
  BY DEF LeaseInv, Types, SameHolders

LEMMA NoAttempt ==
  ASSUME LeaseInv, NEW t \in Tasks, ~job[t].exec
  PROVE  \A e \in Epochs : ~Live(t, e)
  BY DEF LeaseInv, JobInv

\* A worker moves on with its claim or lets go of it.
LEMMA WorkerFrame ==
  ASSUME LeaseInv, UNCHANGED <<now, limit, child, crashes>>, NEW w \in Workers, NEW c \in Claims,
         worker' = [worker EXCEPT ![w] = c],
         Busy(c) => /\ Busy(worker[w]) /\ c.task = worker[w].task /\ c.slot = worker[w].slot
                    /\ c.epoch = worker[w].epoch /\ c.fence = worker[w].fence
  PROVE  Frame /\ NoLaunch
<1>1. worker \in [Workers -> Claims]
  BY DEF LeaseInv, Types
<1> QED BY <1>1 DEF LeaseInv, Types, Frame, NoLaunch, Live

LEMMA MovesOn ==
  ASSUME LeaseInv, NEW w \in Workers, NEW pc \in {"claimed", "launching", "watching", "ending"},
         SetWorker(w, pc)
  PROVE  /\ worker'[w] \in Claims /\ worker' = [worker EXCEPT ![w] = worker'[w]]
         /\ worker'[w].task = worker[w].task /\ worker'[w].slot = worker[w].slot
         /\ worker'[w].epoch = worker[w].epoch /\ worker'[w].fence = worker[w].fence
  BY DEF SetWorker, LeaseInv, Types, Claims

\* A process changes or begins.
LEMMA ChildFrame ==
  ASSUME LeaseInv, UNCHANGED <<now, limit, crashes>>,
         NEW t \in Tasks, NEW e \in Epochs, NEW c \in Children, SetChild(t, e, c),
         worker' \in [Workers -> Claims],
         \A w \in Workers : Busy(worker'[w]) =>
           /\ Busy(worker[w]) /\ worker'[w].task = worker[w].task
           /\ worker'[w].slot = worker[w].slot /\ worker'[w].epoch = worker[w].epoch
           /\ worker'[w].fence = worker[w].fence
  PROVE  /\ Frame
         /\ (c.st \in {"spawning", "alive"} => Live(t, e)) => NoLaunch
         /\ c.st \notin {"spawning", "alive"} => ~Live(t, e)'
         /\ \A u \in Tasks, f \in Epochs : child'[u][f] = IF u = t /\ f = e THEN c ELSE child[u][f]
<1>1. child \in [Tasks -> [Epochs -> Children]]
  BY DEF LeaseInv, Types
<1>2. /\ child' \in [Tasks -> [Epochs -> Children]]
      /\ \A u \in Tasks, f \in Epochs : child'[u][f] = IF u = t /\ f = e THEN c ELSE child[u][f]
  BY <1>1 DEF SetChild
<1>3. (c.st \in {"spawning", "alive"} => Live(t, e)) => NoLaunch
  BY <1>2 DEF Live, NoLaunch
<1>4. c.st \notin {"spawning", "alive"} => ~Live(t, e)'
  BY <1>2 DEF Live
<1> QED BY <1>2, <1>3, <1>4 DEF Frame, LeaseInv, Types
-----------------------------------------------------------------------------
\* The worker's own steps.

LEMMA BusyClaim ==
  ASSUME LeaseInv, NEW w \in Workers, Busy(worker[w])
  PROVE  /\ worker[w].task \in Tasks /\ worker[w].slot \in Slots /\ worker[w].epoch \in Epochs
         /\ GoodRecord(job[worker[w].task])
  BY DEF LeaseInv, WorkerInv, JobInv

LEMMA IdleClaim == NoClaim \in Claims /\ ~Busy(NoClaim)
  BY LeaseAssumption DEF LeaseAssumption, NoClaim, Claims, Busy

\* A tick that has not claimed anything yet moves on, or ends.
LEMMA TickBeginsKeeps ==
  ASSUME LeaseInv, NEW w \in Workers, ChecksReady(w) \/ RecoveryFails(w) PROVE Kept
<1>1. PICK pc \in {"ready", "idle"} : SetWorker(w, pc)
  BY DEF ChecksReady, RecoveryFails
<1> DEFINE c == [worker[w] EXCEPT !.pc = pc]
<1>2. worker[w] \in Claims
  BY DEF LeaseInv, Types
<1>3. c \in Claims /\ ~Busy(c)
  BY <1>2 DEF Claims, Busy
<1>4. worker' = [worker EXCEPT ![w] = c] /\ UNCHANGED <<now, limit, job, slot, child, crashes>>
  BY <1>1 DEF SetWorker, ChecksReady, RecoveryFails
<1> HIDE DEF c
<1>5. Frame /\ NoLaunch
  BY <1>3, <1>4, WorkerFrame
<1> QED BY <1>4, <1>5, SameRows, NoWrite

LEMMA ClaimNothingKeeps ==
  ASSUME LeaseInv, NEW w \in Workers, ClaimNothing(w) PROVE Kept
<1>1. Frame /\ NoLaunch
  BY IdleClaim, WorkerFrame DEF ClaimNothing
<1> QED BY <1>1, SameRows, NoWrite DEF ClaimNothing

LEMMA ClaimNextKeeps ==
  ASSUME LeaseInv, NEW w \in Workers, NEW t \in Tasks, ClaimNext(w, t) PROVE Kept
<1> DEFINE r == job[t]
<1>1. PICK s \in Slots :
        /\ slot[s].enabled /\ ~Held(s)
        /\ job' = [job EXCEPT ![t] = [r EXCEPT !.state = "leased", !.epoch = @ + 1,
                                              !.lease = LeaseExpiry,
                                              !.slot = s, !.fence = slot[s].fence + 1]]
        /\ slot' = [slot EXCEPT ![s] =
             [@ EXCEPT !.fence = slot[s].fence + 1, !.holder = w, !.task = t,
                       !.epoch = r.epoch + 1, !.expires = LeaseExpiry]]
        /\ worker' = [worker EXCEPT ![w] =
             [pc |-> "claimed", task |-> t, slot |-> s, epoch |-> r.epoch + 1,
              fence |-> slot[s].fence + 1]]
  BY DEF ClaimNext
<1>2. /\ r.state = "queued" /\ r.epoch < MaxEpoch /\ UNCHANGED <<now, limit, child, crashes>>
      /\ \A x \in Slots : slot[x].task # t
  BY DEF ClaimNext
<1>3. /\ Types /\ r \in JobRecords /\ GoodRecord(r) /\ slot[s] \in SlotRows
      /\ r.epoch \in Nat /\ slot[s].fence \in Nat /\ MaxEpoch \in Nat /\ LeaseExpiry \in Nat
  BY LeaseAssumption, ExpiryNat DEF LeaseAssumption, LeaseInv, JobInv, GoodRecord, Types, JobRecords, SlotRows
<1>4. r.slot = 0 /\ ~r.exec
  BY <1>2, <1>3, SlotOfJob DEF GoodRecord, ProcessOwningStates
<1>5. r.epoch + 1 \in Epochs /\ r.epoch + 1 \in 0..MaxEpoch /\ s \in 0..MaxSlots /\ s # 0
      /\ slot[s].fence + 1 \in Nat
  BY <1>2, <1>3, LeaseAssumption DEF LeaseAssumption, Epochs, Slots
<1>6. /\ GoodRecord(job'[t]) /\ job'[t].slot = s /\ job'[t].fence = slot[s].fence + 1
      /\ job'[t].epoch = r.epoch + 1 /\ job'[t].exec = r.exec /\ job'[t].result = r.result
      /\ \A u \in Tasks \ {t} : job'[u] = job[u]
  <2>1. job'[t] = [r EXCEPT !.state = "leased", !.epoch = r.epoch + 1, !.lease = LeaseExpiry,
                            !.slot = s, !.fence = slot[s].fence + 1]
        /\ \A u \in Tasks \ {t} : job'[u] = job[u]
    BY <1>1, <1>3 DEF Types
  <2>2. /\ job'[t] \in JobRecords /\ job'[t].slot = s /\ job'[t].fence = slot[s].fence + 1
        /\ job'[t].epoch = r.epoch + 1 /\ job'[t].exec = r.exec /\ job'[t].result = r.result
        /\ job'[t].state = "leased"
    <3> HIDE DEF r
    <3> QED BY <1>3, <1>5, <2>1 DEF JobRecords, States
  <2> QED BY <1>4, <1>5, <2>1, <2>2 DEF GoodRecord
<1>7. /\ slot'[s].task = t /\ slot'[s].holder = w /\ slot'[s].epoch = r.epoch + 1
      /\ slot'[s].fence = slot[s].fence + 1 /\ slot'[s].quarantined = slot[s].quarantined
      /\ slot' \in [Slots -> SlotRows] /\ \A x \in Slots \ {s} : slot'[x] = slot[x]
  BY <1>1, <1>3, <1>5 DEF Types, SlotRows
<1>8. /\ worker' \in [Workers -> Claims] /\ \A v \in Workers \ {w} : worker'[v] = worker[v]
      /\ worker'[w].task = t /\ worker'[w].slot = s /\ worker'[w].epoch = r.epoch + 1
      /\ worker'[w].fence = slot[s].fence + 1
  BY <1>1, <1>3, <1>5 DEF Types, Claims
<1>9. Types'
  BY <1>1, <1>2, <1>3, <1>6, <1>7, <1>8 DEF Types, GoodRecord
<1>10. ASSUME NEW u \in Tasks PROVE JobInv(u)'
  <2>1. CASE u = t
    BY <1>2, <1>4, <1>6, <1>7, <2>1, NoAttempt DEF JobInv, Live
  <2>2. CASE u # t
    <3>1. JobInv(u) /\ job'[u] = job[u] /\ (job[u].slot # 0 => job[u].slot \in Slots \ {s})
      BY <1>1, <1>6, <2>2, SlotOfJob DEF LeaseInv
    <3> QED BY <1>2, <1>7, <3>1 DEF JobInv, Live
  <2> QED BY <2>1, <2>2
<1>11. ASSUME NEW x \in Slots PROVE SlotInv(x)'
  <2>1. CASE x = s
    <3>1. slot'[s].quarantined = FALSE
      BY <1>1, <1>7 DEF LeaseInv, SlotInv, Types, SlotRows
    <3>2. Held(s)'
      BY <1>7, LeaseAssumption DEF LeaseAssumption, Held
    <3> QED BY <1>3, <1>6, <1>7, <2>1, <3>1, <3>2 DEF SlotInv
  <2>2. CASE x # s
    <3>1. SlotInv(x) /\ slot'[x] = slot[x] /\ slot[x].task # t
      BY <1>2, <1>7, <2>2 DEF LeaseInv
    <3> QED BY <1>6, <3>1 DEF SlotInv, Held
  <2> QED BY <2>1, <2>2
<1>12. ASSUME NEW v \in Workers PROVE WorkerInv(v)'
  <2>1. CASE v = w
    BY <1>5, <1>6, <1>8, <2>1 DEF WorkerInv
  <2>2. CASE v # w /\ Busy(worker[v])
    <3>1. WorkerInv(v) /\ worker'[v] = worker[v] /\ worker[v].epoch \in Nat
      BY <1>8, <2>2 DEF LeaseInv, WorkerInv, Epochs
    <3>2. worker[v].task = t => worker[v].epoch < job'[t].epoch
      BY <1>3, <1>6, <2>2, <3>1 DEF WorkerInv
    <3>3. CASE worker[v].task = t
      BY <1>3, <1>6, <2>2, <3>1, <3>2, <3>3 DEF WorkerInv
    <3>4. CASE worker[v].task # t
      BY <1>6, <2>2, <3>1, <3>4 DEF WorkerInv
    <3> QED BY <3>3, <3>4
  <2>3. CASE v # w /\ ~Busy(worker[v])
    BY <1>8, <2>3 DEF WorkerInv
  <2> QED BY <2>1, <2>2, <2>3
<1>13. FreezeStep
  BY <1>4, <1>6, FencedStep DEF Fenced
<1>14. PublishStep
  BY <1>6 DEF PublishStep
<1> QED BY <1>9, <1>10, <1>11, <1>12, <1>13, <1>14 DEF Kept, LeaseInv

\* The start of an attempt: the job holds its slot, and has no process.
LEMMA ExecuteStartKeeps ==
  ASSUME LeaseInv, NEW w \in Workers, ExecuteStart(w) PROVE Kept
<1> DEFINE t == worker[w].task
           e == worker[w].epoch
           c == [NoChild EXCEPT !.st = "spawning", !.owner = w]
<1>1. Busy(worker[w]) /\ t \in Tasks /\ e \in Epochs /\ GoodRecord(job[t])
  BY BusyClaim DEF ExecuteStart, Busy
<1>2. /\ job[t].state = "leased" /\ job[t].epoch = e /\ Fenced(t)
      /\ job' = [job EXCEPT ![t] = [@ EXCEPT !.state = "starting", !.exec = TRUE]]
      /\ SetChild(t, e, c) /\ SetWorker(w, "launching")
      /\ UNCHANGED <<now, limit, slot, crashes>>
  BY DEF ExecuteStart, MayExecute
<1>3. c \in Children /\ c.st = "spawning"
  BY DEF NoChild, Children
<1>4. job \in [Tasks -> JobRecords]
  BY DEF LeaseInv, Types
<1> HIDE DEF t, e, c
<1>5. /\ GoodRecord(job'[t]) /\ SameClaim(job[t], job'[t]) /\ job'[t].exec
      /\ job'[t].result = job[t].result
      /\ \A u \in Tasks \ {t} : job'[u] = job[u]
      /\ job' = [u \in Tasks |-> job'[u]]
  BY <1>1, <1>2, <1>4 DEF GoodRecord, SameClaim, JobRecords, States, ProcessOwningStates
<1>6. /\ Frame
      /\ \A u \in Tasks, f \in Epochs : child'[u][f] = IF u = t /\ f = e THEN c ELSE child[u][f]
  <2>1. worker' \in [Workers -> Claims] /\ \A v \in Workers : Busy(worker'[v]) =>
           /\ Busy(worker[v]) /\ worker'[v].task = worker[v].task
           /\ worker'[v].slot = worker[v].slot /\ worker'[v].epoch = worker[v].epoch
           /\ worker'[v].fence = worker[v].fence
    BY <1>1, <1>2 DEF SetWorker, LeaseInv, Types, Claims
  <2> QED BY <1>1, <1>2, <1>3, <2>1, ChildFrame
<1>7. ASSUME NEW u \in Tasks
      PROVE  /\ GoodRecord(job'[u]) /\ SameClaim(job[u], job'[u])
             /\ \A f \in Epochs : Live(u, f)' => job'[u].exec /\ job'[u].epoch = f
             /\ job'[u] = job[u] \/ Fenced(u)
             /\ job'[u].result => job[u].result
  <2>1. ASSUME NEW f \in Epochs, Live(u, f)' PROVE job'[u].exec /\ job'[u].epoch = f
    <3>1. CASE u = t /\ f = e
      BY <1>2, <1>5, <3>1 DEF SameClaim
    <3>2. CASE ~(u = t /\ f = e)
      <4>1. Live(u, f)
        BY <1>6, <2>1, <3>2 DEF Live
      <4> QED BY <1>5, <4>1 DEF LeaseInv, JobInv, SameClaim
    <3> QED BY <3>1, <3>2
  <2> QED BY <1>2, <1>5, <2>1 DEF LeaseInv, JobInv, SameClaim
<1>8. LeaseInv'
  BY <1>2, <1>5, <1>6, <1>7, SameRows, ClaimsStand
<1> QED BY <1>7, <1>8, FencedStep DEF Kept, PublishStep

LEMMA ExecuteRefusedKeeps ==
  ASSUME LeaseInv, NEW w \in Workers, ExecuteRefused(w) PROVE Kept
<1>0. PICK t \in Tasks : t = worker[w].task
  BY BusyClaim DEF ExecuteRefused, Busy
<1> DEFINE r == IF Fenced(t) THEN Swept(job[t]) ELSE job[t]
<1>1. Busy(worker[w]) /\ t \in Tasks /\ GoodRecord(job[t])
  BY <1>0, BusyClaim DEF ExecuteRefused, Busy
<1>2. Frame /\ NoLaunch /\ SameHolders
  BY <1>1, MovesOn, WorkerFrame, SameRows DEF ExecuteRefused
<1>3. job' = [job EXCEPT ![t] = r]
  BY <1>0 DEF ExecuteRefused
<1>4. Follows(job[t], r) /\ (job[t].exec => r.exec) /\ (r = job[t] \/ Fenced(t))
  BY <1>1, SweptFollows DEF Follows, SameClaim
<1>5. ~r.exec => \A e \in Epochs : ~Live(t, e)'
  <2> HIDE DEF r
  <2> QED BY <1>1, <1>2, <1>4, NoAttempt DEF NoLaunch
<1> HIDE DEF r
<1> QED BY <1>1, <1>2, <1>3, <1>4, <1>5, OneWrite

LEMMA LaunchTimedOutKeeps ==
  ASSUME LeaseInv, NEW w \in Workers, LaunchTimedOut(w) PROVE Kept
<1> DEFINE t == worker[w].task
<1>1. Busy(worker[w]) /\ t \in Tasks /\ GoodRecord(job[t])
  BY BusyClaim DEF LaunchTimedOut, Busy
<1>2. Frame /\ NoLaunch /\ SameHolders
  BY <1>1, MovesOn, WorkerFrame, SameRows DEF LaunchTimedOut
<1>3. CASE job' = job
  BY <1>2, <1>3, NoWrite
<1>4. CASE Owns(t, worker[w].epoch) /\ job[t].state = "starting"
           /\ job' = [job EXCEPT ![t] = Stopping(@, "failed")]
  <2>1. "failed" \in PendingStopOutcomes /\ job[t].state \in ProcessOwningStates
    BY <1>4 DEF PendingStopOutcomes, ProcessOwningStates
  <2>2. Follows(job[t], Stopping(job[t], "failed")) /\ Stopping(job[t], "failed").exec /\ Fenced(t)
    BY <1>1, <1>4, <2>1, StoppingFollows DEF Owns
  <2> QED BY <1>1, <1>2, <1>4, <2>2, OneWrite
<1> QED BY <1>3, <1>4 DEF LaunchTimedOut
\* A write of the core on behalf of no attempt.
LEMMA WriteKeeps ==
  ASSUME LeaseInv, NEW t \in Tasks, NEW r, Follows(job[t], r), job[t].exec => r.exec,
         Write(t, r), UNCHANGED <<now, limit, slot, worker, child, crashes>>
  PROVE  Kept
<1>1. Frame /\ NoLaunch /\ SameHolders
  BY StillFrame, SameRows
<1>2. ~r.exec => \A e \in Epochs : ~Live(t, e)'
  BY <1>1, NoAttempt DEF NoLaunch
<1> QED BY <1>1, <1>2, OneWrite DEF Write

LEMMA WatchSweepKeeps ==
  ASSUME LeaseInv, NEW w \in Workers, WatchSweep(w) PROVE Kept
<1>1. PICK t \in Tasks : t = worker[w].task /\ GoodRecord(job[t])
  BY BusyClaim DEF WatchSweep, Busy
<1> QED BY <1>1, SweptFollows, WriteKeeps DEF WatchSweep

LEMMA WatchStopKeeps ==
  ASSUME LeaseInv, NEW w \in Workers, WatchStop(w) PROVE Kept
<1>1. PICK t \in Tasks, e \in Epochs : t = worker[w].task /\ e = job[t].epoch /\ child[t][e].st = "alive"
  <2>1. worker[w].task \in Tasks /\ Busy(worker[w])
    BY BusyClaim DEF WatchStop, Busy
  <2>2. job[worker[w].task].slot # 0 /\ job[worker[w].task].epoch \in Epochs
    <3>1. job[worker[w].task].exec /\ GoodRecord(job[worker[w].task]) /\ WorkerInv(w)
      BY <2>1 DEF WatchStop, LeaseInv, JobInv
    <3> QED BY <2>1, <3>1, LeaseAssumption DEF LeaseAssumption, WorkerInv, GoodRecord, JobRecords, Epochs
  <2> QED BY <2>1, <2>2 DEF WatchStop
<1> DEFINE c == [child[t][e] EXCEPT !.stop = TRUE]
<1>2. c \in Children /\ c.st = "alive" /\ Live(t, e)
  <2>1. child[t][e] \in Children
    BY DEF LeaseInv, Types
  <2> QED BY <1>1, <2>1 DEF Children, Live
<1>3. SetChild(t, e, c) /\ UNCHANGED <<now, limit, job, slot, worker, crashes>>
  BY <1>1 DEF WatchStop
<1>4. worker' \in [Workers -> Claims] /\ worker' = worker
  BY <1>3 DEF LeaseInv, Types
<1> HIDE DEF c
<1>5. Frame /\ NoLaunch
  BY <1>2, <1>3, <1>4, ChildFrame
<1> QED BY <1>3, <1>5, SameRows, NoWrite

\* A heartbeat passes the same fence as a write.
LEMMA HeartbeatKeeps ==
  ASSUME LeaseInv, NEW w \in Workers, Heartbeat(w) PROVE Kept
<1>1. PICK t \in Tasks, s \in Slots : t = worker[w].task /\ s = worker[w].slot /\ GoodRecord(job[t])
  BY BusyClaim DEF Heartbeat, Busy
<1> DEFINE r == [job[t] EXCEPT !.lease = LeaseExpiry]
<1>2. /\ slot[s].task = t /\ slot[s].fence = worker[w].fence /\ slot[s].epoch = worker[w].epoch
      /\ job[t].epoch = worker[w].epoch
      /\ job' = [job EXCEPT ![t] = r]
      /\ slot' = [slot EXCEPT ![s] = [@ EXCEPT !.expires = LeaseExpiry]]
      /\ UNCHANGED <<now, limit, worker, child, crashes>>
  BY <1>1 DEF Heartbeat
<1>3. LeaseExpiry \in Nat
  BY ExpiryNat DEF LeaseInv, Types
<1>4. SameHolders
  BY <1>2, <1>3 DEF LeaseInv, Types, SameHolders, SlotRows
<1>5. Fenced(t)
  <2>1. job[t].slot = s /\ s # 0
    BY <1>2, JobOfSlot, LeaseAssumption DEF LeaseAssumption, Slots
  <2>2. WorkerInv(w) /\ Busy(worker[w])
    BY DEF LeaseInv, Heartbeat, Busy
  <2>3. worker[w].fence = job[t].fence
    BY <1>1, <1>2, <2>1, <2>2 DEF WorkerInv
  <2> QED BY <1>2, <2>1, <2>3 DEF Fenced
<1>6. Follows(job[t], r) /\ r.exec = job[t].exec
  BY <1>1, <1>3 DEF Follows, SameClaim, GoodRecord, JobRecords
<1>7. Frame /\ NoLaunch
  BY <1>2, StillFrame
<1>8. ~r.exec => \A e \in Epochs : ~Live(t, e)'
  <2> HIDE DEF r
  <2> QED BY <1>6, <1>7, NoAttempt DEF NoLaunch
<1> HIDE DEF r
<1> QED BY <1>2, <1>4, <1>5, <1>6, <1>7, <1>8, OneWrite

LEMMA WatchFinalKeeps ==
  ASSUME LeaseInv, NEW w \in Workers, WatchFinal(w) PROVE Kept
<1>1. Frame /\ NoLaunch
  BY MovesOn, WorkerFrame DEF WatchFinal, Busy
<1> QED BY <1>1, SameRows, NoWrite DEF WatchFinal

\* A claim is given back only for a job whose attempt is over.
LEMMA ReconcileKeeps ==
  ASSUME LeaseInv, NEW w \in Workers, Busy(worker[w]), Frame, NoLaunch,
         job[worker[w].task].state \in Final \cup {"deleting"}, ReconcileTermination(w)
  PROVE  Kept
<1>1. PICK t \in Tasks, s \in Slots : t = worker[w].task /\ s = worker[w].slot /\ GoodRecord(job[t])
  BY BusyClaim
<1>2. CASE UNCHANGED <<job, slot>>
  BY <1>2, SameRows, NoWrite
<1>3. CASE ~UNCHANGED <<job, slot>>
  <2> DEFINE r == [job[t] EXCEPT !.slot = 0, !.fence = 0]
  <2>1. /\ slot[s].task = t /\ job[t].slot = s
        /\ job' = [job EXCEPT ![t] = r]
        /\ slot' = [slot EXCEPT ![s] = FreeSlot(slot[s].enabled, slot[s].fence)]
    BY <1>1, <1>3 DEF ReconcileTermination, HoldsClaim
  <2>2. /\ GoodRecord(r) /\ r.slot = 0 /\ r.epoch = job[t].epoch /\ ~job[t].exec
        /\ r.result = job[t].result
    <3>1. ~job[t].exec /\ job[t].state \notin {"leased", "absent", "cancelling"}
      BY <1>1 DEF GoodRecord, Final, ProcessOwningStates
    <3>2. r \in JobRecords /\ r.slot = 0 /\ r.epoch = job[t].epoch /\ r.exec = job[t].exec
          /\ r.state = job[t].state /\ r.result = job[t].result
      <4>1. job[t] \in JobRecords /\ 0 \in 0..MaxSlots /\ 0 \in Nat
        BY <1>1, LeaseAssumption DEF LeaseAssumption, GoodRecord
      <4> QED BY <4>1 DEF JobRecords
    <3> HIDE DEF r
    <3> QED BY <3>1, <3>2 DEF GoodRecord
  <2>3. \A e \in Epochs : ~Live(t, e)'
    BY <2>2, NoAttempt DEF NoLaunch
  <2>4. slot[s].enabled \in BOOLEAN /\ job \in [Tasks -> JobRecords] /\ slot \in [Slots -> SlotRows]
    BY DEF LeaseInv, Types, SlotRows
  <2> HIDE DEF r
  <2>5. LeaseInv'
    BY <2>1, <2>2, <2>3, <2>4, GivenBack
  <2>6. FreezeStep
    <3>1. slot'[s].quarantined = FALSE
      BY <2>1, <2>4 DEF FreeSlot
    <3>2. \A x \in Slots \ {s} : slot[x].task # t
      BY <2>1, JobOfSlot
    <3> QED BY <2>1, <2>4, <3>1, <3>2 DEF FreezeStep
  <2>7. PublishStep
    BY <2>1, <2>2, <2>4 DEF PublishStep
  <2> QED BY <2>5, <2>6, <2>7 DEF Kept
<1> QED BY <1>2, <1>3

LEMMA WatchDeletingKeeps ==
  ASSUME LeaseInv, NEW w \in Workers, WatchDeleting(w) PROVE Kept
<1>1. Frame /\ NoLaunch /\ Busy(worker[w])
  BY IdleClaim, WorkerFrame DEF WatchDeleting, Busy
<1> QED BY <1>1, ReconcileKeeps DEF WatchDeleting

LEMMA EndTickKeeps ==
  ASSUME LeaseInv, NEW w \in Workers, EndTick(w) PROVE Kept
<1>1. Frame /\ NoLaunch /\ Busy(worker[w])
  BY IdleClaim, WorkerFrame DEF EndTick, Busy
<1>2. CASE job[worker[w].task].state \in Final
  BY <1>1, <1>2, ReconcileKeeps DEF EndTick
<1>3. CASE job[worker[w].task].state \notin Final
  BY <1>1, <1>3, SameRows, NoWrite DEF EndTick
<1> QED BY <1>2, <1>3

-----------------------------------------------------------------------------
\* Recovery: a claim with an attempt is isolated, its job left alone; one without
\* is given back.
LEMMA RecoverKeeps ==
  ASSUME LeaseInv, NEW w \in Workers, RecoverExpiredClaims(w) PROVE Kept
<1> DEFINE due == {s \in Slots : ExpiredClaim(s)}
           isolated == {s \in due : MustIsolate(job[slot[s].task])}
           released == {slot[s].task : s \in due \ isolated}
<1>1. /\ job' = [t \in Tasks |-> IF t \in released THEN Recovered(job[t]) ELSE job[t]]
      /\ slot' = [s \in Slots |->
           IF s \in isolated
           THEN [slot[s] EXCEPT !.enabled = FALSE, !.fence = @ + 1, !.quarantined = TRUE]
           ELSE IF s \in due THEN FreeSlot(slot[s].enabled, slot[s].fence)
           ELSE slot[s]]
      /\ SetWorker(w, "recovered") /\ worker[w].pc = "ready"
      /\ UNCHANGED <<now, limit, child, crashes>>
  BY DEF RecoverExpiredClaims
<1>2. ASSUME NEW s \in due
      PROVE  s \in Slots /\ Held(s) /\ ~slot[s].quarantined /\ slot[s].task \in Tasks
             /\ job[slot[s].task].slot = s
  BY DEF ExpiredClaim, LeaseInv, SlotInv
<1>3. /\ Frame /\ NoLaunch /\ Types /\ ~Busy(worker'[w])
      /\ \A v \in Workers \ {w} : worker'[v] = worker[v]
  <2>1. worker'[w] \in Claims /\ worker' = [worker EXCEPT ![w] = worker'[w]] /\ ~Busy(worker'[w])
    BY <1>1 DEF SetWorker, LeaseInv, Types, Claims, Busy
  <2> QED BY <1>1, <2>1, WorkerFrame DEF LeaseInv, Types
<1> HIDE DEF due, isolated, released
<1>4. ASSUME NEW t \in Tasks, t \in released
      PROVE  /\ GoodRecord(job[t]) /\ ~job[t].exec
             /\ \E s \in due \ isolated : slot[s].task = t /\ job[t].slot = s
  BY <1>2, <1>4 DEF released, isolated, MustIsolate, LeaseInv, JobInv
<1>5. ASSUME NEW t \in Tasks
      PROVE  /\ GoodRecord(job'[t]) /\ job'[t].epoch = job[t].epoch
             /\ job'[t].exec = job[t].exec \/ t \in released
             /\ (job'[t].result => job[t].result)
             /\ t \in released => job'[t].slot = 0 /\ ~job[t].exec
             /\ t \notin released => job'[t] = job[t]
  BY <1>1, <1>4, RecoveredFollows DEF LeaseInv, JobInv
<1>6. ASSUME NEW s \in Slots
      PROVE  /\ slot'[s] \in SlotRows
             /\ s \in isolated => /\ slot'[s].task = slot[s].task /\ slot'[s].holder = slot[s].holder
                                  /\ slot'[s].epoch = slot[s].epoch /\ slot'[s].quarantined = TRUE
                                  /\ slot'[s].fence = slot[s].fence + 1
             /\ s \in due \ isolated => /\ slot'[s].task = NoTask /\ slot'[s].holder = NoWorker
                                        /\ slot'[s].quarantined = FALSE
             /\ s \notin due => slot'[s] = slot[s]
  <2>1. slot[s] \in SlotRows /\ isolated \subseteq due
    BY <1>3 DEF Types, isolated
  <2>2. CASE s \in isolated
    <3>1. slot'[s] = [slot[s] EXCEPT !.enabled = FALSE, !.fence = @ + 1, !.quarantined = TRUE]
      BY <1>1, <2>2
    <3>2. slot[s].fence + 1 \in Nat
      BY <2>1 DEF SlotRows
    <3> QED BY <2>1, <2>2, <3>1, <3>2 DEF SlotRows
  <2>3. CASE s \in due \ isolated
    <3>1. slot'[s] = FreeSlot(slot[s].enabled, slot[s].fence)
      BY <1>1, <2>3
    <3>2. 0 \in 0..MaxEpoch
      BY LeaseAssumption DEF LeaseAssumption
    <3> QED BY <2>1, <2>3, <3>1, <3>2 DEF FreeSlot, SlotRows
  <2>4. CASE s \notin due
    BY <1>1, <2>1, <2>4
  <2> QED BY <2>1, <2>2, <2>3, <2>4
<1>7. Types'
  BY <1>1, <1>3, <1>5, <1>6 DEF Types, Frame, GoodRecord
<1>8. ASSUME NEW t \in Tasks PROVE JobInv(t)'
  <2>1. CASE t \in released
    BY <1>3, <1>5, <2>1, NoAttempt DEF JobInv, NoLaunch
  <2>2. CASE t \notin released
    <3>1. JobInv(t) /\ job'[t] = job[t]
      BY <1>5, <2>2 DEF LeaseInv
    <3>2. ASSUME job[t].slot # 0 PROVE slot'[job[t].slot].task = t
      <4>1. job[t].slot \in Slots /\ slot[job[t].slot].task = t
        BY <3>2, SlotOfJob
      <4>2. job[t].slot \notin due \ isolated
        BY <2>2, <4>1 DEF released
      <4> QED BY <1>6, <4>1, <4>2
    <3> QED BY <1>3, <1>5, <3>1, <3>2 DEF JobInv, NoLaunch
  <2> QED BY <2>1, <2>2
<1>9. ASSUME NEW s \in Slots PROVE SlotInv(s)'
  <2>1. CASE s \in due \ isolated
    BY <1>6, <2>1 DEF SlotInv, Held
  <2>2. CASE s \notin due \ isolated
    <3>1. SlotInv(s) /\ slot'[s].task = slot[s].task /\ slot'[s].holder = slot[s].holder
          /\ slot'[s].epoch = slot[s].epoch
      BY <1>6, <2>2 DEF LeaseInv
    <3>2. Held(s) => slot[s].task \in Tasks /\ slot[s].task \notin released
      <4> SUFFICES ASSUME Held(s), slot[s].task \in released PROVE FALSE
        BY <3>1 DEF SlotInv
      <4>1. slot[s].task \in Tasks /\ job[slot[s].task].slot = s
        BY <3>1 DEF SlotInv
      <4> QED BY <1>4, <2>2, <4>1
    <3>3. Held(s) => job'[slot[s].task] = job[slot[s].task]
      BY <1>5, <3>2
    <3>4. Held(s)' = Held(s)
      BY <3>1 DEF Held
    <3>5. CASE s \in isolated
      <4>1. s \in due /\ Held(s) /\ ~slot[s].quarantined
        BY <1>2, <3>5 DEF isolated
      <4>2. job[slot[s].task].fence \in Nat /\ slot[s].fence = job[slot[s].task].fence
        BY <3>1, <4>1 DEF SlotInv, LeaseInv, JobInv, GoodRecord, JobRecords
      <4>3. slot'[s].quarantined = TRUE /\ slot'[s].fence = slot[s].fence + 1
        BY <1>6, <3>5
      <4> QED BY <3>1, <3>2, <3>3, <3>4, <4>1, <4>2, <4>3 DEF SlotInv
    <3>6. CASE s \notin isolated
      <4>1. slot'[s] = slot[s]
        BY <1>6, <2>2, <3>6
      <4> QED BY <3>1, <3>2, <3>3, <3>4, <4>1 DEF SlotInv
    <3> QED BY <3>5, <3>6
  <2> QED BY <2>1, <2>2
<1>10. ASSUME NEW v \in Workers, Busy(worker'[v]) PROVE WorkerInv(v)'
  <2>1. v # w /\ WorkerInv(v) /\ worker'[v] = worker[v] /\ Busy(worker[v])
    BY <1>3, <1>10 DEF LeaseInv
  <2> QED BY <1>5, <2>1 DEF WorkerInv
<1>11. FreezeStep
  <2> SUFFICES ASSUME NEW s \in Slots, slot[s].quarantined
               PROVE  job'[slot[s].task] = job[slot[s].task]
    BY DEF FreezeStep
  <2>1. slot[s].task \in Tasks /\ job[slot[s].task].slot = s /\ s \notin due
    BY <1>2 DEF LeaseInv, SlotInv
  <2>2. slot[s].task \notin released
    BY <1>4, <2>1
  <2> QED BY <1>5, <2>1, <2>2
<1>12. PublishStep
  BY <1>5 DEF PublishStep
<1>13. \A v \in Workers : WorkerInv(v)'
  BY <1>10 DEF WorkerInv
<1> QED BY <1>7, <1>8, <1>9, <1>11, <1>12, <1>13 DEF Kept, LeaseInv
-----------------------------------------------------------------------------
\* A process settles, and the launch its worker waits for with it.

LEMMA LaunchWorkers ==
  ASSUME LeaseInv, NEW t \in Tasks, NEW e \in Epochs, LaunchSettled(t, e)
  PROVE  /\ worker' \in [Workers -> Claims]
         /\ \A w \in Workers : Busy(worker'[w]) =>
              /\ Busy(worker[w]) /\ worker'[w].task = worker[w].task
              /\ worker'[w].slot = worker[w].slot /\ worker'[w].epoch = worker[w].epoch
              /\ worker'[w].fence = worker[w].fence
<1>1. ASSUME NEW w \in Workers
      PROVE  /\ worker'[w] \in Claims
             /\ Busy(worker'[w]) =>
                  /\ Busy(worker[w]) /\ worker'[w].task = worker[w].task
                  /\ worker'[w].slot = worker[w].slot /\ worker'[w].epoch = worker[w].epoch
                  /\ worker'[w].fence = worker[w].fence
  <2>1. worker[w] \in Claims
    BY DEF LeaseInv, Types
  <2>2. \/ worker'[w] = worker[w]
        \/ worker[w].pc = "launching"
             /\ \E pc \in {"watching", "ending"} : worker'[w] = [worker[w] EXCEPT !.pc = pc]
    BY DEF LaunchSettled
  <2> QED BY <2>1, <2>2 DEF Claims, Busy
<1>2. worker' = [w \in Workers |-> worker'[w]]
  BY DEF LaunchSettled
<1> QED BY <1>1, <1>2

LEMMA SameWorkers ==
  ASSUME LeaseInv, worker' = worker
  PROVE  /\ worker' \in [Workers -> Claims]
         /\ \A w \in Workers : Busy(worker'[w]) =>
              /\ Busy(worker[w]) /\ worker'[w].task = worker[w].task
              /\ worker'[w].slot = worker[w].slot /\ worker'[w].epoch = worker[w].epoch
              /\ worker'[w].fence = worker[w].fence
  BY DEF LeaseInv, Types

LEMMA ChildType ==
  ASSUME LeaseInv, NEW t \in Tasks, NEW e \in Epochs
  PROVE  child[t][e] \in Children /\ GoodRecord(job[t]) /\ now \in Nat
  BY DEF LeaseInv, Types, JobInv

\* The attempt of e ends, and e was the only process the job could have.
LEMMA AttemptEnds ==
  ASSUME LeaseInv, NEW t \in Tasks, NEW e \in Epochs, job[t].epoch = e, NoLaunch, ~Live(t, e)'
  PROVE  \A f \in Epochs : ~Live(t, f)'
  BY DEF LeaseInv, JobInv, NoLaunch

LEMMA SpawnedKeeps ==
  ASSUME LeaseInv, NEW t \in Tasks, NEW e \in Epochs, Spawned(t, e) PROVE Kept
<1>1. PICK stop \in BOOLEAN :
        /\ SetChild(t, e, [child[t][e] EXCEPT !.st = "alive", !.stop = stop])
        /\ \/ UNCHANGED job
           \/ /\ Owns(t, e) /\ job[t].state = "starting"
              /\ job' = [job EXCEPT ![t] = [@ EXCEPT !.state = "running"]]
  BY DEF Spawned
<1> DEFINE c == [child[t][e] EXCEPT !.st = "alive", !.stop = stop]
<1>2. c \in Children /\ Live(t, e) /\ GoodRecord(job[t])
  BY ChildType DEF Children, Spawned, Live
<1>3. SetChild(t, e, c) /\ LaunchSettled(t, e) /\ UNCHANGED <<now, limit, slot, crashes>>
  BY <1>1 DEF Spawned
<1> HIDE DEF c
<1>4. Frame /\ NoLaunch
  BY <1>2, <1>3, LaunchWorkers, ChildFrame
<1>5. CASE UNCHANGED job
  BY <1>3, <1>4, <1>5, SameRows, NoWrite
<1>6. CASE Owns(t, e) /\ job[t].state = "starting"
           /\ job' = [job EXCEPT ![t] = [@ EXCEPT !.state = "running"]]
  <2> DEFINE r == [job[t] EXCEPT !.state = "running"]
  <2>1. Follows(job[t], r) /\ r.exec /\ Fenced(t)
    BY <1>2, <1>6 DEF Owns, Follows, SameClaim, GoodRecord, JobRecords, States, ProcessOwningStates
  <2>2. job' = [job EXCEPT ![t] = r]
    BY <1>6
  <2> HIDE DEF r
  <2> QED BY <1>3, <1>4, <2>1, <2>2, SameRows, OneWrite
<1> QED BY <1>1, <1>5, <1>6

\* A process is over or stays what it was; the job is not touched.
LEMMA ChildOnlyKeeps ==
  ASSUME LeaseInv, NEW t \in Tasks, NEW e \in Epochs, NEW c \in Children, SetChild(t, e, c),
         c.st \in {"spawning", "alive"} => Live(t, e),
         UNCHANGED <<now, limit, job, slot, worker, crashes>>
  PROVE  Kept
  BY SameWorkers, ChildFrame, SameRows, NoWrite

LEMMA SpawnFailsKeeps ==
  ASSUME LeaseInv, NEW t \in Tasks, NEW e \in Epochs, SpawnFails(t, e) PROVE Kept
<1>1. [child[t][e] EXCEPT !.st = "rejected"] \in Children
      /\ [child[t][e] EXCEPT !.st = "rejected"].st = "rejected"
  BY ChildType DEF Children
<1> QED BY <1>1, ChildOnlyKeeps DEF SpawnFails

LEMMA ChildExitsKeeps ==
  ASSUME LeaseInv, NEW t \in Tasks, NEW e \in Epochs, ChildExits(t, e) PROVE Kept
<1>1. [child[t][e] EXCEPT !.st = "exited", !.at = now] \in Children
      /\ [child[t][e] EXCEPT !.st = "exited", !.at = now].st = "exited"
  BY ChildType DEF Children
<1> QED BY <1>1, ChildOnlyKeeps DEF ChildExits

LEMMA PublishReadKeeps ==
  ASSUME LeaseInv, NEW t \in Tasks, NEW e \in Epochs, PublishRead(t, e) PROVE Kept
<1>1. [child[t][e] EXCEPT !.read = job[t].lease] \in Children /\ Live(t, e)
  BY ChildType DEF Children, PublishRead, Live, GoodRecord, JobRecords
<1> QED BY <1>1, ChildOnlyKeeps DEF PublishRead

\* Who publishes owns the attempt and passes the fence: it holds the slot.
LEMMA PublishCommitKeeps ==
  ASSUME LeaseInv, NEW t \in Tasks, NEW e \in Epochs, PublishCommit(t, e) PROVE Kept
<1> DEFINE c == [child[t][e] EXCEPT !.read = 0]
           current == /\ Owns(t, e) /\ job[t].state = "running"
                      /\ job[t].lease = child[t][e].read /\ ~job[t].result
           r == [job[t] EXCEPT !.result = @ \/ current]
<1>1. /\ job' = [job EXCEPT ![t] = r] /\ SetChild(t, e, c)
      /\ UNCHANGED <<now, limit, slot, worker, crashes>>
  <2>1. job' = [job EXCEPT ![t] = [job[t] EXCEPT !.result = job[t].result \/ current]]
    BY DEF PublishCommit
  <2>2. SetChild(t, e, c) /\ UNCHANGED <<now, limit, slot, worker, crashes>>
    BY DEF PublishCommit
  <2> QED BY <2>1, <2>2
<1>2. c \in Children /\ c.st = child[t][e].st /\ GoodRecord(job[t]) /\ job \in [Tasks -> JobRecords]
  BY ChildType DEF Children, LeaseInv, Types
<1>3. c.st \in {"spawning", "alive"} => Live(t, e)
  BY <1>2 DEF Live
<1>4. GoodRecord(r) /\ SameClaim(job[t], r) /\ r.exec = job[t].exec
  BY <1>2 DEF GoodRecord, SameClaim, JobRecords
<1>5. r = job[t] \/ current
  BY <1>2 DEF GoodRecord, JobRecords
<1>6. Frame /\ NoLaunch
  <2> HIDE DEF c
  <2> QED BY <1>1, <1>2, <1>3, SameWorkers, ChildFrame
<1>7. ASSUME NEW u \in Tasks
      PROVE  /\ GoodRecord(job'[u]) /\ SameClaim(job[u], job'[u])
             /\ \A f \in Epochs : Live(u, f)' => job'[u].exec /\ job'[u].epoch = f
             /\ job'[u] = job[u] \/ (u = t /\ current)
  <2> HIDE DEF r, c, current
  <2>1. CASE u = t
    BY <1>1, <1>2, <1>4, <1>5, <1>6, <2>1 DEF LeaseInv, JobInv, NoLaunch, SameClaim
  <2>2. CASE u # t
    BY <1>1, <1>2, <1>6, <2>2 DEF LeaseInv, JobInv, NoLaunch, SameClaim
  <2> QED BY <2>1, <2>2
<1>8. LeaseInv'
  <2>1. job' = [u \in Tasks |-> job'[u]] /\ DOMAIN job' = Tasks
    BY <1>1, <1>2
  <2> HIDE DEF r, c, current
  <2> QED BY <1>1, <1>6, <1>7, <2>1, SameRows, ClaimsStand
<1>9. FreezeStep
  BY <1>7, FencedStep DEF Owns
<1>10. PublishStep
  <2>1. ASSUME current
        PROVE  \E s \in Slots : /\ slot[s].task = t /\ slot[s].epoch = job[t].epoch
                                /\ slot[s].fence = job[t].fence
    <3>1. job[t].slot # 0 /\ Fenced(t)
      BY <1>2, <2>1 DEF Owns, GoodRecord
    <3>2. job[t].slot \in Slots
      BY <3>1, SlotOfJob
    <3> QED BY <3>1, <3>2 DEF Fenced
  <2> HIDE DEF current
  <2> QED BY <1>7, <2>1 DEF PublishStep
<1> QED BY <1>8, <1>9, <1>10 DEF Kept

LEMMA LaunchRejectedKeeps ==
  ASSUME LeaseInv, NEW t \in Tasks, NEW e \in Epochs, LaunchRejected(t, e) PROVE Kept
<1> DEFINE c == [child[t][e] EXCEPT !.st = "gone"]
           r == Settled(job[t], IF job[t].state = "cancelling" THEN StopTarget(job[t]) ELSE "failed", FALSE)
<1>1. /\ SetChild(t, e, c) /\ LaunchSettled(t, e) /\ UNCHANGED <<now, limit, slot, crashes>>
      /\ job' = IF Owns(t, e) THEN [job EXCEPT ![t] = r] ELSE job
  BY DEF LaunchRejected
<1>2. c \in Children /\ c.st = "gone" /\ GoodRecord(job[t])
  BY ChildType DEF Children
<1>3. Follows(job[t], r)
  <2>1. "failed" \in States \ (ProcessOwningStates \cup {"leased"})
    BY DEF States, ProcessOwningStates
  <2> QED BY <1>2, <2>1, StopTargetState, SettledFollows
<1> HIDE DEF c, r
<1>4. Frame /\ NoLaunch /\ ~Live(t, e)'
  BY <1>1, <1>2, LaunchWorkers, ChildFrame
<1>5. CASE Owns(t, e)
  <2>1. \A f \in Epochs : ~Live(t, f)'
    BY <1>4, <1>5, AttemptEnds DEF Owns
  <2> QED BY <1>1, <1>3, <1>4, <1>5, <2>1, SameRows, OneWrite DEF Owns
<1>6. CASE ~Owns(t, e)
  BY <1>1, <1>4, <1>6, SameRows, NoWrite
<1> QED BY <1>5, <1>6

LEMMA FinalizeKeeps ==
  ASSUME LeaseInv, NEW t \in Tasks, NEW e \in Epochs, Finalize(t, e) PROVE Kept
<1> DEFINE c == [child[t][e] EXCEPT !.st = "gone"]
<1>1. /\ SetChild(t, e, c) /\ UNCHANGED <<now, limit, slot, worker, crashes>>
      /\ IF Owns(t, e)
         THEN \E ok \in BOOLEAN :
                job' = [job EXCEPT ![t] = Terminated(job[t], ok, child[t][e].at)]
         ELSE job' = job
  BY DEF Finalize
<1>2. c \in Children /\ c.st = "gone" /\ GoodRecord(job[t])
  BY ChildType DEF Children
<1> HIDE DEF c
<1>3. Frame /\ NoLaunch /\ ~Live(t, e)'
  BY <1>1, <1>2, SameWorkers, ChildFrame
<1>4. CASE Owns(t, e)
  <2>1. PICK ok \in BOOLEAN : job' = [job EXCEPT ![t] = Terminated(job[t], ok, child[t][e].at)]
    BY <1>1, <1>4
  <2>2. Follows(job[t], Terminated(job[t], ok, child[t][e].at))
    BY <1>2, TerminatedFollows
  <2>3. \A f \in Epochs : ~Live(t, f)'
    BY <1>3, <1>4, AttemptEnds DEF Owns
  <2> QED BY <1>1, <1>3, <1>4, <2>1, <2>2, <2>3, SameRows, OneWrite DEF Owns
<1>5. CASE ~Owns(t, e)
  BY <1>1, <1>3, <1>5, SameRows, NoWrite
<1> QED BY <1>4, <1>5
-----------------------------------------------------------------------------
\* The API, the sweeper, the operator, crashes.

LEMMA CreateKeeps ==
  ASSUME LeaseInv, NEW t \in Tasks, Create(t) PROVE Kept
<1> DEFINE r == [NewJob EXCEPT !.state = "queued"]
<1>1. GoodRecord(job[t]) /\ job[t].state = "absent" /\ job' = [job EXCEPT ![t] = r]
      /\ UNCHANGED <<now, limit, slot, worker, child, crashes>>
  BY DEF Create, LeaseInv, JobInv
<1>2. job[t].slot = 0 /\ job[t].epoch = 0 /\ job[t].fence = 0 /\ ~job[t].exec
  BY <1>1 DEF GoodRecord, ProcessOwningStates
<1>3. r \in JobRecords /\ r.state = "queued" /\ r.exec = FALSE /\ r.result = FALSE
      /\ r.slot = 0 /\ r.epoch = 0 /\ r.fence = 0
  <2>1. 0 \in 0..MaxEpoch /\ 0 \in 0..MaxSlots /\ 0 \in Nat
    BY LeaseAssumption DEF LeaseAssumption
  <2> QED BY <2>1 DEF NewJob, JobRecords, States
<1> HIDE DEF r
<1>4. Follows(job[t], r)
  BY <1>2, <1>3 DEF Follows, SameClaim, GoodRecord
<1>5. Frame /\ NoLaunch /\ SameHolders
  BY <1>1, StillFrame, SameRows
<1>6. \A e \in Epochs : ~Live(t, e)'
  BY <1>2, <1>5, NoAttempt DEF NoLaunch
<1>7. Fenced(t)
  BY <1>2 DEF Fenced
<1> QED BY <1>1, <1>4, <1>5, <1>6, <1>7, OneWrite

LEMMA CancelKeeps ==
  ASSUME LeaseInv, NEW t \in Tasks, Cancel(t) PROVE Kept
<1>1. GoodRecord(job[t])
  BY DEF LeaseInv, JobInv
<1>2. UNCHANGED <<now, limit, slot, worker, child, crashes>>
  BY DEF Cancel
<1>3. CASE job[t].state \in {"queued", "leased"} /\ Write(t, Settled(job[t], "cancelled", FALSE))
  <2>1. "cancelled" \in States \ (ProcessOwningStates \cup {"leased"}) /\ ~job[t].exec
    BY <1>1, <1>3 DEF States, ProcessOwningStates, GoodRecord
  <2>2. Follows(job[t], Settled(job[t], "cancelled", FALSE))
    BY <1>1, <2>1, SettledFollows
  <2> QED BY <1>2, <1>3, <2>1, <2>2, WriteKeeps
<1>4. CASE job[t].state \in ProcessOwningStates /\ Write(t, Stopping(job[t], "cancelled"))
  <2>1. "cancelled" \in PendingStopOutcomes
    BY DEF PendingStopOutcomes
  <2>2. /\ Follows(job[t], Stopping(job[t], "cancelled"))
        /\ Stopping(job[t], "cancelled").exec = job[t].exec
    BY <1>1, <1>4, <2>1, StoppingFollows
  <2> QED BY <1>2, <1>4, <2>2, WriteKeeps
<1> QED BY <1>3, <1>4 DEF Cancel

LEMMA DeleteKeeps ==
  ASSUME LeaseInv, NEW t \in Tasks, Delete(t) PROVE Kept
<1>1. GoodRecord(job[t])
  BY DEF LeaseInv, JobInv
<1>2. UNCHANGED <<now, limit, slot, worker, child, crashes>>
  BY DEF Delete
<1>3. CASE job[t].state \notin ProcessOwningStates /\ Write(t, Settled(job[t], "deleting", FALSE))
  <2>1. "deleting" \in States \ (ProcessOwningStates \cup {"leased"}) /\ ~job[t].exec
    BY <1>1, <1>3 DEF States, ProcessOwningStates, GoodRecord
  <2>2. Follows(job[t], Settled(job[t], "deleting", FALSE))
    BY <1>1, <2>1, SettledFollows
  <2> QED BY <1>2, <1>3, <2>1, <2>2, WriteKeeps
<1>4. CASE job[t].state \in ProcessOwningStates /\ Write(t, Stopping(job[t], "deleted"))
  <2>1. "deleted" \in PendingStopOutcomes
    BY DEF PendingStopOutcomes
  <2>2. /\ Follows(job[t], Stopping(job[t], "deleted"))
        /\ Stopping(job[t], "deleted").exec = job[t].exec
    BY <1>1, <1>4, <2>1, StoppingFollows
  <2> QED BY <1>2, <1>4, <2>2, WriteKeeps
<1> QED BY <1>3, <1>4 DEF Delete

LEMMA CompleteDeletionKeeps ==
  ASSUME LeaseInv, NEW t \in Tasks, CompleteDeletion(t) PROVE Kept
<1>1. GoodRecord(job[t]) /\ job[t].state = "deleting"
  BY DEF LeaseInv, JobInv, CompleteDeletion
<1>2. "deleted" \in States \ (ProcessOwningStates \cup {"leased"}) /\ ~job[t].exec
  BY <1>1 DEF States, ProcessOwningStates, GoodRecord
<1>3. Follows(job[t], Settled(job[t], "deleted", FALSE))
  BY <1>1, <1>2, SettledFollows
<1> QED BY <1>2, <1>3, WriteKeeps DEF CompleteDeletion

LEMMA TemporalSweepKeeps ==
  ASSUME LeaseInv, NEW t \in Tasks, TemporalSweep(t) PROVE Kept
<1>1. CASE CompleteDeletion(t)
  BY <1>1, CompleteDeletionKeeps
<1>2. CASE Delete(t)
  BY <1>2, DeleteKeeps
<1>3. CASE Write(t, Swept(job[t])) /\ UNCHANGED <<now, limit, slot, worker, child, crashes>>
  <2>1. GoodRecord(job[t])
    BY DEF LeaseInv, JobInv
  <2> QED BY <1>3, <2>1, SweptFollows, WriteKeeps
<1> QED BY <1>1, <1>2, <1>3 DEF TemporalSweep

LEMMA ConfigureKeeps ==
  ASSUME LeaseInv, NEW n \in Slots, ConfigureCapacity(n) PROVE Kept
<1>1. UNCHANGED <<now, job, worker, child, crashes>> /\ limit' = n
  BY DEF ConfigureCapacity
<1>2. Frame /\ NoLaunch
  BY <1>1 DEF LeaseInv, Types, Frame, NoLaunch, Live
<1>3. SameHolders
  BY DEF ConfigureCapacity, SameHolders, LeaseInv, Types, SlotRows
<1> QED BY <1>1, <1>2, <1>3, NoWrite

LEMMA ReconcileQuarantinedKeeps ==
  ASSUME LeaseInv, NEW s \in Slots, ReconcileQuarantined(s) PROVE Kept
<1>1. PICK t \in Tasks : t = slot[s].task /\ GoodRecord(job[t]) /\ job[t].slot = s
  BY DEF ReconcileQuarantined, LeaseInv, SlotInv, JobInv
<1>2. PICK kind \in {"completed", "crashed", "terminated"}, at \in 0..now :
        job' = [job EXCEPT ![t] = [Reconciled(job[t], kind, at) EXCEPT !.slot = 0, !.fence = 0]]
  BY <1>1 DEF ReconcileQuarantined
<1> DEFINE q == Reconciled(job[t], kind, at)
           r == [q EXCEPT !.slot = 0, !.fence = 0]
<1>3. Follows(job[t], q) /\ ~q.exec /\ q.state \notin {"leased", "absent"}
  <2>1. Follows(job[t], q) /\ ~q.exec
    BY <1>1, ReconciledFollows
  <2>2. q.state \in {"expired", "timed_out", "deleting", "succeeded", "failed", "queued", "cancelled"}
    BY <1>1 DEF Reconciled, Settled, GoodRecord, JobRecords, PendingStopOutcomes
  <2> QED BY <2>1, <2>2
<1>4. /\ r \in JobRecords /\ r.slot = 0 /\ r.epoch = q.epoch /\ r.exec = q.exec
      /\ r.state = q.state /\ r.pending = q.pending /\ r.result = q.result
  <2>1. q \in JobRecords /\ 0 \in 0..MaxSlots /\ 0 \in Nat
    BY <1>3, LeaseAssumption DEF LeaseAssumption, Follows, GoodRecord
  <2> HIDE DEF q
  <2> QED BY <2>1 DEF JobRecords
<1>5. job' = [job EXCEPT ![t] = r] /\ job \in [Tasks -> JobRecords]
  BY <1>2 DEF LeaseInv, Types
<1>6. /\ ~Live(t, job[t].epoch) /\ slot' = [slot EXCEPT ![s] = FreeSlot(TRUE, slot[s].fence)]
      /\ UNCHANGED <<now, limit, worker, child, crashes>>
  BY <1>1 DEF ReconcileQuarantined
<1> HIDE DEF q, r
<1>7. GoodRecord(r) /\ r.epoch = job[t].epoch /\ (r.result => job[t].result)
  BY <1>3, <1>4 DEF Follows, SameClaim, GoodRecord
<1>8. Frame /\ NoLaunch
  BY <1>6, StillFrame
<1>9. \A e \in Epochs : ~Live(t, e)'
  BY <1>6, <1>8 DEF NoLaunch, LeaseInv, JobInv
<1>10. LeaseInv'
  BY <1>1, <1>4, <1>5, <1>6, <1>7, <1>8, <1>9, GivenBack
<1>11. FreezeStep
  <2>1. slot \in [Slots -> SlotRows]
    BY DEF LeaseInv, Types
  <2>2. slot'[s].quarantined = FALSE /\ \A x \in Slots \ {s} : slot[x].task # t
    BY <1>1, <1>6, <2>1, JobOfSlot DEF FreeSlot
  <2> QED BY <1>5, <2>1, <2>2 DEF FreezeStep
<1>12. PublishStep
  BY <1>5, <1>7 DEF PublishStep
<1> QED BY <1>10, <1>11, <1>12 DEF Kept

\* A crash leaves processes behind, and begins or ends none.
LEMMA CrashKeeps ==
  ASSUME LeaseInv, NEW w \in Workers, Crash(w) PROVE Kept
<1>1. child' = [t \in Tasks |-> [e \in Epochs |->
        IF child[t][e].owner = w THEN [child[t][e] EXCEPT !.owner = NoWorker] ELSE child[t][e]]]
  BY DEF Crash
<1>2. ASSUME NEW t \in Tasks, NEW e \in Epochs
      PROVE  child'[t][e] \in Children /\ child'[t][e].st = child[t][e].st
  <2>1. child[t][e] \in Children
    BY ChildType
  <2>2. child'[t][e] = IF child[t][e].owner = w THEN [child[t][e] EXCEPT !.owner = NoWorker]
                       ELSE child[t][e]
    BY <1>1
  <2> QED BY <2>1, <2>2 DEF Children
<1>3. child' \in [Tasks -> [Epochs -> Children]]
  BY <1>1, <1>2
<1>4. NoLaunch
  BY <1>2 DEF NoLaunch, Live
<1>5. worker' \in [Workers -> Claims] /\ \A v \in Workers : Busy(worker'[v]) => worker'[v] = worker[v]
  <2>1. [NoClaim EXCEPT !.pc = "down"] \in Claims /\ ~Busy([NoClaim EXCEPT !.pc = "down"])
    BY LeaseAssumption DEF LeaseAssumption, NoClaim, Claims, Busy
  <2>2. worker' = [worker EXCEPT ![w] = [NoClaim EXCEPT !.pc = "down"]]
    BY DEF Crash
  <2> QED BY <2>1, <2>2 DEF LeaseInv, Types
<1>6. crashes' \in 0..MaxCrashes /\ now' = now /\ limit' = limit
  BY LeaseAssumption DEF LeaseAssumption, Crash, LeaseInv, Types
<1>7. Frame
  BY <1>3, <1>5, <1>6 DEF Frame, LeaseInv, Types
<1> QED BY <1>4, <1>7, SameRows, NoWrite DEF Crash

LEMMA RestartKeeps ==
  ASSUME LeaseInv, NEW w \in Workers, Restart(w) PROVE Kept
<1>1. Frame /\ NoLaunch
  BY IdleClaim, WorkerFrame DEF Restart
<1> QED BY <1>1, SameRows, NoWrite DEF Restart

LEMMA TickKeeps == ASSUME LeaseInv, Tick PROVE Kept
<1>1. now' \in 0..MaxTime
  BY LeaseAssumption DEF LeaseAssumption, Tick, LeaseInv, Types
<1>2. Frame /\ NoLaunch
  BY <1>1 DEF Tick, Frame, NoLaunch, Live, LeaseInv, Types
<1> QED BY <1>2, SameRows, NoWrite DEF Tick

-----------------------------------------------------------------------------
\* Every step keeps the invariant, freezes quarantined jobs and publishes only
\* what a holder publishes.
LEMMA StepKeeps == ASSUME LeaseInv, [Next]_vars PROVE Kept
<1>1. CASE UNCHANGED vars
  BY <1>1, StillFrame, SameRows, NoWrite DEF vars
<1>2. CASE Tick
  BY <1>2, TickKeeps
<1>3. ASSUME NEW w \in Workers, WorkerStep(w) \/ Crash(w) \/ Restart(w) PROVE Kept
  <2>1. CASE Crash(w) \/ Restart(w)
    BY <2>1, CrashKeeps, RestartKeeps
  <2>2. CASE RecoverExpiredClaims(w)
    BY <2>2, RecoverKeeps
  <2>3. CASE ClaimNothing(w) \/ \E t \in Tasks : ClaimNext(w, t)
    BY <2>3, ClaimNothingKeeps, ClaimNextKeeps
  <2>13. CASE ChecksReady(w) \/ RecoveryFails(w)
    BY <2>13, TickBeginsKeeps
  <2>4. CASE ExecuteStart(w)
    BY <2>4, ExecuteStartKeeps
  <2>5. CASE ExecuteRefused(w)
    BY <2>5, ExecuteRefusedKeeps
  <2>6. CASE LaunchTimedOut(w)
    BY <2>6, LaunchTimedOutKeeps
  <2>7. CASE WatchSweep(w)
    BY <2>7, WatchSweepKeeps
  <2>8. CASE WatchStop(w)
    BY <2>8, WatchStopKeeps
  <2>9. CASE Heartbeat(w)
    BY <2>9, HeartbeatKeeps
  <2>10. CASE WatchFinal(w)
    BY <2>10, WatchFinalKeeps
  <2>11. CASE WatchDeleting(w)
    BY <2>11, WatchDeletingKeeps
  <2>12. CASE EndTick(w)
    BY <2>12, EndTickKeeps
  <2> QED BY <1>3, <2>1, <2>2, <2>3, <2>4, <2>5, <2>6, <2>7, <2>8, <2>9, <2>10, <2>11, <2>12,
            <2>13 DEF WorkerStep
<1>4. ASSUME NEW t \in Tasks, ControlStep(t) PROVE Kept
  BY <1>4, CreateKeeps, CancelKeeps, DeleteKeeps, CompleteDeletionKeeps, TemporalSweepKeeps
     DEF ControlStep
<1>5. ASSUME NEW t \in Tasks, NEW e \in Epochs, ChildStep(t, e) PROVE Kept
  BY <1>5, SpawnedKeeps, SpawnFailsKeeps, LaunchRejectedKeeps, ChildExitsKeeps, PublishReadKeeps,
     PublishCommitKeeps, FinalizeKeeps DEF ChildStep
<1>6. ASSUME NEW s \in Slots, ReconcileQuarantined(s) \/ ConfigureCapacity(s) PROVE Kept
  BY <1>6, ReconcileQuarantinedKeeps, ConfigureKeeps
<1> QED BY <1>1, <1>2, <1>3, <1>4, <1>5, <1>6 DEF Next

LEMMA LeaseInvariant == Spec => []LeaseInv
<1>1. Init => LeaseInv
  BY InitLease
<1>2. LeaseInv /\ [Next]_vars => LeaseInv'
  BY StepKeeps DEF Kept
<1> QED BY <1>1, <1>2, PTL DEF Spec

\* Types of the database rows, the workers' loops and the processes.
THEOREM LeaseTypes == Spec => []TypeOK
<1>1. LeaseInv => TypeOK
  BY LeaseInvImplies
<1> QED BY <1>1, LeaseInvariant, PTL

\* Slots, claim columns and processes agree, so no task ever has two processes and
\* the workers together never run more of them than there are slots, whoever
\* crashes (claimNext, compareAndSet, recoverExpiredClaims, reconcile...).
THEOREM SlotsMatch == Spec => []SlotsMatchClaims
<1>1. LeaseInv => SlotsMatchClaims
  BY LeaseInvImplies
<1> QED BY <1>1, LeaseInvariant, PTL

\* Nobody but the observation of its termination changes a job whose claim is
\* quarantined (recoverExpiredClaims moves the fence that compareAndSet compares).
THEOREM QuarantinedJobsAreFrozen == Spec => QuarantineFreezesJob
<1>1. LeaseInv /\ [Next]_vars =>
        [\A s \in Slots :
           slot[s].quarantined /\ slot'[s].quarantined
             => job'[slot[s].task] = job[slot[s].task]]_vars
  BY StepKeeps DEF Kept, FreezeStep
<1> QED BY <1>1, LeaseInvariant, PTL DEF Spec, QuarantineFreezesJob

\* A result is stored only by the attempt that holds a slot under the fence of its
\* claim (publishResult and the fenced compareAndSet).
THEOREM HoldersPublish == Spec => PublishedByHolder
<1>1. LeaseInv /\ [Next]_vars =>
        [\A t \in Tasks :
           ~job[t].result /\ job'[t].result =>
             \E s \in Slots : /\ slot[s].task = t /\ slot[s].epoch = job[t].epoch
                              /\ slot[s].fence = job[t].fence]_vars
  BY StepKeeps DEF Kept, PublishStep
<1> QED BY <1>1, LeaseInvariant, PTL DEF Spec, PublishedByHolder
-----------------------------------------------------------------------------
(* The workers together implement ComputeJobs *)

Works(t) == \E e \in Epochs : Live(t, e)

Answers(r) == r.state \in {"succeeded", "expired"} /\ r.result

\* A lease or a result goes with certain states only.
GoodAnswer(r) ==
  /\ r.lease # 0 => r.state \in ProcessOwningStates \cup {"leased"}
  /\ r.result => r.state \in ProcessOwningStates \cup {"succeeded", "expired"}

AnswerInv == \A t \in Tasks : GoodAnswer(job[t])

\* A deleted record stays deleted, and takes no slot again.
Stays(r, q) ==
  r.state = "deleted" => q.state = "deleted" /\ q.slot \in {0, r.slot}

\* How ComputeJobs sees a write to a record that begins no attempt; idle says
\* that no process works on the job.
Moves(r, q, idle) ==
  LET p == Phase(r.state)
      n == Phase(q.state)
  IN
  \/ p = n /\ (Answers(q) <=> Answers(r))
  \/ /\ \/ p = "absent" /\ n = "waiting"
        \/ p = "waiting" /\ n = "settled"
        \/ p = "removing" /\ n = "removed"
     /\ Answers(q) <=> Answers(r)
  \/ p \in {"waiting", "settled"} /\ n = "removing" /\ ~Answers(q)
  \/ p = "owned" /\ idle /\ n \in {"waiting", "settled", "removing"}

GoodMove(r, q, idle) == GoodAnswer(q) /\ Stays(r, q) /\ Moves(r, q, idle)

Shown ==
  /\ AnswerInv'
  /\ \A t \in Tasks : Stays(job[t], job'[t])
  /\ [Abstract!Next]_(Abstract!vars)

SameProcesses == \A t \in Tasks, e \in Epochs : Live(t, e)' <=> Live(t, e)

LEMMA Views ==
  ASSUME NEW t \in Tasks
  PROVE  /\ PhaseOf[t] = Phase(job[t].state)
         /\ WorkingOf[t] <=> Works(t)
         /\ AnsweredOf[t] <=> Answers(job[t])
BY DEF PhaseOf, WorkingOf, AnsweredOf, Works, Answers

LEMMA OnePhase ==
  ASSUME NEW t \in Tasks, \A u \in Tasks \ {t} : job'[u] = job[u],
         NEW p, p = Phase(job'[t].state)
  PROVE  PhaseOf' = [PhaseOf EXCEPT ![t] = p]
BY DEF PhaseOf

LEMMA OneAnswer ==
  ASSUME NEW t \in Tasks, \A u \in Tasks \ {t} : job'[u] = job[u],
         NEW a \in BOOLEAN, a <=> Answers(job'[t])
  PROVE  AnsweredOf' = [AnsweredOf EXCEPT ![t] = a]
BY DEF AnsweredOf, Answers

LEMMA SameAnswer ==
  ASSUME NEW t \in Tasks, \A u \in Tasks \ {t} : job'[u] = job[u],
         Answers(job[t]) <=> Answers(job'[t])
  PROVE  AnsweredOf' = AnsweredOf
BY DEF AnsweredOf, Answers

LEMMA SameWorkingOf == ASSUME SameProcesses PROVE WorkingOf' = WorkingOf
BY DEF SameProcesses, WorkingOf

LEMMA NoMove ==
  ASSUME LeaseInv, AnswerInv, job' = job, SameProcesses
  PROVE  Shown
<1>1. PhaseOf' = PhaseOf /\ AnsweredOf' = AnsweredOf
  BY DEF PhaseOf, AnsweredOf
<1>2. UNCHANGED Abstract!vars
  BY <1>1, SameWorkingOf DEF Abstract!vars
<1>3. \A t \in Tasks : Stays(job[t], job'[t])
  BY DEF Stays
<1> QED BY <1>2, <1>3 DEF Shown, AnswerInv

LEMMA OneMove ==
  ASSUME LeaseInv, AnswerInv, SameProcesses, NEW t \in Tasks, NEW q,
         job' = [job EXCEPT ![t] = q], GoodMove(job[t], q, ~Works(t))
  PROVE  Shown
<1> DEFINE r == job[t]
           n == Phase(q.state)
<1>1. job'[t] = q /\ \A u \in Tasks \ {t} : job'[u] = job[u]
  BY DEF LeaseInv, Types
<1>2. AnswerInv' /\ \A u \in Tasks : Stays(job[u], job'[u])
  BY <1>1 DEF AnswerInv, GoodMove, Stays
<1>3. /\ PhaseOf' = [PhaseOf EXCEPT ![t] = n]
      /\ WorkingOf' = WorkingOf
  BY <1>1, SameWorkingOf, OnePhase
<1>4. /\ PhaseOf[t] = Phase(r.state) /\ (WorkingOf[t] <=> Works(t))
      /\ n = Phase(r.state) => PhaseOf' = PhaseOf
  BY <1>3, Views DEF PhaseOf
<1>5. /\ (Answers(q) <=> Answers(r)) => AnsweredOf' = AnsweredOf
      /\ ~Answers(q) => AnsweredOf' = [AnsweredOf EXCEPT ![t] = FALSE]
      /\ Answers(q) => AnsweredOf' = [AnsweredOf EXCEPT ![t] = TRUE]
  BY <1>1, SameAnswer, OneAnswer
<1>6. ASSUME \/ Abstract!Submit(t) \/ Abstract!Release(t) \/ Abstract!Settle({t})
             \/ Abstract!Remove(t) \/ Abstract!Removed(t)
      PROVE  [Abstract!Next]_(Abstract!vars)
  BY <1>6 DEF Abstract!Next, Abstract!vars
<1> HIDE DEF n
<1>7. CASE n = Phase(r.state) /\ (Answers(q) <=> Answers(r))
  BY <1>2, <1>3, <1>4, <1>5, <1>7 DEF Shown, Abstract!vars
<1>8. CASE /\ Answers(q) <=> Answers(r)
           /\ \/ Phase(r.state) = "absent" /\ n = "waiting"
              \/ Phase(r.state) = "waiting" /\ n = "settled"
              \/ Phase(r.state) = "removing" /\ n = "removed"
  <2>1. ASSUME Phase(r.state) = "waiting", n = "settled" PROVE Abstract!Settle({t})
    <3>1. PhaseOf' = [j \in Tasks |-> IF j \in {t} THEN "settled" ELSE PhaseOf[j]]
      BY <1>3, <2>1 DEF PhaseOf
    <3> QED BY <1>3, <1>4, <1>5, <1>8, <2>1, <3>1 DEF Abstract!Settle
  <2>2. Abstract!Submit(t) \/ Abstract!Settle({t}) \/ Abstract!Removed(t)
    BY <1>3, <1>4, <1>5, <1>8, <2>1 DEF Abstract!Submit, Abstract!Removed
  <2> QED BY <1>2, <1>6, <2>2 DEF Shown
<1>9. CASE Phase(r.state) \in {"waiting", "settled"} /\ n = "removing" /\ ~Answers(q)
  <2>1. AnsweredOf' = [AnsweredOf EXCEPT ![t] = FALSE]
    BY <1>5, <1>9
  <2>2. Abstract!Remove(t)
    BY <1>3, <1>4, <1>9, <2>1 DEF Abstract!Remove
  <2> QED BY <1>2, <1>6, <2>2 DEF Shown
<1>10. CASE Phase(r.state) = "owned" /\ ~Works(t) /\ n \in {"waiting", "settled", "removing"}
  <2>1. ~Answers(r)
    BY <1>10 DEF Phase, Answers, ProcessOwningStates
  <2>2. Answers(q) => n = "settled" /\ AnsweredOf' = [AnsweredOf EXCEPT ![t] = TRUE]
    BY <1>5 DEF Phase, Answers, ProcessOwningStates, n
  <2>3. Abstract!Release(t)
    BY <1>3, <1>4, <1>5, <1>10, <2>1, <2>2 DEF Abstract!Release
  <2> QED BY <1>2, <1>6, <2>3 DEF Shown
<1> QED BY <1>7, <1>8, <1>9, <1>10 DEF GoodMove, Moves, n

\* Several waiting jobs may settle at once.
LEMMA ManySettle ==
  ASSUME LeaseInv, AnswerInv, SameProcesses, NEW S \in SUBSET Tasks,
         \A t \in Tasks \ S : job'[t] = job[t],
         \A t \in S : /\ GoodAnswer(job'[t]) /\ Phase(job[t].state) = "waiting"
                      /\ ~Answers(job'[t]),
         \/ \A t \in S : Phase(job'[t].state) = "waiting"
         \/ \A t \in S : Phase(job'[t].state) = "settled"
  PROVE  Shown
<1>1. AnswerInv' /\ \A t \in Tasks : Stays(job[t], job'[t])
  BY DEF AnswerInv, Stays, Phase, ProcessOwningStates
<1>2. \A t \in S : ~Answers(job[t])
  BY DEF Phase, Answers, ProcessOwningStates
<1>3. AnsweredOf' = AnsweredOf /\ WorkingOf' = WorkingOf
  BY <1>2, SameWorkingOf DEF AnsweredOf, Answers
<1>4. CASE \A t \in S : Phase(job'[t].state) = "waiting"
  <2>1. PhaseOf' = PhaseOf
    BY <1>4 DEF PhaseOf
  <2> QED BY <1>1, <1>3, <2>1 DEF Shown, Abstract!vars
<1>5. CASE \A t \in S : Phase(job'[t].state) = "settled"
  <2>1. PhaseOf' = [j \in Tasks |-> IF j \in S THEN "settled" ELSE PhaseOf[j]]
    BY <1>5 DEF PhaseOf
  <2>2. \A j \in S : PhaseOf[j] = "waiting"
    BY DEF PhaseOf
  <2>3. Abstract!Settle(S)
    BY <1>3, <2>1, <2>2 DEF Abstract!Settle
  <2>4. [Abstract!Next]_(Abstract!vars)
    BY <2>3 DEF Abstract!Next, Abstract!vars
  <2> QED BY <1>1, <2>4 DEF Shown
<1> QED BY <1>4, <1>5

-----------------------------------------------------------------------------
\* The moves of a record that a write makes.

LEMMA SameMove ==
  ASSUME NEW r, GoodAnswer(r), NEW idle
  PROVE  GoodMove(r, r, idle)
BY DEF GoodMove, Moves, Stays

LEMMA WaitingSettles ==
  ASSUME NEW r, GoodRecord(r), GoodAnswer(r), r.state \in {"queued", "leased"}, NEW idle,
         NEW state \in {"queued", "cancelled", "timed_out", "expired", "deleting"}
  PROVE  GoodMove(r, Settled(r, state, FALSE), idle)
<1> DEFINE q == Settled(r, state, FALSE)
<1>1. q.state = state /\ q.lease = 0 /\ q.result = FALSE
  BY DEF Settled, GoodRecord, JobRecords
<1> HIDE DEF q
<1>2. GoodAnswer(q) /\ Stays(r, q) /\ ~Answers(q) /\ ~Answers(r)
  BY <1>1 DEF GoodAnswer, Stays, Answers
<1>3. Phase(r.state) = "waiting" /\ Phase(q.state) \in {"waiting", "settled", "removing"}
  BY <1>1 DEF Phase, ProcessOwningStates
<1> QED BY <1>2, <1>3 DEF GoodMove, Moves, q

LEMMA OwnedSettles ==
  ASSUME NEW r, GoodRecord(r), r.state \in ProcessOwningStates, NEW idle, idle,
         NEW state \in {"queued", "failed", "cancelled", "timed_out", "expired", "deleting",
                        "succeeded"},
         NEW result \in BOOLEAN, result => state = "succeeded"
  PROVE  GoodMove(r, Settled(r, state, result), idle)
<1> DEFINE q == Settled(r, state, result)
<1>1. q.state = state /\ q.lease = 0 /\ q.result = result
  BY DEF Settled, GoodRecord, JobRecords
<1> HIDE DEF q
<1>2. GoodAnswer(q) /\ Stays(r, q)
  BY <1>1 DEF GoodAnswer, Stays, ProcessOwningStates
<1>3. Phase(r.state) = "owned" /\ Phase(q.state) \in {"waiting", "settled", "removing"}
  BY <1>1 DEF Phase, ProcessOwningStates
<1> QED BY <1>2, <1>3 DEF GoodMove, Moves, q

\* A job that is settled expires with its result, or is deleted.
LEMMA EndedExpires ==
  ASSUME NEW r, GoodRecord(r), GoodAnswer(r), NEW idle,
         r.state \in {"succeeded", "failed", "cancelled", "timed_out", "expired"}
  PROVE  GoodMove(r, Settled(r, "expired", r.result), idle)
<1> DEFINE q == Settled(r, "expired", r.result)
<1>1. q.state = "expired" /\ q.lease = 0 /\ q.result = r.result
  BY DEF Settled, GoodRecord, JobRecords
<1> HIDE DEF q
<1>2. GoodAnswer(q) /\ Stays(r, q) /\ (Answers(q) <=> Answers(r))
  BY <1>1 DEF GoodAnswer, Stays, Answers, ProcessOwningStates
<1>3. Phase(r.state) = "settled" /\ Phase(q.state) = "settled"
  BY <1>1 DEF Phase, ProcessOwningStates
<1> QED BY <1>2, <1>3 DEF GoodMove, Moves, q

LEMMA EndedDeletes ==
  ASSUME NEW r, NEW idle, NEW q, q.state = "deleting", q.lease = 0, ~q.result,
         r.state \in {"succeeded", "failed", "cancelled", "timed_out", "expired"}
  PROVE  GoodMove(r, q, idle)
<1>1. GoodAnswer(q) /\ Stays(r, q) /\ ~Answers(q)
  BY DEF GoodAnswer, Stays, Answers
<1>2. Phase(r.state) = "settled" /\ Phase(q.state) = "removing"
  BY DEF Phase, ProcessOwningStates
<1> QED BY <1>1, <1>2 DEF GoodMove, Moves

LEMMA DeletingSettles ==
  ASSUME NEW r, GoodRecord(r), r.state = "deleting", NEW idle
  PROVE  GoodMove(r, Settled(r, "deleted", FALSE), idle)
<1> DEFINE q == Settled(r, "deleted", FALSE)
<1>1. q.state = "deleted" /\ q.lease = 0 /\ q.result = FALSE
  BY DEF Settled, GoodRecord, JobRecords
<1> HIDE DEF q
<1>2. GoodAnswer(q) /\ Stays(r, q) /\ (Answers(q) <=> Answers(r))
  BY <1>1 DEF GoodAnswer, Stays, Answers
<1>3. Phase(r.state) = "removing" /\ Phase(q.state) = "removed"
  BY <1>1 DEF Phase, ProcessOwningStates
<1> QED BY <1>2, <1>3 DEF GoodMove, Moves, q

\* A stop leaves the job with its process.
LEMMA StoppingMove ==
  ASSUME NEW r, GoodRecord(r), GoodAnswer(r), r.state \in ProcessOwningStates, NEW pending, NEW idle
  PROVE  GoodMove(r, Stopping(r, pending), idle)
<1> DEFINE q == Stopping(r, pending)
<1>1. q.state = "cancelling" /\ q.lease = r.lease /\ q.result = r.result
  BY DEF Stopping, GoodRecord, JobRecords
<1> HIDE DEF q
<1>2. GoodAnswer(q) /\ Stays(r, q) /\ ~Answers(q) /\ ~Answers(r)
  BY <1>1 DEF GoodAnswer, Stays, Answers, ProcessOwningStates
<1>3. Phase(r.state) = "owned" /\ Phase(q.state) = "owned"
  BY <1>1 DEF Phase, ProcessOwningStates
<1> QED BY <1>2, <1>3 DEF GoodMove, Moves, q

LEMMA SweptMove ==
  ASSUME NEW r, GoodRecord(r), GoodAnswer(r), NEW idle
  PROVE  GoodMove(r, Swept(r), idle)
<1>1. CASE Swept(r) = r
  BY <1>1, SameMove
<1>2. CASE r.state = "cancelling" /\ Swept(r) = [r EXCEPT !.pending = TemporalOutcome(now)]
  <2>1. /\ Swept(r).state = r.state /\ Swept(r).lease = r.lease /\ Swept(r).result = r.result
        /\ Swept(r).slot = r.slot
    BY <1>2 DEF GoodRecord, JobRecords
  <2> QED BY <2>1 DEF GoodMove, Moves, Stays, GoodAnswer, Answers
<1>3. CASE r.state \in ProcessOwningStates /\ Swept(r) = Stopping(r, TemporalOutcome(now))
  BY <1>3, StoppingMove
<1>4. CASE r.state \in {"queued", "leased"}
           /\ \/ Swept(r) = Settled(r, "expired", r.result)
              \/ Swept(r) = Settled(r, TemporalOutcome(now), FALSE)
  <2>1. r.result = FALSE
    BY <1>4 DEF GoodAnswer, GoodRecord, JobRecords, ProcessOwningStates
  <2> QED BY <1>4, <2>1, OutcomeState, WaitingSettles
<1>5. CASE r.state \in {"succeeded", "failed", "cancelled", "timed_out", "expired"}
           /\ Swept(r) = Settled(r, "expired", r.result)
  BY <1>5, EndedExpires
<1> QED BY <1>1, <1>2, <1>3, <1>4, <1>5
       DEF Swept, GoodRecord, JobRecords, States, ProcessOwningStates

LEMMA TerminatedMove ==
  ASSUME NEW r, GoodRecord(r), r.state \in ProcessOwningStates, NEW ok \in BOOLEAN, NEW at,
         NEW idle, idle
  PROVE  GoodMove(r, Terminated(r, ok, at), idle)
<1>1. CASE r.state = "cancelling"
  <2>1. StopTarget(r) \in {"queued", "failed", "cancelled", "timed_out", "expired", "deleting"}
    BY <1>1 DEF GoodRecord, JobRecords, StopTarget, PendingStopOutcomes
  <2> QED BY <1>1, <2>1, OwnedSettles DEF Terminated
<1>2. CASE r.state # "cancelling"
  <2>1. \/ Terminated(r, ok, at) = Settled(r, TemporalOutcome(at), FALSE)
        \/ Terminated(r, ok, at) = Settled(r, "succeeded", TRUE)
        \/ Terminated(r, ok, at) = Settled(r, "failed", FALSE)
    BY <1>2 DEF Terminated
  <2> QED BY <2>1, OutcomeState, OwnedSettles
<1> QED BY <1>1, <1>2

LEMMA ReconciledMove ==
  ASSUME NEW r, GoodRecord(r), r.state \in ProcessOwningStates, NEW kind, NEW at, NEW idle, idle
  PROVE  GoodMove(r, Reconciled(r, kind, at), idle)
<1>1. PICK state \in {"expired", "timed_out", "deleting", "succeeded", "failed", "queued",
                      "cancelled"}, result \in BOOLEAN :
        Reconciled(r, kind, at) = Settled(r, state, result) /\ (result => state = "succeeded")
  BY DEF Reconciled, GoodRecord, JobRecords, PendingStopOutcomes
<1> QED BY <1>1, OwnedSettles

\* The claim columns of a record do not show.
LEMMA Unclaimed ==
  ASSUME NEW r, NEW q \in JobRecords, NEW idle, GoodMove(r, q, idle)
  PROVE  GoodMove(r, [q EXCEPT !.slot = 0, !.fence = 0], idle)
<1> DEFINE u == [q EXCEPT !.slot = 0, !.fence = 0]
<1>1. u.state = q.state /\ u.lease = q.lease /\ u.result = q.result /\ u.slot = 0
  BY DEF JobRecords
<1> HIDE DEF u
<1> QED BY <1>1 DEF GoodMove, GoodAnswer, Stays, Moves, Answers, u

-----------------------------------------------------------------------------
\* The steps of the workers.

LEMMA SameChildren == ASSUME child' = child PROVE SameProcesses
BY DEF SameProcesses, Live

LEMMA RecordOf ==
  ASSUME LeaseInv, AnswerInv, NEW t \in Tasks
  PROVE  GoodRecord(job[t]) /\ GoodAnswer(job[t])
BY DEF LeaseInv, JobInv, AnswerInv

\* Steps that touch neither a record nor a process.
LEMMA QuietShows ==
  ASSUME LeaseInv, AnswerInv,
         \/ Tick \/ \E s \in Slots : ConfigureCapacity(s)
         \/ \E w \in Workers : \/ ChecksReady(w) \/ RecoveryFails(w) \/ ClaimNothing(w)
                               \/ WatchFinal(w) \/ Restart(w)
  PROVE  Shown
<1>1. job' = job /\ child' = child
  BY DEF Tick, ConfigureCapacity, ChecksReady, RecoveryFails, ClaimNothing, WatchFinal, Restart
<1> QED BY <1>1, SameChildren, NoMove

LEMMA CrashShows ==
  ASSUME LeaseInv, AnswerInv, NEW w \in Workers, Crash(w) PROVE Shown
<1>1. SameProcesses
  <2> SUFFICES ASSUME NEW t \in Tasks, NEW e \in Epochs
               PROVE  child'[t][e].st = child[t][e].st
    BY DEF SameProcesses, Live
  <2>1. child[t][e] \in Children
    BY ChildType
  <2>2. child'[t][e] = IF child[t][e].owner = w THEN [child[t][e] EXCEPT !.owner = NoWorker]
                       ELSE child[t][e]
    BY DEF Crash
  <2> QED BY <2>1, <2>2 DEF Children
<1> QED BY <1>1, NoMove DEF Crash

\* A child changes without beginning or ending.
LEMMA ChildStays ==
  ASSUME LeaseInv, NEW t \in Tasks, NEW e \in Epochs, NEW c, SetChild(t, e, c),
         c.st \in {"spawning", "alive"} <=> Live(t, e)
  PROVE  SameProcesses
<1>1. \A u \in Tasks, f \in Epochs : child'[u][f] = IF u = t /\ f = e THEN c ELSE child[u][f]
  BY DEF LeaseInv, Types, SetChild
<1> QED BY <1>1 DEF SameProcesses, Live

LEMMA WatchStopShows ==
  ASSUME LeaseInv, AnswerInv, NEW w \in Workers, WatchStop(w) PROVE Shown
<1>1. PICK t \in Tasks : t = worker[w].task
  BY BusyClaim DEF WatchStop, Busy
<1>2. job[t].exec /\ GoodRecord(job[t]) /\ WorkerInv(w) /\ Busy(worker[w])
  BY <1>1 DEF WatchStop, LeaseInv, JobInv, Busy
<1>3. job[t].epoch \in Epochs
  BY <1>1, <1>2, LeaseAssumption DEF LeaseAssumption, WorkerInv, GoodRecord, JobRecords, Epochs
<1>4. PICK e \in Epochs : e = job[t].epoch
  BY <1>3
<1> DEFINE c == [child[t][e] EXCEPT !.stop = TRUE]
<1>5. SetChild(t, e, c) /\ child[t][e].st = "alive" /\ UNCHANGED job
  BY <1>1, <1>4 DEF WatchStop
<1>6. c.st = "alive"
  BY <1>5, ChildType DEF Children
<1> HIDE DEF c
<1>7. SameProcesses
  BY <1>5, <1>6, ChildStays DEF Live
<1> QED BY <1>5, <1>7, NoMove

LEMMA RecoverShows ==
  ASSUME LeaseInv, AnswerInv, NEW w \in Workers, RecoverExpiredClaims(w) PROVE Shown
<1> DEFINE due == {s \in Slots : ExpiredClaim(s)}
           isolated == {s \in due : MustIsolate(job[slot[s].task])}
           released == {slot[s].task : s \in due \ isolated}
<1>1. /\ job' = [t \in Tasks |-> IF t \in released THEN Recovered(job[t]) ELSE job[t]]
      /\ \A s \in due : ~RecoveryConflict(s)
      /\ child' = child
  BY DEF RecoverExpiredClaims
<1>2. ASSUME NEW t \in released
      PROVE  t \in Tasks /\ job[t].state = "leased" /\ job[t].result = FALSE
  <2>1. PICK s \in due \ isolated : t = slot[s].task
    OBVIOUS
  <2>2. t \in Tasks /\ job[t].lease # 0 /\ job[t].state \notin ProcessOwningStates
    BY <1>1, <2>1 DEF RecoveryConflict, MustIsolate, ExpiredClaim, LeaseInv, SlotInv
  <2>3. GoodRecord(job[t]) /\ GoodAnswer(job[t])
    BY <2>2, RecordOf
  <2> QED BY <2>2, <2>3 DEF GoodAnswer, GoodRecord, JobRecords, ProcessOwningStates
<1> DEFINE state == IF now >= Deadline THEN TemporalOutcome(now) ELSE "queued"
<1>3. ASSUME NEW t \in released
      PROVE  /\ job'[t].state = state /\ job'[t].lease = 0 /\ job'[t].result = FALSE
  <2>1. job'[t] = Recovered(job[t])
    BY <1>1, <1>2
  <2>2. job[t] \in JobRecords
    BY <1>2 DEF LeaseInv, JobInv, GoodRecord
  <2> QED BY <1>2, <2>1, <2>2 DEF Recovered, Settled, JobRecords
<1>4. state \in {"queued", "timed_out", "expired"}
  BY OutcomeState
<1>5. \A t \in Tasks \ released : job'[t] = job[t]
  BY <1>1
<1> HIDE DEF due, isolated, released, state
<1>6. ASSUME NEW t \in released
      PROVE  GoodAnswer(job'[t]) /\ Phase(job[t].state) = "waiting" /\ ~Answers(job'[t])
  BY <1>2, <1>3 DEF GoodAnswer, Phase, Answers, ProcessOwningStates
<1>7. \/ \A t \in released : Phase(job'[t].state) = "waiting"
      \/ \A t \in released : Phase(job'[t].state) = "settled"
  BY <1>3, <1>4 DEF Phase, ProcessOwningStates
<1>8. released \in SUBSET Tasks
  BY <1>2
<1> QED BY <1>1, <1>5, <1>6, <1>7, <1>8, SameChildren, ManySettle

LEMMA ClaimNextShows ==
  ASSUME LeaseInv, AnswerInv, NEW w \in Workers, NEW t \in Tasks, ClaimNext(w, t) PROVE Shown
<1>0. PICK s \in Slots : \E fence :
        job' = [job EXCEPT ![t] = [job[t] EXCEPT !.state = "leased", !.epoch = @ + 1,
                                                 !.lease = LeaseExpiry, !.slot = s,
                                                 !.fence = fence]]
  BY DEF ClaimNext
<1>1. PICK fence :
        job' = [job EXCEPT ![t] = [job[t] EXCEPT !.state = "leased", !.epoch = @ + 1,
                                                 !.lease = LeaseExpiry, !.slot = s,
                                                 !.fence = fence]]
  BY <1>0
<1> DEFINE q == [job[t] EXCEPT !.state = "leased", !.epoch = @ + 1, !.lease = LeaseExpiry,
                               !.slot = s, !.fence = fence]
<1>2. GoodRecord(job[t]) /\ GoodAnswer(job[t]) /\ job[t].state = "queued" /\ child' = child
  BY RecordOf DEF ClaimNext
<1>3. q.state = "leased" /\ q.result = job[t].result
  BY <1>2 DEF GoodRecord, JobRecords
<1>4. job' = [job EXCEPT ![t] = q]
  BY <1>1
<1> HIDE DEF q
<1>5. GoodMove(job[t], q, ~Works(t))
  BY <1>2, <1>3 DEF GoodMove, GoodAnswer, Stays, Moves, Answers, Phase, ProcessOwningStates
<1> QED BY <1>2, <1>4, <1>5, SameChildren, OneMove

LEMMA ExecuteRefusedShows ==
  ASSUME LeaseInv, AnswerInv, NEW w \in Workers, ExecuteRefused(w) PROVE Shown
<1>1. PICK t \in Tasks : t = worker[w].task
  BY BusyClaim DEF ExecuteRefused, Busy
<1>2. job' = [job EXCEPT ![t] = IF Fenced(t) THEN Swept(job[t]) ELSE job[t]] /\ child' = child
  BY <1>1 DEF ExecuteRefused
<1>3. GoodMove(job[t], IF Fenced(t) THEN Swept(job[t]) ELSE job[t], ~Works(t))
  BY RecordOf, SweptMove, SameMove
<1> QED BY <1>2, <1>3, SameChildren, OneMove

LEMMA LaunchTimedOutShows ==
  ASSUME LeaseInv, AnswerInv, NEW w \in Workers, LaunchTimedOut(w) PROVE Shown
<1>1. PICK t \in Tasks : t = worker[w].task
  BY BusyClaim DEF LaunchTimedOut, Busy
<1>2. CASE job' = job
  BY <1>2, SameChildren, NoMove DEF LaunchTimedOut
<1>3. CASE job[t].state = "starting" /\ job' = [job EXCEPT ![t] = Stopping(job[t], "failed")]
  <2>1. GoodMove(job[t], Stopping(job[t], "failed"), ~Works(t))
    BY <1>3, RecordOf, StoppingMove DEF ProcessOwningStates
  <2> QED BY <1>3, <2>1, SameChildren, OneMove DEF LaunchTimedOut
<1> QED BY <1>1, <1>2, <1>3 DEF LaunchTimedOut

LEMMA WatchSweepShows ==
  ASSUME LeaseInv, AnswerInv, NEW w \in Workers, WatchSweep(w) PROVE Shown
<1>1. PICK t \in Tasks : t = worker[w].task
  BY BusyClaim DEF WatchSweep, Busy
<1>2. GoodMove(job[t], Swept(job[t]), ~Works(t))
  BY RecordOf, SweptMove
<1> QED BY <1>1, <1>2, SameChildren, OneMove DEF WatchSweep, Write

LEMMA HeartbeatShows ==
  ASSUME LeaseInv, AnswerInv, NEW w \in Workers, Heartbeat(w) PROVE Shown
<1>1. PICK t \in Tasks : t = worker[w].task
  BY BusyClaim DEF Heartbeat, Busy
<1> DEFINE q == [job[t] EXCEPT !.lease = LeaseExpiry]
<1>2. /\ job' = [job EXCEPT ![t] = q] /\ child' = child
      /\ job[t].state \in {"leased", "starting", "running"}
  BY <1>1 DEF Heartbeat
<1>3. GoodRecord(job[t]) /\ GoodAnswer(job[t])
  BY RecordOf
<1>4. q.state = job[t].state /\ q.result = job[t].result
  BY <1>3 DEF GoodRecord, JobRecords
<1> HIDE DEF q
<1>5. GoodMove(job[t], q, ~Works(t))
  BY <1>2, <1>3, <1>4 DEF GoodMove, GoodAnswer, Stays, Moves, Answers, ProcessOwningStates
<1> QED BY <1>2, <1>5, SameChildren, OneMove

\* A claim that is given back does not show.
LEMMA GiveBackShows ==
  ASSUME LeaseInv, AnswerInv, NEW w \in Workers, WatchDeleting(w) \/ EndTick(w) PROVE Shown
<1>1. PICK t \in Tasks : t = worker[w].task
  BY BusyClaim DEF WatchDeleting, EndTick, Busy
<1>2. child' = child /\ (job' = job \/ job' = [job EXCEPT ![t] = [job[t] EXCEPT !.slot = 0, !.fence = 0]])
  BY <1>1 DEF WatchDeleting, EndTick, ReconcileTermination
<1>3. GoodMove(job[t], [job[t] EXCEPT !.slot = 0, !.fence = 0], ~Works(t))
  <2>1. job[t] \in JobRecords /\ GoodMove(job[t], job[t], ~Works(t))
    BY RecordOf, SameMove DEF GoodRecord
  <2> QED BY <2>1, Unclaimed
<1> QED BY <1>2, <1>3, SameChildren, OneMove, NoMove

-----------------------------------------------------------------------------
\* The steps of the processes and of their supervisors.

LEMMA SpawnedShows ==
  ASSUME LeaseInv, AnswerInv, NEW t \in Tasks, NEW e \in Epochs, Spawned(t, e) PROVE Shown
<1>1. PICK stop \in BOOLEAN :
        /\ SetChild(t, e, [child[t][e] EXCEPT !.st = "alive", !.stop = stop])
        /\ \/ UNCHANGED job
           \/ /\ job[t].state = "starting"
              /\ job' = [job EXCEPT ![t] = [job[t] EXCEPT !.state = "running"]]
  BY DEF Spawned, Owns
<1>2. SameProcesses
  <2> DEFINE c == [child[t][e] EXCEPT !.st = "alive", !.stop = stop]
  <2>1. SetChild(t, e, c) /\ c.st = "alive" /\ Live(t, e)
    BY <1>1, ChildType DEF Children, Spawned, Live
  <2> HIDE DEF c
  <2> QED BY <2>1, ChildStays
<1>3. CASE UNCHANGED job
  BY <1>2, <1>3, NoMove
<1>4. CASE job[t].state = "starting"
           /\ job' = [job EXCEPT ![t] = [job[t] EXCEPT !.state = "running"]]
  <2> DEFINE q == [job[t] EXCEPT !.state = "running"]
  <2>1. GoodRecord(job[t]) /\ GoodAnswer(job[t]) /\ job' = [job EXCEPT ![t] = q]
    BY <1>4, RecordOf
  <2>2. q.state = "running" /\ q.result = job[t].result /\ q.lease = job[t].lease
    BY <2>1 DEF GoodRecord, JobRecords
  <2> HIDE DEF q
  <2>3. GoodMove(job[t], q, ~Works(t))
    BY <1>4, <2>1, <2>2 DEF GoodMove, GoodAnswer, Stays, Moves, Answers, Phase, ProcessOwningStates
  <2> QED BY <1>2, <2>1, <2>3, OneMove
<1> QED BY <1>1, <1>3, <1>4

\* A process ends; the job is still owned.
LEMMA EndShows ==
  ASSUME LeaseInv, AnswerInv, NEW t \in Tasks, NEW e \in Epochs, Live(t, e), NEW c,
         SetChild(t, e, c), c.st \notin {"spawning", "alive"}, job' = job
  PROVE  Shown
<1>1. \A u \in Tasks, f \in Epochs : child'[u][f] = IF u = t /\ f = e THEN c ELSE child[u][f]
  BY DEF LeaseInv, Types, SetChild
<1>2. \A f \in Epochs : Live(t, f) => f = e
  BY DEF LeaseInv, JobInv
<1>3. /\ \A f \in Epochs : ~Live(t, f)'
      /\ \A u \in Tasks \ {t}, f \in Epochs : Live(u, f)' <=> Live(u, f)
  BY <1>1, <1>2 DEF Live
<1>4. WorkingOf' = [WorkingOf EXCEPT ![t] = FALSE]
  BY <1>3 DEF WorkingOf
<1>5. WorkingOf[t] /\ PhaseOf[t] = "owned"
  <2>1. job[t].state \in ProcessOwningStates
    BY DEF LeaseInv, JobInv, GoodRecord
  <2>2. Phase(job[t].state) = "owned" /\ Works(t)
    BY <2>1 DEF Phase, ProcessOwningStates, Works
  <2> QED BY <2>2, Views
<1>6. PhaseOf' = PhaseOf /\ AnsweredOf' = AnsweredOf
  BY DEF PhaseOf, AnsweredOf
<1>7. Abstract!End(t)
  BY <1>4, <1>5, <1>6 DEF Abstract!End
<1>8. [Abstract!Next]_(Abstract!vars)
  BY <1>7 DEF Abstract!Next, Abstract!vars
<1>9. \A u \in Tasks : Stays(job[u], job'[u])
  BY DEF Stays
<1> QED BY <1>8, <1>9 DEF Shown, AnswerInv

LEMMA ChildEndsShows ==
  ASSUME LeaseInv, AnswerInv, NEW t \in Tasks, NEW e \in Epochs,
         SpawnFails(t, e) \/ ChildExits(t, e)
  PROVE  Shown
<1>1. /\ [child[t][e] EXCEPT !.st = "rejected"].st = "rejected"
      /\ [child[t][e] EXCEPT !.st = "exited", !.at = now].st = "exited"
  BY ChildType DEF Children
<1>2. CASE SpawnFails(t, e)
  BY <1>1, <1>2, EndShows DEF SpawnFails, Live
<1>3. CASE ChildExits(t, e)
  BY <1>1, <1>3, EndShows DEF ChildExits, Live
<1> QED BY <1>2, <1>3

LEMMA PublishShows ==
  ASSUME LeaseInv, AnswerInv, NEW t \in Tasks, NEW e \in Epochs,
         PublishRead(t, e) \/ PublishCommit(t, e)
  PROVE  Shown
<1>1. PICK n : SetChild(t, e, [child[t][e] EXCEPT !.read = n])
  BY DEF PublishRead, PublishCommit
<1>2. SameProcesses
  <2> DEFINE c == [child[t][e] EXCEPT !.read = n]
  <2>1. c.st = child[t][e].st
    BY ChildType DEF Children
  <2> HIDE DEF c
  <2>2. SetChild(t, e, c)
    BY <1>1 DEF c
  <2> QED BY <2>1, <2>2, ChildStays DEF Live
<1>3. CASE PublishRead(t, e)
  BY <1>2, <1>3, NoMove DEF PublishRead
<1>4. CASE PublishCommit(t, e)
  <2> DEFINE current == /\ Owns(t, e) /\ job[t].state = "running"
                        /\ job[t].lease = child[t][e].read /\ ~job[t].result
             q == [job[t] EXCEPT !.result = @ \/ current]
  <2>1. job' = [job EXCEPT ![t] = [job[t] EXCEPT !.result = job[t].result \/ current]]
    BY <1>4 DEF PublishCommit
  <2>2. GoodRecord(job[t]) /\ GoodAnswer(job[t])
    BY RecordOf
  <2>3. /\ q.state = job[t].state /\ q.lease = job[t].lease /\ q.slot = job[t].slot
        /\ q.result <=> job[t].result \/ current
    BY <2>2 DEF GoodRecord, JobRecords
  <2>4. current => job[t].state = "running"
    OBVIOUS
  <2>5. job' = [job EXCEPT ![t] = q]
    BY <2>1
  <2> HIDE DEF q, current
  <2>6. GoodAnswer(q) /\ Stays(job[t], q) /\ (Answers(q) <=> Answers(job[t]))
    BY <2>2, <2>3, <2>4 DEF GoodAnswer, Stays, Answers, ProcessOwningStates
  <2>7. GoodMove(job[t], q, ~Works(t))
    BY <2>3, <2>6 DEF GoodMove, Moves
  <2> QED BY <1>2, <2>5, <2>7, OneMove
<1> QED BY <1>3, <1>4

\* The job of an attempt whose process is gone is put back or settled.
LEMMA GoneShows ==
  ASSUME LeaseInv, AnswerInv, NEW t \in Tasks, NEW e \in Epochs, ~Live(t, e),
         SetChild(t, e, [child[t][e] EXCEPT !.st = "gone"]), NEW q,
         \/ job' = job
         \/ /\ Owns(t, e) /\ job' = [job EXCEPT ![t] = q]
            /\ ~Works(t) => GoodMove(job[t], q, ~Works(t))
  PROVE  Shown
<1>1. SameProcesses
  <2> DEFINE c == [child[t][e] EXCEPT !.st = "gone"]
  <2>1. SetChild(t, e, c) /\ c.st = "gone"
    BY ChildType DEF Children
  <2> HIDE DEF c
  <2> QED BY <2>1, ChildStays
<1>2. Owns(t, e) => ~Works(t)
  BY DEF Owns, Works, LeaseInv, JobInv
<1> QED BY <1>1, <1>2, NoMove, OneMove

LEMMA LaunchRejectedShows ==
  ASSUME LeaseInv, AnswerInv, NEW t \in Tasks, NEW e \in Epochs, LaunchRejected(t, e) PROVE Shown
<1> DEFINE state == IF job[t].state = "cancelling" THEN StopTarget(job[t]) ELSE "failed"
           q == Settled(job[t], state, FALSE)
<1>1. /\ SetChild(t, e, [child[t][e] EXCEPT !.st = "gone"])
      /\ ~Live(t, e)
      /\ job' = IF Owns(t, e) THEN [job EXCEPT ![t] = q] ELSE job
  <2>1. SetChild(t, e, [child[t][e] EXCEPT !.st = "gone"]) /\ ~Live(t, e)
    BY DEF LaunchRejected, Live
  <2>2. job' = IF Owns(t, e) THEN [job EXCEPT ![t] = q] ELSE job
    BY DEF LaunchRejected
  <2> QED BY <2>1, <2>2
<1>2. ASSUME Owns(t, e), ~Works(t) PROVE GoodMove(job[t], q, ~Works(t))
  <2>1. GoodRecord(job[t]) /\ job[t].state \in ProcessOwningStates
    BY <1>2, RecordOf DEF Owns, GoodRecord
  <2>2. state \in {"queued", "failed", "cancelled", "timed_out", "expired", "deleting"}
    BY <2>1 DEF GoodRecord, JobRecords, StopTarget, PendingStopOutcomes
  <2> HIDE DEF state
  <2> QED BY <1>2, <2>1, <2>2, OwnedSettles
<1> HIDE DEF q
<1> QED BY <1>1, <1>2, GoneShows

LEMMA FinalizeShows ==
  ASSUME LeaseInv, AnswerInv, NEW t \in Tasks, NEW e \in Epochs, Finalize(t, e) PROVE Shown
<1>1. /\ SetChild(t, e, [child[t][e] EXCEPT !.st = "gone"]) /\ ~Live(t, e)
      /\ \/ job' = job
         \/ \E ok \in BOOLEAN :
              Owns(t, e) /\ job' = [job EXCEPT ![t] = Terminated(job[t], ok, child[t][e].at)]
  BY DEF Finalize, Live
<1>2. CASE job' = job
  BY <1>1, <1>2, GoneShows
<1>3. ASSUME NEW ok \in BOOLEAN, Owns(t, e),
             job' = [job EXCEPT ![t] = Terminated(job[t], ok, child[t][e].at)]
      PROVE  Shown
  <2>1. GoodRecord(job[t]) /\ job[t].state \in ProcessOwningStates
    BY <1>3, RecordOf DEF Owns, GoodRecord
  <2>2. ~Works(t) => GoodMove(job[t], Terminated(job[t], ok, child[t][e].at), ~Works(t))
    BY <2>1, TerminatedMove
  <2> QED BY <1>1, <1>3, <2>2, GoneShows
<1> QED BY <1>1, <1>2, <1>3

-----------------------------------------------------------------------------
\* The API, the sweeper and the operator.

LEMMA CreateShows ==
  ASSUME LeaseInv, AnswerInv, NEW t \in Tasks, Create(t) PROVE Shown
<1> DEFINE q == [NewJob EXCEPT !.state = "queued"]
<1>1. job' = [job EXCEPT ![t] = q] /\ child' = child /\ job[t].state = "absent"
  BY DEF Create
<1>2. q.state = "queued" /\ q.lease = 0 /\ q.result = FALSE
  BY DEF NewJob
<1> HIDE DEF q
<1>3. GoodMove(job[t], q, ~Works(t))
  BY <1>1, <1>2 DEF GoodMove, GoodAnswer, Stays, Moves, Answers, Phase, ProcessOwningStates
<1> QED BY <1>1, <1>3, SameChildren, OneMove

LEMMA WriteShows ==
  ASSUME LeaseInv, AnswerInv, NEW t \in Tasks, NEW q, Write(t, q), child' = child,
         GoodMove(job[t], q, ~Works(t))
  PROVE  Shown
BY SameChildren, OneMove DEF Write

LEMMA CancelShows ==
  ASSUME LeaseInv, AnswerInv, NEW t \in Tasks, Cancel(t) PROVE Shown
<1>1. GoodRecord(job[t]) /\ GoodAnswer(job[t]) /\ child' = child
  BY RecordOf DEF Cancel
<1>2. CASE job[t].state \in {"queued", "leased"} /\ Write(t, Settled(job[t], "cancelled", FALSE))
  <2>1. GoodMove(job[t], Settled(job[t], "cancelled", FALSE), ~Works(t))
    BY <1>1, <1>2, WaitingSettles
  <2> QED BY <1>1, <1>2, <2>1, WriteShows
<1>3. CASE job[t].state \in ProcessOwningStates /\ Write(t, Stopping(job[t], "cancelled"))
  <2>1. GoodMove(job[t], Stopping(job[t], "cancelled"), ~Works(t))
    BY <1>1, <1>3, StoppingMove
  <2> QED BY <1>1, <1>3, <2>1, WriteShows
<1> QED BY <1>2, <1>3 DEF Cancel

LEMMA DeleteShows ==
  ASSUME LeaseInv, AnswerInv, NEW t \in Tasks, Delete(t) PROVE Shown
<1>1. GoodRecord(job[t]) /\ GoodAnswer(job[t]) /\ child' = child
  BY RecordOf DEF Delete
<1>2. CASE /\ job[t].state \notin ProcessOwningStates \cup {"absent", "deleting", "deleted"}
           /\ Write(t, Settled(job[t], "deleting", FALSE))
  <2>1. \/ job[t].state \in {"queued", "leased"}
        \/ job[t].state \in {"succeeded", "failed", "cancelled", "timed_out", "expired"}
    BY <1>1, <1>2 DEF GoodRecord, JobRecords, States, ProcessOwningStates
  <2>2. GoodMove(job[t], Settled(job[t], "deleting", FALSE), ~Works(t))
    <3>1. CASE job[t].state \in {"queued", "leased"}
      BY <1>1, <3>1, WaitingSettles
    <3>2. CASE job[t].state \in {"succeeded", "failed", "cancelled", "timed_out", "expired"}
      <4> DEFINE q == Settled(job[t], "deleting", FALSE)
      <4>1. q.state = "deleting" /\ q.lease = 0 /\ ~q.result
        BY <1>1 DEF Settled, GoodRecord, JobRecords
      <4> HIDE DEF q
      <4>2. GoodMove(job[t], q, ~Works(t))
        BY <3>2, <4>1, EndedDeletes
      <4> QED BY <4>2 DEF q
    <3> QED BY <2>1, <3>1, <3>2
  <2> QED BY <1>1, <1>2, <2>2, WriteShows
<1>3. CASE job[t].state \in ProcessOwningStates /\ Write(t, Stopping(job[t], "deleted"))
  <2>1. GoodMove(job[t], Stopping(job[t], "deleted"), ~Works(t))
    BY <1>1, <1>3, StoppingMove
  <2> QED BY <1>1, <1>3, <2>1, WriteShows
<1> QED BY <1>2, <1>3 DEF Delete

LEMMA CompleteDeletionShows ==
  ASSUME LeaseInv, AnswerInv, NEW t \in Tasks, CompleteDeletion(t) PROVE Shown
<1>1. GoodMove(job[t], Settled(job[t], "deleted", FALSE), ~Works(t))
  BY RecordOf, DeletingSettles DEF CompleteDeletion
<1> QED BY <1>1, WriteShows DEF CompleteDeletion

LEMMA TemporalSweepShows ==
  ASSUME LeaseInv, AnswerInv, NEW t \in Tasks, TemporalSweep(t) PROVE Shown
<1>1. GoodMove(job[t], Swept(job[t]), ~Works(t))
  BY RecordOf, SweptMove
<1> QED BY <1>1, WriteShows, CompleteDeletionShows, DeleteShows DEF TemporalSweep

LEMMA ReconcileQuarantinedShows ==
  ASSUME LeaseInv, AnswerInv, NEW s \in Slots, ReconcileQuarantined(s) PROVE Shown
<1>1. PICK t \in Tasks : t = slot[s].task /\ GoodRecord(job[t])
  BY DEF ReconcileQuarantined, LeaseInv, SlotInv, JobInv
<1>2. job[t].exec /\ ~Live(t, job[t].epoch) /\ child' = child
  BY <1>1 DEF ReconcileQuarantined
<1>3. PICK kind \in {"completed", "crashed", "terminated"}, at \in 0..now :
        job' = [job EXCEPT ![t] = [Reconciled(job[t], kind, at) EXCEPT !.slot = 0, !.fence = 0]]
  BY <1>1 DEF ReconcileQuarantined
<1>4. ~Works(t) /\ job[t].state \in ProcessOwningStates
  BY <1>1, <1>2 DEF Works, LeaseInv, JobInv, GoodRecord
<1>5. GoodMove(job[t], Reconciled(job[t], kind, at), ~Works(t))
  BY <1>1, <1>4, ReconciledMove
<1>6. Reconciled(job[t], kind, at) \in JobRecords
  BY <1>1, ReconciledFollows DEF Follows, GoodRecord
<1>7. GoodMove(job[t], [Reconciled(job[t], kind, at) EXCEPT !.slot = 0, !.fence = 0], ~Works(t))
  BY <1>5, <1>6, Unclaimed
<1> QED BY <1>2, <1>3, <1>7, SameChildren, OneMove

-----------------------------------------------------------------------------
\* A process begins.

\* A job that is worked on has a slot, and the slot names it.
LEMMA SlotOfWork ==
  ASSUME LeaseInv, NEW t \in Tasks, Works(t)
  PROVE  job[t].slot # 0 /\ job[t].slot \in Slots /\ slot[job[t].slot].task = t
<1>1. job[t].slot # 0
  BY DEF Works, LeaseInv, JobInv, GoodRecord
<1> QED BY <1>1, SlotOfJob

\* Every process has a slot of its own, and t has one without a process.
LEMMA RoomForOne ==
  ASSUME LeaseInv, NEW t \in Tasks, job[t].slot # 0, ~Works(t)
  PROVE  Cardinality({x \in Tasks : Works(x)}) < MaxSlots
<1> DEFINE W == {x \in Tasks : Works(x)}
           f == [x \in W |-> job[x].slot]
           S == Slots \ {job[t].slot}
<1>1. \A x \in W : job[x].slot # 0 /\ job[x].slot \in Slots /\ slot[job[x].slot].task = x
  BY SlotOfWork
<1>2. job[t].slot \in Slots /\ slot[job[t].slot].task = t
  BY SlotOfJob
<1>3. f \in Injection(W, S)
  <2>1. f \in [W -> S]
    BY <1>1, <1>2
  <2>2. \A x, y \in W : f[x] = f[y] => x = y
    BY <1>1
  <2> HIDE DEF f, W, S
  <2> QED BY <2>1, <2>2 DEF Injection, IsInjective
<1>4. IsFiniteSet(Slots) /\ Cardinality(Slots) = MaxSlots
  BY LeaseAssumption, FS_Interval DEF LeaseAssumption, Slots
<1>5. IsFiniteSet(S) /\ Cardinality(S) = MaxSlots - 1
  BY <1>2, <1>4, FS_RemoveElement
<1> HIDE DEF f, W, S
<1>6. IsFiniteSet(W) /\ Cardinality(W) <= Cardinality(S)
  BY <1>3, <1>5, FS_Injection
<1>7. Cardinality(W) \in Nat /\ MaxSlots \in Nat
  BY <1>6, LeaseAssumption, FS_CardinalityType DEF LeaseAssumption
<1> QED BY <1>5, <1>6, <1>7 DEF W

\* The instance counts with the same Cardinality.
LEMMA CountedAlike == ASSUME NEW S PROVE Abstract!Cardinality(S) = Cardinality(S)
BY DEF Abstract!Cardinality, Cardinality

LEMMA ExecuteStartShows ==
  ASSUME LeaseInv, AnswerInv, NEW w \in Workers, ExecuteStart(w) PROVE Shown
<1>1. PICK t \in Tasks, e \in Epochs : t = worker[w].task /\ e = worker[w].epoch
  BY BusyClaim DEF ExecuteStart, Busy
<1> DEFINE q == [job[t] EXCEPT !.state = "starting", !.exec = TRUE]
           c == [NoChild EXCEPT !.st = "spawning", !.owner = w]
<1>2. /\ job' = [job EXCEPT ![t] = q] /\ SetChild(t, e, c)
      /\ job[t].state = "leased"
  BY <1>1 DEF ExecuteStart, MayExecute
<1>3. /\ GoodRecord(job[t]) /\ GoodAnswer(job[t]) /\ ~job[t].exec /\ job[t].slot # 0
      /\ c.st = "spawning"
  BY <1>2, RecordOf DEF GoodRecord, NoChild, ProcessOwningStates
<1>4. q.state = "starting" /\ q.lease = job[t].lease /\ q.result = job[t].result
  BY <1>3 DEF GoodRecord, JobRecords
<1> HIDE DEF q, c
<1>5. job'[t] = q /\ \A u \in Tasks \ {t} : job'[u] = job[u]
  BY <1>2 DEF LeaseInv, Types
<1>6. GoodAnswer(q) /\ Stays(job[t], q) /\ ~Answers(q) /\ ~Answers(job[t])
  BY <1>2, <1>3, <1>4 DEF GoodAnswer, Stays, Answers, ProcessOwningStates
<1>7. AnswerInv' /\ \A u \in Tasks : Stays(job[u], job'[u])
  BY <1>5, <1>6 DEF AnswerInv, Stays
<1>8. ~Works(t)
  BY <1>3, NoAttempt DEF Works
<1>9. \A u \in Tasks, f \in Epochs : child'[u][f] = IF u = t /\ f = e THEN c ELSE child[u][f]
  BY <1>2 DEF LeaseInv, Types, SetChild
<1>10. WorkingOf' = [WorkingOf EXCEPT ![t] = TRUE]
  <2>1. Live(t, e)' /\ \A u \in Tasks \ {t}, f \in Epochs : Live(u, f)' <=> Live(u, f)
    BY <1>3, <1>9 DEF Live
  <2> QED BY <2>1 DEF WorkingOf
<1>11. PhaseOf' = [PhaseOf EXCEPT ![t] = "owned"] /\ AnsweredOf' = AnsweredOf
  <2>1. Phase(job'[t].state) = "owned"
    BY <1>4, <1>5 DEF Phase, ProcessOwningStates
  <2> QED BY <1>5, <1>6, <2>1, OnePhase, SameAnswer
<1>12. PhaseOf[t] = "waiting"
  BY <1>2, Views DEF Phase, ProcessOwningStates
<1>13. Abstract!Cardinality({k \in Tasks : WorkingOf[k]}) < MaxSlots
  <2>1. {k \in Tasks : WorkingOf[k]} = {x \in Tasks : Works(x)}
    BY Views
  <2> QED BY <1>3, <1>8, <2>1, RoomForOne, CountedAlike
<1>14. Abstract!Begin(t)
  BY <1>10, <1>11, <1>12, <1>13, Zenon DEF Abstract!Begin
<1>15. [Abstract!Next]_(Abstract!vars)
  BY <1>14 DEF Abstract!Next, Abstract!vars
<1> QED BY <1>7, <1>15 DEF Shown

-----------------------------------------------------------------------------
LEMMA StepShows == ASSUME LeaseInv, AnswerInv, [Next]_vars PROVE Shown
<1>1. CASE UNCHANGED vars
  BY <1>1, SameChildren, NoMove DEF vars
<1>2. ASSUME NEW w \in Workers, WorkerStep(w) \/ Crash(w) \/ Restart(w) PROVE Shown
  <2>1. CASE \/ ChecksReady(w) \/ RecoveryFails(w) \/ ClaimNothing(w)
             \/ WatchFinal(w) \/ Restart(w) \/ Crash(w)
    BY <2>1, QuietShows, CrashShows
  <2>2. CASE RecoverExpiredClaims(w) \/ \E t \in Tasks : ClaimNext(w, t)
    BY <2>2, RecoverShows, ClaimNextShows
  <2>3. CASE ExecuteStart(w) \/ ExecuteRefused(w) \/ LaunchTimedOut(w)
    BY <2>3, ExecuteStartShows, ExecuteRefusedShows, LaunchTimedOutShows
  <2>4. CASE WatchSweep(w) \/ WatchStop(w) \/ Heartbeat(w)
    BY <2>4, WatchSweepShows, WatchStopShows, HeartbeatShows
  <2>5. CASE WatchDeleting(w) \/ EndTick(w)
    BY <2>5, GiveBackShows
  <2> QED BY <1>2, <2>1, <2>2, <2>3, <2>4, <2>5 DEF WorkerStep
<1>3. ASSUME NEW t \in Tasks, ControlStep(t) PROVE Shown
  BY <1>3, CreateShows, CancelShows, DeleteShows, CompleteDeletionShows, TemporalSweepShows
     DEF ControlStep
<1>4. ASSUME NEW t \in Tasks, NEW e \in Epochs, ChildStep(t, e) PROVE Shown
  BY <1>4, SpawnedShows, ChildEndsShows, LaunchRejectedShows, PublishShows, FinalizeShows
     DEF ChildStep
<1>5. CASE Tick \/ \E s \in Slots : ReconcileQuarantined(s) \/ ConfigureCapacity(s)
  BY <1>5, QuietShows, ReconcileQuarantinedShows
<1> QED BY <1>1, <1>2, <1>3, <1>4, <1>5 DEF Next

LEMMA InitShows == ASSUME Init PROVE AnswerInv /\ Abstract!Init
<1>1. PhaseOf = [t \in Tasks |-> "absent"]
  BY DEF Init, PhaseOf, NewJob, Phase, ProcessOwningStates
<1>2. WorkingOf = [t \in Tasks |-> FALSE]
  BY DEF Init, WorkingOf, Live, NoChild
<1>3. AnsweredOf = [t \in Tasks |-> FALSE]
  BY DEF Init, AnsweredOf, NewJob
<1>4. AnswerInv
  BY DEF Init, AnswerInv, GoodAnswer, NewJob
<1> QED BY <1>1, <1>2, <1>3, <1>4 DEF Abstract!Init

LEMMA AnswerInvariant == Spec => []AnswerInv
<1>1. Init => AnswerInv
  BY InitShows
<1>2. AnswerInv /\ LeaseInv /\ [Next]_vars => AnswerInv'
  BY StepShows DEF Shown
<1> QED BY <1>1, <1>2, LeaseInvariant, PTL DEF Spec

\* Workers that crash, recover each other's claims and share the slots are, to the
\* submitter of a job, the service that one process is (ComputeJobs): a process
\* begins only for a waiting job and within the limit of the slots, no job is put
\* back, settled or removed under a running process, supervised or orphaned, and
\* no answer is withdrawn before the job is removed.
THEOREM WorkersImplementJobs == Spec => ImplementsComputeJobs
<1>1. LeaseInv /\ AnswerInv /\ [Next]_vars => [Abstract!Next]_(Abstract!vars)
  BY StepShows DEF Shown
<1>2. Init => Abstract!Init
  BY InitShows
<1> QED BY <1>1, <1>2, LeaseInvariant, AnswerInvariant, PTL
       DEF Spec, ImplementsComputeJobs, Abstract!Spec

AnswersKept ==
  \A t \in Tasks : AnsweredOf[t] => AnsweredOf'[t] \/ PhaseOf'[t] = "removing"

\* An answer that could be fetched stays until the deletion of its job begins,
\* although workers that lost their claims, recoveries, the sweeper and the operator
\* all write job rows (compareAndSet, recoverExpiredClaims, reconcileQuarantinedClaim).
THEOREM AnswersStay == Spec => [][AnswersKept]_vars
<1>1. ASSUME [Abstract!Next]_(Abstract!vars)
      PROVE  AnswersKept
  <2> USE DEF AnswersKept, PhaseOf, AnsweredOf
  <2>1. CASE UNCHANGED AnsweredOf
    BY <2>1
  <2>2. CASE \E t \in Tasks : Abstract!Release(t)
    BY <2>2 DEF Abstract!Release
  <2>3. CASE \E t \in Tasks : Abstract!Remove(t)
    BY <2>3 DEF Abstract!Remove
  <2> QED
    BY <1>1, <2>1, <2>2, <2>3
       DEF Abstract!Next, Abstract!vars, Abstract!Submit, Abstract!Begin, Abstract!End,
           Abstract!Removed, Abstract!Settle
<1>2. LeaseInv /\ AnswerInv /\ [Next]_vars => [Abstract!Next]_(Abstract!vars)
  BY StepShows DEF Shown
<1>3. LeaseInv /\ AnswerInv /\ [Next]_vars => [AnswersKept]_vars
  BY <1>1, <1>2
<1> QED BY <1>3, LeaseInvariant, AnswerInvariant, PTL DEF Spec

\* However many workers crash and come back, there are never more processes,
\* supervised or orphaned, than slots: a crashed worker's slot is given away only
\* when its process is known to be gone (recoverExpiredClaims, quarantine).
THEOREM ProcessesFitTheSlots == Spec => [](Cardinality({t \in Tasks : Works(t)}) <= MaxSlots)
<1>1. LeaseInv => Cardinality({t \in Tasks : Works(t)}) <= MaxSlots
  <2> SUFFICES ASSUME LeaseInv PROVE Cardinality({t \in Tasks : Works(t)}) <= MaxSlots
    OBVIOUS
  <2> DEFINE W == {t \in Tasks : Works(t)}
             f == [t \in W |-> job[t].slot]
  <2>1. \A t \in W : job[t].slot \in Slots /\ slot[job[t].slot].task = t
    BY SlotOfWork
  <2>2. f \in Injection(W, Slots)
    <3>1. f \in [W -> Slots]
      BY <2>1
    <3>2. \A x, y \in W : f[x] = f[y] => x = y
      BY <2>1
    <3> HIDE DEF f, W
    <3> QED BY <3>1, <3>2 DEF Injection, IsInjective
  <2>3. IsFiniteSet(Slots) /\ Cardinality(Slots) = MaxSlots
    BY LeaseAssumption, FS_Interval DEF LeaseAssumption, Slots
  <2> HIDE DEF f, W
  <2>4. IsFiniteSet(W) /\ Cardinality(W) <= Cardinality(Slots)
    BY <2>2, <2>3, FS_Injection
  <2> QED BY <2>3, <2>4 DEF W
<1> QED BY <1>1, LeaseInvariant, PTL

-----------------------------------------------------------------------------
(* The deletion of the HTTP record of one job *)

HttpRecords ==
  [bound : BOOLEAN, intent : BOOLEAN, term : BOOLEAN,
   inputDeleted : BOOLEAN, completed : BOOLEAN, purged : BOOLEAN]

Objects == {"input", "execution"}

Kinds == {"deleted", "cancelling", "owning", "other"}

Requests ==
  [pc : {"idle", "snapshot", "intended", "completing", "controlled", "erasing", "verifying",
         "recording"},
   bound : BOOLEAN, control : {"none", "cancel", "delete"}, state : Kinds, term : BOOLEAN,
   late : SUBSET Objects]

CallStates == [Calls -> {"idle", "uploading", "checked", "stored", "created"}]

Finishing == {"erasing", "verifying", "recording"}

Intending == {"intended", "completing", "controlled"} \cup Finishing

\* The job is gone for good: nobody claims a deleted record.
Gone == job[Job].state = "deleted" /\ CapacityReleased

\* What a handler remembers of the job is true as far as it relies on it.
GoodRequest(q) ==
  /\ q \in Requests
  /\ q.pc \in Intending => http.intent
  /\ q.bound /\ q.state = "deleted" => job[Job].state = "deleted"
  /\ q.pc \in Finishing /\ q.bound => Gone

HttpTypes ==
  /\ http \in HttpRecords /\ objects \subseteq Objects
  /\ observed \in BOOLEAN /\ call \in CallStates
  /\ http.completed => http.intent /\ http.inputDeleted
  /\ http.purged => http.completed /\ now >= Ttl

RequestInv ==
  /\ request \in [Deleters -> Requests]
  /\ \A d \in Deleters : GoodRequest(request[d])

\* What a handler that verified the absence of the objects finds there was put since.
Verified(d) ==
  request[d].pc = "recording" /\ request[d].bound => objects \subseteq request[d].late

VerifiedInv == \A d \in Deleters : Verified(d)

CoreInv == LeaseInv /\ AnswerInv

HttpInv == CoreInv /\ HttpTypes /\ RequestInv /\ VerifiedInv

LEMMA HttpInvImplies == ASSUME HttpInv PROVE HttpTypeOK
<1>1. TypeOK
  BY LeaseInvImplies DEF HttpInv, CoreInv
<1> QED BY <1>1 DEF HttpInv, HttpTypes, RequestInv, HttpTypeOK, HttpRecords, Requests,
                     Objects, Kinds, CallStates

LEMMA InitHttp == ASSUME HttpInit PROVE HttpInv
<1>1. CoreInv
  BY InitLease, InitShows DEF HttpInit, CoreInv
<1>2. HttpTypes
  BY DEF HttpInit, HttpTypes, HttpRecords, CallStates
<1>3. RequestInv
  BY DEF HttpInit, RequestInv, GoodRequest, NoDeletion, Requests, Intending, Finishing, Kinds
<1>4. VerifiedInv
  BY DEF HttpInit, VerifiedInv, Verified, NoDeletion
<1> QED BY <1>1, <1>2, <1>3, <1>4 DEF HttpInv

-----------------------------------------------------------------------------
\* Every step of the handlers and of the workers is a step of LeaseCoordination.

LEMMA CancelIsCore ==
  ASSUME NEW d \in Deleters, CancelTask(d) \/ DeleteTask(d) \/ Completes(d)
  PROVE  [Next]_vars
<1>1. UNCHANGED vars \/ Cancel(Job) \/ Delete(Job) \/ CompleteDeletion(Job)
  BY DEF CancelTask, DeleteTask, Completes
<1> QED BY <1>1, HttpAssumption DEF HttpAssumption, Next, ControlStep

LEMMA WorkersStepIsCore == ASSUME WorkersStep PROVE [Next]_vars
<1>1. CASE Reported
  BY <1>1 DEF Reported, Next, WorkerStep
<1>2. CASE Unreported
  <2>1. ASSUME NEW t \in Tasks, WorkerCancels(t) \/ WorkerDeletes(t) \/ TemporalSweep(t)
        PROVE  Next
    BY <2>1 DEF WorkerCancels, WorkerDeletes, Next, ControlStep
  <2>2. ASSUME NEW t \in Tasks, NEW e \in Epochs,
               \/ Spawned(t, e) \/ SpawnFails(t, e) \/ LaunchRejected(t, e)
               \/ ChildExits(t, e) \/ Finalize(t, e)
        PROVE  Next
    BY <2>2 DEF Next, ChildStep
  <2>3. ASSUME NEW w \in Workers,
               \/ ChecksReady(w) \/ RecoverExpiredClaims(w) \/ RecoveryFails(w)
               \/ ClaimNothing(w)
               \/ \E t \in Tasks : ClaimNext(w, t)
               \/ ExecuteStart(w) \/ ExecuteRefused(w) \/ LaunchTimedOut(w)
               \/ WatchSweep(w) \/ WatchStop(w) \/ Heartbeat(w) \/ WatchFinal(w)
               \/ Crash(w) \/ Restart(w)
        PROVE  Next
    BY <2>3 DEF Next, WorkerStep
  <2> QED BY <1>2, <2>1, <2>2, <2>3 DEF Unreported, Next
<1> QED BY <1>1, <1>2 DEF WorkersStep

LEMMA HttpStepIsCore == ASSUME [HttpNext]_allVars PROVE [Next]_vars
<1>1. CASE UNCHANGED allVars
  BY <1>1 DEF allVars
<1>2. ASSUME NEW c \in Calls, ExecuteCreates(c) PROVE [Next]_vars
  <2>1. Create(Job) \/ UNCHANGED vars
    BY <1>2 DEF ExecuteCreates
  <2> QED BY <2>1, HttpAssumption DEF HttpAssumption, Next, ControlStep
<1>6. ASSUME NEW c \in Calls,
             \/ UploadChecks(c) \/ UploadStores(c) \/ ExecuteChecks(c) \/ ExecuteStores(c)
             \/ ExecuteBinds(c) \/ CallStops(c)
      PROVE  UNCHANGED vars
  BY <1>6 DEF UploadChecks, UploadStores, ExecuteChecks, ExecuteStores, ExecuteBinds, CallStops
<1>3. CASE DeleteArrives \/ DeleteIntends \/ SweepArrives \/ StatusOfEnded \/ Purge
  BY <1>3 DEF DeleteArrives, DeleteIntends, SweepArrives, StatusOfEnded, Purge
<1>4. ASSUME NEW d \in Deleters,
             \/ Controls(d) \/ Completes(d) \/ Observes(d)
             \/ Erases(d) \/ Verifies(d) \/ Records(d) \/ DeleterStops(d)
      PROVE  [Next]_vars
  <2>1. CASE Controls(d)
    <3>1. UNCHANGED vars \/ CancelTask(d) \/ DeleteTask(d)
      BY <2>1 DEF Controls
    <3> QED BY <3>1, CancelIsCore
  <2>2. CASE Observes(d)
    <3>1. UNCHANGED vars \/ DeleteTask(d)
      BY <2>2 DEF Observes
    <3> QED BY <3>1, CancelIsCore
  <2>3. CASE Completes(d)
    BY <2>3, CancelIsCore
  <2>4. CASE Erases(d) \/ Verifies(d) \/ Records(d) \/ DeleterStops(d)
    BY <2>4 DEF Erases, Verifies, Records, DeleterStops
  <2> QED BY <1>4, <2>1, <2>2, <2>3, <2>4
<1>5. CASE WorkersStep
  BY <1>5, WorkersStepIsCore
<1> QED BY <1>1, <1>2, <1>3, <1>4, <1>5, <1>6 DEF HttpNext

LEMMA ClockNeverBack == ASSUME LeaseInv, [Next]_vars PROVE now <= now' /\ now \in Nat /\ now' \in Nat
<1>1. now \in Nat /\ now' \in Nat
  BY StepKeeps DEF Kept, LeaseInv, Types
<1>2. now' = now \/ now' = now + 1
  <2>1. CASE Tick \/ UNCHANGED vars
    BY <2>1 DEF Tick, vars
  <2>2. ASSUME NEW w \in Workers, WorkerStep(w) \/ Crash(w) \/ Restart(w) PROVE now' = now
    BY <2>2 DEF WorkerStep, Crash, Restart, ChecksReady, RecoverExpiredClaims, RecoveryFails,
                ClaimNothing, ClaimNext,
                ExecuteStart, ExecuteRefused, LaunchTimedOut, WatchSweep, WatchStop, Heartbeat,
                WatchFinal, WatchDeleting, EndTick
  <2>3. ASSUME NEW t \in Tasks, ControlStep(t) PROVE now' = now
    BY <2>3 DEF ControlStep, Create, Cancel, Delete, CompleteDeletion, TemporalSweep
  <2>4. ASSUME NEW t \in Tasks, NEW e \in Epochs, ChildStep(t, e) PROVE now' = now
    BY <2>4 DEF ChildStep, Spawned, SpawnFails, LaunchRejected, ChildExits, PublishRead,
                PublishCommit, Finalize
  <2>5. ASSUME NEW s \in Slots, ReconcileQuarantined(s) \/ ConfigureCapacity(s) PROVE now' = now
    BY <2>5 DEF ReconcileQuarantined, ConfigureCapacity
  <2> QED BY <2>1, <2>2, <2>3, <2>4, <2>5 DEF Next
<1> QED BY <1>1, <1>2

\* A deleted job stays deleted, and without a slot once it has none.
LEMMA GoneStays ==
  ASSUME CoreInv, [Next]_vars, job[Job].state = "deleted"
  PROVE  job'[Job].state = "deleted" /\ (CapacityReleased => CapacityReleased')
<1>1. Job \in Tasks
  BY HttpAssumption DEF HttpAssumption
<1>2. LeaseInv' /\ Stays(job[Job], job'[Job])
  BY <1>1, StepKeeps, StepShows DEF CoreInv, Kept, Shown
<1>3. ASSUME CapacityReleased, NEW s \in Slots, slot'[s].task = Job PROVE FALSE
  <2>1. job[Job].slot = 0
    BY <1>1, <1>3, SlotOfJob DEF CapacityReleased, CoreInv
  <2>2. job'[Job].slot = 0
    BY <1>2, <2>1 DEF Stays
  <2>3. SlotInv(s)' /\ s # 0 /\ Job # NoTask
    BY <1>1, <1>2, LeaseAssumption DEF LeaseInv, LeaseAssumption, Slots
  <2>4. job'[Job].slot = s
    BY <1>3, <2>3 DEF SlotInv
  <2> QED BY <2>2, <2>3, <2>4
<1> QED BY <1>2, <1>3 DEF Stays, CapacityReleased

LEMMA CoreKept == ASSUME CoreInv, [Next]_vars PROVE CoreInv'
BY StepKeeps, StepShows DEF CoreInv, Kept, Shown

-----------------------------------------------------------------------------
\* What the handlers remember.

\* A step of the workers or of another handler leaves a request good.
LEMMA RequestStays ==
  ASSUME CoreInv, [Next]_vars, http.intent => http'.intent, NEW q, GoodRequest(q)
  PROVE  GoodRequest(q)'
BY GoneStays DEF GoodRequest, Gone

LEMMA RequestsStay ==
  ASSUME HttpInv, [Next]_vars, http.intent => http'.intent, request' = request
  PROVE  RequestInv'
<1>1. \A d \in Deleters : GoodRequest(request[d])'
  BY RequestStays DEF HttpInv, RequestInv
<1> QED BY <1>1 DEF HttpInv, RequestInv, GoodRequest

LEMMA OneRequest ==
  ASSUME HttpInv, [Next]_vars, http.intent => http'.intent, NEW d \in Deleters, NEW q,
         request' = [request EXCEPT ![d] = q], GoodRequest(q)'
  PROVE  RequestInv'
<1>1. /\ request'[d] = q
      /\ \A x \in Deleters \ {d} : request'[x] = request[x] /\ GoodRequest(request[x])'
  BY RequestStays DEF HttpInv, RequestInv
<1>2. q \in Requests
  BY DEF GoodRequest
<1>3. \A x \in Deleters : GoodRequest(request[x])' \/ x = d
  BY <1>1
<1>4. ASSUME NEW x \in Deleters PROVE GoodRequest(request[x])'
  <2>1. CASE x = d
    BY <1>1, <2>1 DEF GoodRequest
  <2>2. CASE x # d
    BY <1>1, <2>2 DEF GoodRequest
  <2> QED BY <2>1, <2>2
<1> QED BY <1>2, <1>4 DEF HttpInv, RequestInv

LEMMA KindOf ==
  ASSUME NEW r PROVE Kind(r) \in Kinds /\ (Kind(r) = "deleted" => r.state = "deleted")
BY DEF Kind, Kinds

\* A handler that goes on with a core record, or ends, or proceeds to erase.
LEMMA GotKeeps ==
  ASSUME HttpInv, [Next]_vars, http.intent, http'.intent, NEW d \in Deleters,
         NEW pc \in {"completing", "controlled"}, NEW r, Got(d, pc, r),
         request[d].bound /\ r.state = "deleted" => job'[Job].state = "deleted"
  PROVE  RequestInv'
<1>1. PICK q : q = [request[d] EXCEPT !.pc = pc, !.control = "none", !.state = Kind(r)]
  OBVIOUS
<1>2. request[d] \in Requests /\ request \in [Deleters -> Requests]
  BY DEF HttpInv, RequestInv
<1>3. request' = [request EXCEPT ![d] = q]
  BY <1>1, <1>2 DEF Got
<1>4. q \in Requests /\ q.pc = pc /\ q.state = Kind(r) /\ q.bound = request[d].bound
  BY <1>1, <1>2, KindOf DEF Requests
<1>5. GoodRequest(q)'
  BY <1>4, KindOf DEF GoodRequest, Finishing
<1> QED BY <1>3, <1>5, OneRequest

LEMMA EndsKeeps ==
  ASSUME HttpInv, [Next]_vars, http.intent => http'.intent, NEW d \in Deleters, Ends(d)
  PROVE  RequestInv'
<1>1. NoDeletion \in Requests /\ NoDeletion.pc = "idle" /\ NoDeletion.bound = FALSE
  BY DEF NoDeletion, Requests, Kinds
<1>2. GoodRequest(NoDeletion)'
  BY <1>1 DEF GoodRequest, Intending, Finishing
<1> QED BY <1>2, OneRequest DEF Ends

LEMMA ProceedsKeeps ==
  ASSUME HttpInv, [Next]_vars, http.intent, http'.intent, NEW d \in Deleters,
         NEW pc \in Finishing, Proceeds(d, pc), request[d].bound => Gone'
  PROVE  RequestInv'
<1>1. PICK q : q = [NoDeletion EXCEPT !.pc = pc, !.bound = request[d].bound]
  OBVIOUS
<1>2. request' = [request EXCEPT ![d] = q]
  BY <1>1 DEF Proceeds
<1>3. request[d].bound \in BOOLEAN
  BY DEF HttpInv, RequestInv, Requests
<1>4. q \in Requests /\ q.pc = pc /\ q.bound = request[d].bound /\ q.state = "other"
  BY <1>1, <1>3 DEF NoDeletion, Requests, Kinds, Finishing
<1>5. GoodRequest(q)'
  BY <1>4 DEF GoodRequest
<1> QED BY <1>2, <1>5, OneRequest

\* cancelTask and deleteTask answer with the record they leave, or fail.
LEMMA ControlKeeps ==
  ASSUME HttpInv, [Next]_vars, http.intent, http'.intent, NEW d \in Deleters,
         CancelTask(d) \/ DeleteTask(d)
  PROVE  RequestInv'
<1>1. CASE Ends(d)
  BY <1>1, EndsKeeps
<1>2. ASSUME NEW pc \in {"completing", "controlled"},
             (Got(d, pc, job[Job]) /\ UNCHANGED vars) \/ Got(d, pc, job'[Job])
      PROVE  RequestInv'
  <2>1. Got(d, pc, job'[Job])
    BY <1>2 DEF vars
  <2> QED BY <2>1, GotKeeps
<1>3. \/ Ends(d)
      \/ \E pc \in {"completing", "controlled"} :
           (Got(d, pc, job[Job]) /\ UNCHANGED vars) \/ Got(d, pc, job'[Job])
  BY DEF CancelTask, DeleteTask
<1> QED BY <1>1, <1>2, <1>3

\* What a handler reads of the job when it begins.
LEMMA SnapshotKeeps ==
  ASSUME HttpInv, UNCHANGED vars, http.intent => http'.intent, NEW d \in Deleters,
         NEW pc \in {"snapshot", "intended"}, pc = "intended" => http'.intent, Snapshot(d, pc)
  PROVE  RequestInv'
<1> DEFINE r == job[Job]
           control == CASE ~http.bound -> "none"
                        [] http.bound /\ (~CapacityReleased /\ ~r.exec) /\ r.state \notin Stopped
                             -> "cancel"
                        [] http.bound /\ (~CapacityReleased /\ ~r.exec) /\ r.state \in Stopped
                             /\ d = "client" -> "none"
                        [] OTHER -> "delete"
           state == IF http.bound /\ control = "none" THEN Kind(r) ELSE "other"
           term == \/ http.term
                   \/ /\ d = "client" /\ http.bound
                      /\ ~CapacityReleased \/ (r.exec /\ r.state \in ProcessOwningStates)
<1>1. PICK q : /\ q = [pc |-> pc, bound |-> http.bound, control |-> control, state |-> state,
                       term |-> term, late |-> {}]
               /\ request' = [request EXCEPT ![d] = q]
  BY DEF Snapshot
<1>2. job[Job] \in JobRecords /\ http \in HttpRecords
  BY HttpAssumption DEF HttpAssumption, HttpInv, CoreInv, LeaseInv, Types, HttpTypes
<1>3. http.bound \in BOOLEAN /\ http.term \in BOOLEAN /\ job[Job].exec \in BOOLEAN
  BY <1>2 DEF JobRecords, HttpRecords
<1>4. control \in {"none", "cancel", "delete"} /\ term \in BOOLEAN
  BY <1>3 DEF CapacityReleased
<1>5. state \in Kinds /\ (state = "deleted" => job[Job].state = "deleted")
  BY KindOf DEF Kinds
<1> HIDE DEF control, state, term
<1>6. q \in Requests /\ q.pc = pc
      /\ (q.bound /\ q.state = "deleted" => job[Job].state = "deleted")
  BY <1>1, <1>3, <1>4, <1>5 DEF Requests
<1>7. GoodRequest(q)'
  BY <1>6 DEF GoodRequest, Intending, Finishing, vars
<1> QED BY <1>1, <1>7, OneRequest

-----------------------------------------------------------------------------
\* The steps of the handlers.

\* A step that neither completes nor purges leaves the record's types alone.
LEMMA RecordStays ==
  ASSUME HttpInv, [Next]_vars, UNCHANGED http, objects' \subseteq Objects,
         observed' \in BOOLEAN, call' \in CallStates
  PROVE  HttpTypes'
BY ClockNeverBack, LeaseAssumption DEF LeaseAssumption, HttpInv, CoreInv, HttpTypes

LEMMA CallTypes ==
  ASSUME HttpInv, NEW c \in Calls,
         \/ CallGoes(c, "idle") \/ CallGoes(c, "uploading") \/ CallGoes(c, "checked")
         \/ CallGoes(c, "stored") \/ CallGoes(c, "created")
  PROVE  call' \in CallStates
BY DEF HttpInv, HttpTypes, CallStates, CallGoes

LEMMA PutsKeeps ==
  ASSUME HttpInv, [Next]_vars, http.intent => http'.intent, NEW o \in Objects, Puts(o)
  PROVE  RequestInv' /\ VerifiedInv' /\ objects' \subseteq Objects
<1>1. /\ objects' = objects \cup {o} /\ objects \subseteq Objects
      /\ request \in [Deleters -> Requests] /\ \A d \in Deleters : GoodRequest(request[d])
  BY DEF Puts, HttpInv, HttpTypes, RequestInv
<1>2. ASSUME NEW d \in Deleters
      PROVE  GoodRequest(request[d])' /\ request'[d] \in Requests /\ Verified(d)'
  <2>1. PICK q : q = request[d]
    OBVIOUS
  <2>2. PICK r : r = request'[d]
    OBVIOUS
  <2>3. GoodRequest(q) /\ q \in Requests /\ Verified(d)
    BY <1>1, <2>1 DEF HttpInv, VerifiedInv, GoodRequest
  <2>4. GoodRequest(q)'
    BY <2>3, RequestStays DEF HttpInv
  <2>5. CASE q.pc # "recording"
    <3>1. r = q
      BY <2>1, <2>2, <2>5 DEF Puts
    <3>2. GoodRequest(request[d])'
      BY <2>2, <2>4, <3>1 DEF GoodRequest
    <3> QED BY <2>2, <2>3, <2>5, <3>1, <3>2 DEF Verified
  <2>6. CASE q.pc = "recording"
    <3>1. r = [q EXCEPT !.late = q.late \cup {o}]
      BY <2>1, <2>2, <2>6 DEF Puts
    <3>2. /\ r \in Requests /\ r.pc = q.pc /\ r.bound = q.bound /\ r.state = q.state
          /\ r.late = q.late \cup {o}
      BY <2>3, <3>1 DEF Requests
    <3>3. GoodRequest(request[d])'
      BY <2>2, <2>4, <3>2 DEF GoodRequest
    <3>4. Verified(d)'
      BY <1>1, <2>1, <2>2, <2>3, <3>2 DEF Verified
    <3> QED BY <2>2, <3>2, <3>3, <3>4
  <2> QED BY <2>5, <2>6
<1>3. request' \in [Deleters -> Requests]
  <2>1. request' = [d \in Deleters |-> request'[d]]
    BY DEF Puts
  <2> QED BY <1>2, <2>1
<1> QED BY <1>1, <1>2, <1>3 DEF RequestInv, VerifiedInv

\* A step that puts nothing.
LEMMA VerifiedStays ==
  ASSUME HttpInv, objects' \subseteq objects,
         \A d \in Deleters : request'[d] = request[d] \/ request'[d].pc # "recording"
  PROVE  VerifiedInv'
<1>1. ASSUME NEW d \in Deleters PROVE Verified(d)'
  <2>1. Verified(d)
    BY DEF HttpInv, VerifiedInv
  <2>2. CASE request'[d] = request[d]
    BY <2>1, <2>2 DEF Verified
  <2>3. CASE request'[d].pc # "recording"
    BY <2>3 DEF Verified
  <2> QED BY <2>2, <2>3
<1> QED BY <1>1 DEF VerifiedInv

LEMMA CallKeeps ==
  ASSUME HttpInv, [Next]_vars, NEW c \in Calls,
         \/ UploadChecks(c) \/ UploadStores(c) \/ ExecuteChecks(c) \/ ExecuteStores(c)
         \/ ExecuteCreates(c) \/ ExecuteBinds(c) \/ CallStops(c)
  PROVE  HttpTypes' /\ RequestInv' /\ VerifiedInv'
<1>1. call' \in CallStates /\ observed' = observed
  <2>1. \/ CallGoes(c, "idle") \/ CallGoes(c, "uploading") \/ CallGoes(c, "checked")
        \/ CallGoes(c, "stored") \/ CallGoes(c, "created")
    BY DEF UploadChecks, UploadStores, ExecuteChecks, ExecuteStores, ExecuteCreates,
           ExecuteBinds, CallStops
  <2>2. observed' = observed
    BY DEF UploadChecks, UploadStores, ExecuteChecks, ExecuteStores, ExecuteCreates,
           ExecuteBinds, CallStops
  <2> QED BY <2>1, <2>2, CallTypes
<1>2. CASE UploadStores(c) \/ ExecuteStores(c)
  <2>1. http' = http /\ \E o \in Objects : Puts(o)
    BY <1>2 DEF UploadStores, ExecuteStores, Objects
  <2>2. RequestInv' /\ VerifiedInv' /\ objects' \subseteq Objects
    BY <2>1, PutsKeeps
  <2>3. HttpTypes'
    BY <1>1, <2>1, <2>2, RecordStays DEF HttpInv, HttpTypes
  <2> QED BY <2>2, <2>3
<1>3. CASE ExecuteBinds(c)
  <2>1. /\ http' \in HttpRecords /\ http'.intent = http.intent /\ http'.purged = http.purged
        /\ http'.inputDeleted = http.inputDeleted /\ http'.completed = http.completed
    BY <1>3 DEF ExecuteBinds, HttpInv, HttpTypes, HttpRecords
  <2>2. UNCHANGED <<vars, objects, observed, request>>
    BY <1>3 DEF ExecuteBinds
  <2>3. HttpTypes'
    BY <1>1, <2>1, <2>2 DEF HttpInv, HttpTypes, vars
  <2> QED BY <2>1, <2>2, <2>3, RequestsStay, VerifiedStays
<1>4. CASE UploadChecks(c) \/ ExecuteChecks(c) \/ ExecuteCreates(c) \/ CallStops(c)
  <2>1. UNCHANGED <<http, objects, request>>
    BY <1>4 DEF UploadChecks, ExecuteChecks, ExecuteCreates, CallStops
  <2>2. HttpTypes'
    BY <1>1, <2>1, RecordStays DEF HttpInv, HttpTypes
  <2> QED BY <2>1, <2>2, RequestsStay, VerifiedStays
<1> QED BY <1>2, <1>3, <1>4

LEMMA ArrivesKeeps ==
  ASSUME HttpInv, [Next]_vars, DeleteArrives \/ SweepArrives
  PROVE  HttpTypes' /\ RequestInv'
<1>1. {"client", "sweeper"} = Deleters
  BY DEF Deleters
<1>2. CASE DeleteArrives
  BY <1>1, <1>2, RecordStays, SnapshotKeeps DEF DeleteArrives, HttpInv, HttpTypes, vars
<1>3. CASE SweepArrives
  <2>1. /\ http' \in HttpRecords /\ http'.intent = TRUE /\ http'.purged = http.purged
        /\ http'.inputDeleted = http.inputDeleted /\ http'.completed = http.completed
    BY <1>3 DEF SweepArrives, HttpInv, HttpTypes, HttpRecords
  <2>2. HttpTypes'
    BY <1>3, <2>1 DEF SweepArrives, HttpInv, HttpTypes, vars
  <2> QED BY <1>1, <1>3, <2>1, <2>2, SnapshotKeeps DEF SweepArrives
<1> QED BY <1>2, <1>3

LEMMA DeleteIntendsKeeps ==
  ASSUME HttpInv, [Next]_vars, DeleteIntends
  PROVE  HttpTypes' /\ RequestInv'
<1> DEFINE q == request["client"]
           term == http.term \/ q.term
<1>1. /\ UNCHANGED <<vars, objects, observed, call>>
      /\ \/ Ends("client") /\ UNCHANGED http
         \/ /\ http' = [http EXCEPT !.intent = TRUE, !.term = term]
            /\ request' = [request EXCEPT !["client"].pc = "intended", !["client"].term = term]
  BY DEF DeleteIntends
<1>2. "client" \in Deleters
  BY DEF Deleters
<1>3. GoodRequest(q) /\ request \in [Deleters -> Requests] /\ http \in HttpRecords
  BY <1>2 DEF HttpInv, RequestInv, HttpTypes
<1>4. term \in BOOLEAN
  BY <1>3 DEF GoodRequest, Requests, HttpRecords
<1> HIDE DEF term
<1>5. CASE Ends("client") /\ UNCHANGED http
  BY <1>1, <1>2, <1>5, EndsKeeps, RecordStays DEF HttpInv, HttpTypes
<1>6. CASE /\ http' = [http EXCEPT !.intent = TRUE, !.term = term]
           /\ request' = [request EXCEPT !["client"].pc = "intended", !["client"].term = term]
  <2>1. /\ http' \in HttpRecords /\ http'.intent = TRUE /\ http'.purged = http.purged
        /\ http'.inputDeleted = http.inputDeleted /\ http'.completed = http.completed
    BY <1>3, <1>4, <1>6 DEF HttpRecords
  <2>2. HttpTypes'
    BY <1>1, <2>1 DEF HttpInv, HttpTypes, vars
  <2>3. PICK r : r = [q EXCEPT !.pc = "intended", !.term = term]
    OBVIOUS
  <2>4. request' = [request EXCEPT !["client"] = r]
    BY <1>2, <1>3, <1>6, <2>3
  <2>5. r \in Requests /\ r.pc = "intended" /\ r.bound = q.bound /\ r.state = q.state
    BY <1>3, <1>4, <2>3 DEF GoodRequest, Requests
  <2>6. GoodRequest(r)'
    BY <1>1, <1>3, <2>1, <2>5 DEF GoodRequest, Finishing, vars
  <2> QED BY <1>2, <2>1, <2>2, <2>4, <2>6, OneRequest
<1> QED BY <1>1, <1>5, <1>6

LEMMA Intends ==
  ASSUME HttpInv, NEW d \in Deleters, request[d].pc \in Intending
  PROVE  http.intent
BY DEF HttpInv, RequestInv, GoodRequest

LEMMA ControlsKeeps ==
  ASSUME HttpInv, [Next]_vars, NEW d \in Deleters, Controls(d) \/ Completes(d)
  PROVE  HttpTypes' /\ RequestInv'
<1>1. UNCHANGED <<http, objects, observed, call>> /\ http.intent
  BY Intends DEF Controls, Completes, At, Intending
<1>2. HttpTypes'
  BY <1>1, RecordStays DEF HttpInv, HttpTypes
<1>3. GoodRequest(request[d]) /\ request[d] \in Requests
  BY DEF HttpInv, RequestInv
<1>4. CASE Controls(d)
  <2>1. CASE CancelTask(d) \/ DeleteTask(d)
    BY <1>1, <1>2, <2>1, ControlKeeps
  <2>2. CASE request' = [request EXCEPT ![d].pc = "controlled"] /\ UNCHANGED vars
    <3>1. PICK q : q = [request[d] EXCEPT !.pc = "controlled"]
      OBVIOUS
    <3>2. request' = [request EXCEPT ![d] = q]
      BY <2>2, <3>1
    <3>3. q \in Requests /\ q.pc = "controlled" /\ q.bound = request[d].bound
          /\ q.state = request[d].state
      BY <1>3, <3>1 DEF Requests
    <3>4. GoodRequest(q)'
      BY <1>1, <1>3, <2>2, <3>3 DEF GoodRequest, Finishing, vars
    <3> QED BY <1>1, <1>2, <3>2, <3>4, OneRequest
  <2>3. request[d].control \in {"none", "cancel", "delete"}
    BY <1>3 DEF Requests
  <2> QED BY <1>4, <2>1, <2>2, <2>3 DEF Controls
<1>5. CASE Completes(d)
  <2>1. Ends(d) \/ (Got(d, "controlled", job[Job]) /\ UNCHANGED vars) \/ Got(d, "controlled", job'[Job])
    BY <1>5 DEF Completes
  <2>2. CASE Ends(d)
    BY <1>1, <1>2, <2>2, EndsKeeps
  <2>3. CASE (Got(d, "controlled", job[Job]) /\ UNCHANGED vars) \/ Got(d, "controlled", job'[Job])
    <3>1. Got(d, "controlled", job'[Job])
      BY <2>3 DEF vars
    <3> QED BY <1>1, <1>2, <3>1, GotKeeps
  <2> QED BY <2>1, <2>2, <2>3
<1> QED BY <1>4, <1>5

LEMMA ObservesKeeps ==
  ASSUME HttpInv, [Next]_vars, NEW d \in Deleters, Observes(d)
  PROVE  HttpTypes' /\ RequestInv'
<1> DEFINE q == request[d]
           released == ~q.bound \/ CapacityReleased
           raised == q.bound /\ (~released \/ q.state \in {"owning", "cancelling"})
<1>1. /\ UNCHANGED <<objects, observed, call>> /\ http.intent
      /\ http' = [http EXCEPT !.term = http.term \/ (raised /\ ~http.purged)]
  BY Intends DEF Observes, At, Intending
<1>2. \/ Ends(d)
      \/ released /\ (q.bound => q.state = "deleted") /\ Proceeds(d, "erasing") /\ UNCHANGED vars
      \/ DeleteTask(d)
  BY DEF Observes
<1>3. GoodRequest(q) /\ http \in HttpRecords
  BY DEF HttpInv, RequestInv, HttpTypes
<1>4. raised \in BOOLEAN
  BY <1>3 DEF GoodRequest, Requests, CapacityReleased
<1> HIDE DEF raised
<1>5. /\ http' \in HttpRecords /\ http'.intent = http.intent /\ http'.purged = http.purged
      /\ http'.inputDeleted = http.inputDeleted /\ http'.completed = http.completed
  BY <1>1, <1>3, <1>4 DEF HttpRecords
<1>6. HttpTypes'
  BY <1>1, <1>5, ClockNeverBack, LeaseAssumption
     DEF LeaseAssumption, HttpInv, CoreInv, HttpTypes
<1>7. CASE Ends(d)
  BY <1>5, <1>6, <1>7, EndsKeeps
<1>8. CASE DeleteTask(d)
  BY <1>1, <1>5, <1>6, <1>8, ControlKeeps
<1>9. CASE /\ released /\ (q.bound => q.state = "deleted")
           /\ Proceeds(d, "erasing") /\ UNCHANGED vars
  <2>1. q.bound => Gone'
    BY <1>3, <1>9 DEF GoodRequest, Gone, CapacityReleased, vars
  <2> QED BY <1>1, <1>5, <1>6, <1>9, <2>1, ProceedsKeeps DEF Finishing
<1> QED BY <1>2, <1>7, <1>8, <1>9

LEMMA FinishesKeeps ==
  ASSUME HttpInv, [Next]_vars, NEW d \in Deleters,
         Erases(d) \/ Verifies(d) \/ Records(d) \/ DeleterStops(d)
  PROVE  HttpTypes' /\ RequestInv'
<1>1. UNCHANGED <<vars, observed, call>> /\ objects' \subseteq objects
  BY DEF Erases, Verifies, Records, DeleterStops
<1>2. objects' \subseteq Objects
  BY <1>1 DEF HttpInv, HttpTypes
<1>3. CASE Records(d)
  <2>1. http.intent
    BY <1>3, Intends DEF Records, At, Intending, Finishing
  <2>2. \/ http' = http /\ http.purged
        \/ http' = [http EXCEPT !.inputDeleted = TRUE, !.completed = TRUE] /\ ~http.purged
    BY <1>3 DEF Records
  <2>3. /\ http' \in HttpRecords /\ http'.intent /\ http'.purged = http.purged
        /\ http'.completed => http'.inputDeleted
        /\ http'.purged => http'.completed
    BY <2>1, <2>2 DEF HttpInv, HttpTypes, HttpRecords
  <2>4. HttpTypes'
    BY <1>1, <1>2, <2>3 DEF HttpInv, HttpTypes, vars
  <2>5. Ends(d)
    BY <1>3 DEF Records
  <2> QED BY <2>3, <2>4, <2>5, EndsKeeps
<1>4. CASE Erases(d) \/ Verifies(d)
  <2>1. http' = http /\ request[d].pc \in Finishing
        /\ (Ends(d) \/ \E pc \in Finishing : Proceeds(d, pc))
    BY <1>4 DEF Erases, Verifies, At, Finishing
  <2>2. http.intent
    BY <2>1, Intends DEF Intending
  <2>3. request[d].bound => Gone'
    BY <1>1, <2>1 DEF HttpInv, RequestInv, GoodRequest, Gone, CapacityReleased, vars
  <2>4. HttpTypes'
    BY <1>1, <1>2, <2>1, RecordStays DEF HttpInv, HttpTypes
  <2> QED BY <2>1, <2>2, <2>3, <2>4, EndsKeeps, ProceedsKeeps
<1>5. CASE DeleterStops(d)
  BY <1>1, <1>2, <1>5, RecordStays, EndsKeeps DEF DeleterStops, HttpInv, HttpTypes
<1> QED BY <1>3, <1>4, <1>5

\* Only the verification lets a deletion record itself.
LEMMA DeletersVerify ==
  ASSUME HttpInv, NEW d \in Deleters,
         \/ Controls(d) \/ Completes(d) \/ Observes(d)
         \/ Erases(d) \/ Verifies(d) \/ Records(d) \/ DeleterStops(d)
  PROVE  VerifiedInv'
<1>1. request \in [Deleters -> Requests]
  BY DEF HttpInv, RequestInv
<1>2. ASSUME objects' \subseteq objects, NEW q, q.pc # "recording",
             request' = [request EXCEPT ![d] = q]
      PROVE  VerifiedInv'
  BY <1>1, <1>2, VerifiedStays
<1>3. ASSUME objects' \subseteq objects, Ends(d) PROVE VerifiedInv'
  <2>1. NoDeletion.pc # "recording"
    BY DEF NoDeletion
  <2> QED BY <1>2, <1>3, <2>1 DEF Ends
<1>4. ASSUME objects' \subseteq objects, NEW pc \in {"erasing", "verifying"}, Proceeds(d, pc)
      PROVE  VerifiedInv'
  <2>1. PICK q : q = [NoDeletion EXCEPT !.pc = pc, !.bound = request[d].bound]
    OBVIOUS
  <2>2. q.pc # "recording"
    BY <2>1 DEF NoDeletion
  <2> QED BY <1>2, <1>4, <2>1, <2>2 DEF Proceeds
<1>5. ASSUME objects' \subseteq objects, NEW pc \in {"completing", "controlled"}, NEW r,
             Got(d, pc, r)
      PROVE  VerifiedInv'
  <2>1. PICK q : q = [request[d] EXCEPT !.pc = pc, !.control = "none", !.state = Kind(r)]
    OBVIOUS
  <2>2. request[d] \in Requests
    BY <1>1
  <2>3. q.pc # "recording"
    BY <2>1, <2>2 DEF Requests
  <2>4. request' = [request EXCEPT ![d] = q]
    BY <1>1, <1>5, <2>1 DEF Got
  <2> QED BY <1>2, <1>5, <2>3, <2>4
<1>6. ASSUME objects' \subseteq objects, CancelTask(d) \/ DeleteTask(d) PROVE VerifiedInv'
  <2>1. \/ Ends(d)
        \/ \E pc \in {"completing", "controlled"} : Got(d, pc, job[Job]) \/ Got(d, pc, job'[Job])
    BY <1>6 DEF CancelTask, DeleteTask
  <2> QED BY <1>3, <1>5, <1>6, <2>1
<1>7. CASE Controls(d)
  <2>1. objects' = objects /\ request[d] \in Requests
    BY <1>1, <1>7 DEF Controls
  <2>2. CASE request' = [request EXCEPT ![d].pc = "controlled"]
    <3>1. PICK q : q = [request[d] EXCEPT !.pc = "controlled"]
      OBVIOUS
    <3>2. q.pc # "recording"
      BY <2>1, <3>1 DEF Requests
    <3>3. request' = [request EXCEPT ![d] = q]
      BY <2>2, <3>1
    <3> QED BY <1>2, <2>1, <3>2, <3>3
  <2>3. request[d].control \in {"none", "cancel", "delete"}
    BY <2>1 DEF Requests
  <2> QED BY <1>6, <1>7, <2>1, <2>2, <2>3 DEF Controls
<1>8. CASE Completes(d)
  <2>1. objects' = objects
        /\ (Ends(d) \/ Got(d, "controlled", job[Job]) \/ Got(d, "controlled", job'[Job]))
    BY <1>8 DEF Completes
  <2> QED BY <1>3, <1>5, <2>1
<1>9. CASE Observes(d)
  <2>1. objects' = objects /\ (Ends(d) \/ Proceeds(d, "erasing") \/ DeleteTask(d))
    BY <1>9 DEF Observes
  <2> QED BY <1>3, <1>4, <1>6, <2>1
<1>10. CASE Erases(d)
  <2>1. objects' \subseteq objects /\ Proceeds(d, "verifying")
    BY <1>10 DEF Erases
  <2> QED BY <1>4, <2>1
<1>11. CASE Verifies(d)
  <2>1. objects' = objects /\ (Ends(d) \/ (Proceeds(d, "recording") /\ objects \cap Keys(d) = {}))
    BY <1>11 DEF Verifies
  <2>2. CASE Proceeds(d, "recording") /\ objects \cap Keys(d) = {}
    <3>1. PICK q : q = [NoDeletion EXCEPT !.pc = "recording", !.bound = request[d].bound]
      OBVIOUS
    <3>2. q.bound = request[d].bound
      BY <3>1 DEF NoDeletion
    <3>3. request' = [request EXCEPT ![d] = q]
      BY <2>2, <3>1 DEF Proceeds
    <3>4. request'[d] = q /\ \A x \in Deleters \ {d} : request'[x] = request[x]
      BY <1>1, <3>3
    <3>5. request[d].bound => objects = {}
      BY <2>2 DEF Keys, HttpInv, HttpTypes, Objects
    <3>6. Verified(d)'
      BY <2>1, <3>2, <3>4, <3>5 DEF Verified
    <3>7. ASSUME NEW x \in Deleters \ {d} PROVE Verified(x)'
      <4>1. Verified(x)
        BY DEF HttpInv, VerifiedInv
      <4> QED BY <2>1, <3>4, <4>1 DEF Verified
    <3> QED BY <3>6, <3>7 DEF VerifiedInv
  <2> QED BY <1>3, <2>1, <2>2
<1>12. CASE Records(d) \/ DeleterStops(d)
  <2>1. objects' = objects /\ Ends(d)
    BY <1>12 DEF Records, DeleterStops
  <2> QED BY <1>3, <2>1
<1> QED BY <1>7, <1>8, <1>9, <1>10, <1>11, <1>12

LEMMA ArrivalsVerify ==
  ASSUME HttpInv, DeleteArrives \/ DeleteIntends \/ SweepArrives
  PROVE  VerifiedInv'
<1>1. request \in [Deleters -> Requests] /\ {"client", "sweeper"} = Deleters
  BY DEF HttpInv, RequestInv, Deleters
<1>2. objects' = objects
  BY DEF DeleteArrives, DeleteIntends, SweepArrives
<1>3. ASSUME NEW d \in Deleters, NEW pc \in {"snapshot", "intended"}, Snapshot(d, pc)
      PROVE  VerifiedInv'
  <2>1. request'[d].pc = pc /\ \A x \in Deleters \ {d} : request'[x] = request[x]
    BY <1>1, <1>3 DEF Snapshot
  <2>2. \A x \in Deleters : request'[x] = request[x] \/ request'[x].pc # "recording"
    BY <2>1
  <2> QED BY <1>2, <2>2, VerifiedStays
<1>4. CASE DeleteArrives \/ SweepArrives
  BY <1>1, <1>3, <1>4 DEF DeleteArrives, SweepArrives
<1>5. CASE DeleteIntends
  <2>1. /\ request'["client"].pc # "recording"
        /\ \A x \in Deleters \ {"client"} : request'[x] = request[x]
    <3>1. CASE Ends("client")
      BY <1>1, <3>1 DEF Ends, NoDeletion
    <3>2. request["client"] \in Requests
      BY <1>1
    <3>3. CASE request' = [request EXCEPT !["client"].pc = "intended",
                                          !["client"].term = http.term \/ request["client"].term]
      BY <1>1, <3>2, <3>3 DEF Requests
    <3> QED BY <1>5, <3>1, <3>3 DEF DeleteIntends
  <2>2. \A x \in Deleters : request'[x] = request[x] \/ request'[x].pc # "recording"
    BY <2>1
  <2> QED BY <1>2, <2>2, VerifiedStays
<1> QED BY <1>4, <1>5

\* The status reads and the purge.
LEMMA UpkeepKeeps ==
  ASSUME HttpInv, [Next]_vars, StatusOfEnded \/ Purge
  PROVE  HttpTypes' /\ RequestInv' /\ VerifiedInv'
<1>1. /\ UNCHANGED <<vars, observed, request, call>>
      /\ objects' \subseteq objects /\ objects' \subseteq Objects
  BY DEF StatusOfEnded, Purge, HttpInv, HttpTypes
<1>2. /\ http' \in HttpRecords /\ http'.intent = http.intent
      /\ http'.completed => http'.intent /\ http'.inputDeleted
      /\ http'.purged => http'.completed /\ now >= Ttl
  <2>1. CASE StatusOfEnded
    <3>1. http' = http \/ http' = [http EXCEPT !.inputDeleted = TRUE]
      BY <2>1 DEF StatusOfEnded
    <3> QED BY <1>1, <3>1 DEF HttpInv, HttpTypes, HttpRecords, vars
  <2>2. CASE Purge
    BY <2>2 DEF Purge, HttpInv, HttpTypes, HttpRecords
  <2> QED BY <2>1, <2>2
<1>3. HttpTypes'
  BY <1>1, <1>2 DEF HttpInv, HttpTypes, vars
<1> QED BY <1>1, <1>2, <1>3, RequestsStay, VerifiedStays

LEMMA WorkersKeep ==
  ASSUME HttpInv, [Next]_vars, WorkersStep \/ UNCHANGED httpVars
  PROVE  HttpTypes' /\ RequestInv' /\ VerifiedInv'
<1>1. UNCHANGED <<http, objects, request, call>> /\ observed' \in BOOLEAN
  BY DEF WorkersStep, httpVars, HttpInv, HttpTypes
<1>2. HttpTypes'
  BY <1>1, RecordStays DEF HttpInv, HttpTypes
<1> QED BY <1>1, <1>2, RequestsStay, VerifiedStays

-----------------------------------------------------------------------------
LEMMA HttpStepKeeps == ASSUME HttpInv, [HttpNext]_allVars PROVE HttpInv'
<1>1. [Next]_vars
  BY HttpStepIsCore
<1>2. CoreInv'
  BY <1>1, CoreKept DEF HttpInv
<1>3. HttpTypes' /\ RequestInv' /\ VerifiedInv'
  <2>1. CASE WorkersStep \/ UNCHANGED allVars
    BY <1>1, <2>1, WorkersKeep DEF allVars
  <2>2. ASSUME NEW c \in Calls,
               \/ UploadChecks(c) \/ UploadStores(c) \/ ExecuteChecks(c) \/ ExecuteStores(c)
               \/ ExecuteCreates(c) \/ ExecuteBinds(c) \/ CallStops(c)
        PROVE  HttpTypes' /\ RequestInv' /\ VerifiedInv'
    BY <1>1, <2>2, CallKeeps
  <2>3. CASE DeleteArrives \/ DeleteIntends \/ SweepArrives
    BY <1>1, <2>3, ArrivesKeeps, DeleteIntendsKeeps, ArrivalsVerify
  <2>4. ASSUME NEW d \in Deleters,
               \/ Controls(d) \/ Completes(d) \/ Observes(d)
               \/ Erases(d) \/ Verifies(d) \/ Records(d) \/ DeleterStops(d)
        PROVE  HttpTypes' /\ RequestInv' /\ VerifiedInv'
    BY <1>1, <2>4, ControlsKeeps, ObservesKeeps, FinishesKeeps, DeletersVerify
  <2>5. CASE StatusOfEnded \/ Purge
    BY <1>1, <2>5, UpkeepKeeps
  <2> QED BY <2>1, <2>2, <2>3, <2>4, <2>5 DEF HttpNext
<1> QED BY <1>2, <1>3 DEF HttpInv

LEMMA HttpInvariant == HttpSpec => []HttpInv
<1>1. HttpInit => HttpInv
  BY InitHttp
<1>2. HttpInv /\ [HttpNext]_allVars => HttpInv'
  BY HttpStepKeeps
<1> QED BY <1>1, <1>2, PTL DEF HttpSpec

\* Types of the HTTP record and of its handlers; a completed deletion was asked for
\* and has erased the inputs, and only a completed one is purged, after the time to
\* live (#deleteJob, reconcileDurableDeletion, purgeExpired).
THEOREM HttpTypesHold == HttpSpec => []HttpTypeOK
<1>1. HttpInv => HttpTypeOK
  BY HttpInvImplies
<1> QED BY <1>1, HttpInvariant, PTL

\* The routes and the sweeper only do to the job what its workers and the API may
\* do: all that LeaseCoordination promises holds under them.
THEOREM RoutesRunTheCore == HttpSpec => Spec
<1>1. HttpInit => Init
  BY DEF HttpInit
<1>2. [HttpNext]_allVars => [Next]_vars
  BY HttpStepIsCore
<1> QED BY <1>1, <1>2, PTL DEF HttpSpec, Spec

\* A deletion that knew its task completes only over a job that is deleted, holds
\* no slot and has no process on any machine, whatever any number of uploads and
\* executes, the sweeper, a second deletion or a worker did between two of its
\* steps; objects that are left came back after their absence was verified, by a
\* call that the binding overtook (#deleteJob, reconcileDurableDeletion).
THEOREM ReceiptsAreTrue == HttpSpec => DeletionReceiptIsTrue
<1>1. ASSUME HttpInv, [HttpNext]_allVars, NEW d \in Deleters,
             ~http.completed, http'.completed, request[d].bound, At(d, "recording"),
             request'[d].pc = "idle"
      PROVE  /\ job[Job].state = "deleted" /\ CapacityReleased
             /\ \A e \in Epochs : ~Live(Job, e)
             /\ objects' \subseteq request[d].late
  <2>1. Gone
    BY <1>1 DEF HttpInv, RequestInv, GoodRequest, At, Finishing
  <2>2. \A e \in Epochs : ~Live(Job, e)
    <3>1. GoodRecord(job[Job]) /\ Job \in Tasks /\ LeaseInv
      BY <1>1, HttpAssumption DEF HttpAssumption, HttpInv, CoreInv, LeaseInv, JobInv
    <3>2. ~job[Job].exec
      BY <2>1, <3>1 DEF Gone, GoodRecord, ProcessOwningStates
    <3> QED BY <3>1, <3>2, NoAttempt
  <2>3. request[d].pc # request'[d].pc /\ request[d].pc = "recording"
    BY <1>1 DEF At
  <2>4. objects \subseteq request[d].late
    BY <1>1, <2>3 DEF HttpInv, VerifiedInv, Verified
  <2>5. objects' = objects
    <3>2. ASSUME NEW c \in Calls PROVE ~UploadStores(c) /\ ~ExecuteStores(c)
      BY <1>1, <3>2 DEF UploadStores, ExecuteStores
    <3>3. ASSUME NEW x \in Deleters PROVE ~Erases(x)
      BY <1>1, <3>3 DEF Erases
    <3>4. ~StatusOfEnded
      <4>1. SUFFICES ASSUME StatusOfEnded PROVE FALSE
        OBVIOUS
      <4> QED BY <1>1, <2>3, <4>1 DEF StatusOfEnded
    <3>5. CASE UNCHANGED allVars
      BY <3>5 DEF allVars, httpVars
    <3>6. ASSUME NEW c \in Calls,
                 \/ UploadChecks(c) \/ ExecuteChecks(c) \/ ExecuteCreates(c)
                 \/ ExecuteBinds(c) \/ CallStops(c)
          PROVE  objects' = objects
      BY <3>6 DEF UploadChecks, ExecuteChecks, ExecuteCreates, ExecuteBinds, CallStops
    <3>7. CASE DeleteArrives \/ DeleteIntends \/ SweepArrives \/ Purge \/ WorkersStep
      BY <3>7 DEF DeleteArrives, DeleteIntends, SweepArrives, Purge, WorkersStep, httpVars
    <3>8. ASSUME NEW x \in Deleters,
                 \/ Controls(x) \/ Completes(x) \/ Observes(x) \/ Verifies(x) \/ Records(x)
                 \/ DeleterStops(x)
          PROVE  objects' = objects
      BY <3>8 DEF Controls, Completes, Observes, Verifies, Records, DeleterStops
    <3> QED BY <1>1, <3>2, <3>3, <3>4, <3>5, <3>6, <3>7, <3>8 DEF HttpNext
  <2> QED BY <2>1, <2>2, <2>4, <2>5 DEF Gone
<1>2. HttpInv /\ [HttpNext]_allVars =>
        [\A d \in Deleters :
           ~http.completed /\ http'.completed /\ request[d].bound /\ At(d, "recording")
                /\ request'[d].pc = "idle"
             => /\ job[Job].state = "deleted"
                /\ CapacityReleased
                /\ \A e \in Epochs : ~Live(Job, e)
                /\ objects' \subseteq request[d].late]_allVars
  BY <1>1
<1> QED BY <1>2, HttpInvariant, PTL DEF HttpSpec, DeletionReceiptIsTrue
=============================================================================
