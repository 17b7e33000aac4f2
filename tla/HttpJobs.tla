------------------------------ MODULE HttpJobs ------------------------------
(***************************************************************************)
(* The HTTP record of one job over the workers of LeaseCoordination: the    *)
(* handlers of packages/compute-service-http/src/router.ts that bind a job  *)
(* to a core task (POST execute), upload its input (PUT content), delete it  *)
(* (DELETE, and the sweeper's reconcileDurableDeletion) and erase its        *)
(* inputs, and the purge of the PostgreSQL repository.                       *)
(*                                                                         *)
(* A handler is a sequence of awaits, so every step that reads or writes     *)
(* shared state is an action, and what it remembers between two of them is   *)
(* in request.  API processes may stop between any two steps.  Capabilities, *)
(* idempotency keys, datasets and events are left out.                       *)
(***************************************************************************)
EXTENDS LeaseCoordination

CONSTANTS
  Job,   \* the task whose HTTP record is followed
  Calls, \* its uploads and executes that may be in flight together
  MaxInFlight  \* bound: handlers at work together, uploads to sweeper

ASSUME HttpAssumption == Job \in Tasks /\ MaxInFlight \in Nat

VARIABLES
  http,      \* the row of compute_http_jobs
  objects,   \* the job's uploaded input and execution object in the store
  observed,  \* a termination receipt of the task exists
  request,   \* the deletion in flight of the client and of the sweeper
  call       \* where each PUT content or POST execute in flight is

httpVars == <<http, objects, observed, request, call>>
allVars == <<vars, httpVars>>

Deleters == {"client", "sweeper"}

\* Of what a deletion read of the core record it keeps what it makes of it: what
\* to ask of the core, and whether the record is deleted, cancelling or owns a
\* process.  late is a history: the objects put since their absence was verified.
NoDeletion == [pc |-> "idle", bound |-> FALSE, control |-> "none", state |-> "other",
               term |-> FALSE, late |-> {}]

HttpInit ==
  /\ Init
  /\ http = [bound |-> FALSE, intent |-> FALSE, term |-> FALSE,
             inputDeleted |-> FALSE, completed |-> FALSE, purged |-> FALSE]
  /\ objects = {}
  /\ observed = FALSE
  /\ request = [d \in Deleters |-> NoDeletion]
  /\ call = [c \in Calls |-> "idle"]

HttpTypeOK ==
  /\ TypeOK
  /\ http \in [bound : BOOLEAN, intent : BOOLEAN, term : BOOLEAN,
               inputDeleted : BOOLEAN, completed : BOOLEAN, purged : BOOLEAN]
  /\ objects \subseteq {"input", "execution"}
  /\ observed \in BOOLEAN
  /\ request \in [Deleters ->
       [pc : {"idle", "snapshot", "intended", "completing", "controlled",
              "erasing", "verifying", "recording"},
        bound : BOOLEAN, control : {"none", "cancel", "delete"},
        state : {"deleted", "cancelling", "owning", "other"}, term : BOOLEAN,
        late : SUBSET {"input", "execution"}]]
  /\ call \in [Calls -> {"idle", "uploading", "checked", "stored", "created"}]
  /\ http.completed => http.intent /\ http.inputDeleted
  /\ http.purged => http.completed /\ now >= Ttl

\* The core states in which a record has no process and will get none.
Stopped == Final \cup {"deleting"}

\* PostgresDeletionLifecycleProbe.capacityReleased
CapacityReleased == \A s \in Slots : slot[s].task # Job

-----------------------------------------------------------------------------
(* PUT content and POST execute *)

\* Bound: how many handlers are at work together.
Arrives ==
  Cardinality({c \in Calls : call[c] # "idle"})
    + Cardinality({d \in Deleters : request[d].pc # "idle"}) < MaxInFlight


\* putImmutable, which asks neither for the record nor for a deletion.
Puts(o) ==
  /\ objects' = objects \cup {o}
  /\ request' = [d \in Deleters |->
       IF request[d].pc = "recording"
       THEN [request[d] EXCEPT !.late = @ \cup {o}] ELSE request[d]]

CallGoes(c, pc) == call' = [call EXCEPT ![c] = pc]

\* The record is read and then the body, which may take its time.
UploadChecks(c) ==
  /\ call[c] = "idle" /\ Arrives
  /\ ~http.purged /\ ~http.bound /\ ~http.inputDeleted /\ now < Ttl
  /\ CallGoes(c, "uploading")
  /\ UNCHANGED <<vars, http, objects, observed, request>>

UploadStores(c) ==
  /\ call[c] = "uploading"
  /\ Puts("input")
  /\ CallGoes(c, "idle")
  /\ UNCHANGED <<vars, http, observed>>

\* The checks, on the record as it was authorized.
ExecuteChecks(c) ==
  /\ call[c] = "idle" /\ Arrives
  /\ ~http.purged /\ ~http.bound /\ now < Deadline /\ "input" \in objects
  /\ CallGoes(c, "checked")
  /\ UNCHANGED <<vars, http, objects, observed, request>>

\* The execution object, put under the job's own key.
ExecuteStores(c) ==
  /\ call[c] = "checked"
  /\ Puts("execution")
  /\ CallGoes(c, "stored")
  /\ UNCHANGED <<vars, http, observed>>

\* createTask: a new core task, or the replay of one that an earlier call
\* created; after the deadline it throws.
ExecuteCreates(c) ==
  /\ call[c] = "stored"
  /\ IF now >= Deadline
     THEN CallGoes(c, "idle") /\ UNCHANGED vars
     ELSE /\ CallGoes(c, "created")
          /\ IF job[Job].state = "absent" THEN Create(Job) ELSE UNCHANGED vars
  /\ UNCHANGED <<http, objects, observed, request>>

\* The compare-and-set loop binds the task, or finds it bound by a concurrent
\* execute of the same request; nothing in it asks for a deletion.
ExecuteBinds(c) ==
  /\ call[c] = "created"
  /\ http' = [http EXCEPT !.bound = @ \/ ~http.purged]
  /\ CallGoes(c, "idle")
  /\ UNCHANGED <<vars, objects, observed, request>>

CallStops(c) ==
  /\ call[c] # "idle"
  /\ CallGoes(c, "idle")
  /\ UNCHANGED <<vars, http, objects, observed, request>>

-----------------------------------------------------------------------------
(* The deletion: what DELETE and the sweeper share *)

At(d, pc) == request[d].pc = pc

Ends(d) == request' = [request EXCEPT ![d] = NoDeletion]

\* What the handler remembers of a core record.
Kind(r) ==
  CASE r.state \in {"deleted", "cancelling"} -> r.state
    [] r.state \notin {"deleted", "cancelling"}
         /\ (r.exec \/ r.state \in ProcessOwningStates) -> "owning"
    [] OTHER -> "other"

\* The handler goes on with the core record r it got back.
Got(d, pc, r) ==
  request' = [request EXCEPT ![d].pc = pc, ![d].control = "none", ![d].state = Kind(r)]

\* The handler goes on to erase; what it read before is not used any more.
Proceeds(d, pc) ==
  request' = [request EXCEPT ![d] =
               [NoDeletion EXCEPT !.pc = pc, !.bound = request[d].bound]]

\* cancelTask; a write that the fence of a quarantined claim refuses makes the
\* handler fail.
CancelTask(d) ==
  LET r == job[Job]
      needed == /\ r.state \in {"queued", "leased"} \cup ProcessOwningStates
                /\ r.pending \notin {"cancelled", "deleted"}
  IN
  IF ~needed THEN Got(d, "controlled", r) /\ UNCHANGED vars
  ELSE IF Fenced(Job) THEN Cancel(Job) /\ Got(d, "controlled", job'[Job])
  ELSE Ends(d) /\ UNCHANGED vars

\* The first write of deleteTask; a record without a process goes on to
\* #completeDeletion.
DeleteTask(d) ==
  LET r == job[Job]
      pending == r.state \in ProcessOwningStates /\ r.pending = "deleted"
      next(x) == IF x.state = "deleting" THEN "completing" ELSE "controlled"
  IN
  IF r.state \in {"deleted", "deleting"} \/ pending
  THEN Got(d, next(r), r) /\ UNCHANGED vars
  ELSE IF Fenced(Job) THEN Delete(Job) /\ Got(d, next(job'[Job]), job'[Job])
  ELSE Ends(d) /\ UNCHANGED vars

-----------------------------------------------------------------------------
(* DELETE, and reconcileDurableDeletion *)

\* The HTTP record as it is read, and the core record it names.  A task that
\* holds a slot without having been started will be cancelled, so that its worker
\* gives the slot back; every other one is deleted.
Snapshot(d, pc) ==
  LET r == job[Job]
      waits == ~CapacityReleased /\ ~r.exec
      control == CASE ~http.bound -> "none"
                   [] http.bound /\ waits /\ r.state \notin Stopped -> "cancel"
                   [] http.bound /\ waits /\ r.state \in Stopped /\ d = "client" -> "none"
                   [] OTHER -> "delete"
  IN
  request' = [request EXCEPT ![d] =
    [pc |-> pc, bound |-> http.bound, control |-> control,
     state |-> IF http.bound /\ control = "none" THEN Kind(r) ELSE "other",
     term |-> \/ http.term
              \/ /\ d = "client" /\ http.bound
                 /\ ~CapacityReleased \/ (r.exec /\ r.state \in ProcessOwningStates),
     late |-> {}]]

\* DELETE reads everything before it persists the intent.
DeleteArrives ==
  /\ At("client", "idle") /\ Arrives /\ ~http.purged
  /\ Snapshot("client", "snapshot")
  /\ UNCHANGED <<vars, http, objects, observed, call>>

\* The intent, with the termination flag that the snapshot calls for.
DeleteIntends ==
  LET term == http.term \/ request["client"].term IN
  /\ At("client", "snapshot")
  /\ IF http.purged THEN Ends("client") /\ UNCHANGED http
     ELSE /\ http' = [http EXCEPT !.intent = TRUE, !.term = term]
          /\ request' = [request EXCEPT !["client"].pc = "intended",
                                        !["client"].term = term]
  /\ UNCHANGED <<vars, objects, observed, call>>

\* Mutant: an expired job is deleted without a persisted intent.
SweepArrives_Unmarked ==
  /\ At("sweeper", "idle") /\ Arrives /\ ~http.purged /\ ~http.completed
  /\ http.intent \/ now >= Ttl
  /\ Snapshot("sweeper", "intended")
  /\ UNCHANGED <<vars, http, objects, observed, call>>

\* claimDue and the beginning of reconcileDurableDeletion: an expired job gets
\* its intent, before core record and capacity are read.
SweepArrives ==
  /\ At("sweeper", "idle") /\ Arrives /\ ~http.purged /\ ~http.completed
  /\ http.intent \/ now >= Ttl
  /\ http' = [http EXCEPT !.intent = TRUE]
  /\ Snapshot("sweeper", "intended")
  /\ UNCHANGED <<vars, objects, observed, call>>

Controls(d) ==
  LET q == request[d] IN
  /\ At(d, "intended")
  /\ CASE q.control = "none" ->
            /\ request' = [request EXCEPT ![d].pc = "controlled"]
            /\ UNCHANGED vars
       [] q.control = "cancel" -> CancelTask(d)
       [] OTHER -> DeleteTask(d)
  /\ UNCHANGED <<http, objects, observed, call>>

\* #completeDeletion: the core's objects are erased, then the record becomes
\* deleted, unless another call was faster.
Completes(d) ==
  /\ At(d, "completing")
  /\ IF job[Job].state = "deleted"
     THEN Got(d, "controlled", job[Job]) /\ UNCHANGED vars
     ELSE IF Fenced(Job)
     THEN CompleteDeletion(Job) /\ Got(d, "controlled", job'[Job])
     ELSE Ends(d) /\ UNCHANGED vars
  /\ UNCHANGED <<http, objects, observed, call>>

\* Mutant: only the core record is looked at, not the slot and the receipt.
Observes_RecordOnly(d) ==
  LET q == request[d] IN
  /\ At(d, "controlled")
  /\ \/ q.state = "cancelling" /\ Ends(d) /\ UNCHANGED vars
     \/ (q.bound => q.state = "deleted") /\ Proceeds(d, "erasing") /\ UNCHANGED vars
     \/ q.bound /\ q.state \notin {"cancelling", "deleted"} /\ DeleteTask(d)
  /\ UNCHANGED <<http, objects, observed, call>>

\* What the handler finds now, capacity and termination receipt, and the flag
\* it raises.  It ends here when the deletion is pending, or, with status 500,
\* when capacity was released and no receipt tells of a termination.  A task
\* that was only cancelled so far is deleted, after which this is true again.
Observes(d) ==
  LET q == request[d]
      released == ~q.bound \/ CapacityReleased
      raised == /\ q.bound
                /\ ~released \/ q.state \in {"owning", "cancelling"}
      settled == /\ released
                 /\ q.term \/ raised => q.bound /\ observed
                 /\ d = "client" => q.state # "cancelling"
                 /\ raised => ~http.purged
  IN
  /\ At(d, "controlled")
  /\ http' = [http EXCEPT !.term = @ \/ (raised /\ ~http.purged)]
  /\ \/ ~settled /\ Ends(d) /\ UNCHANGED vars
     \/ settled /\ (q.bound => q.state = "deleted")
        /\ Proceeds(d, "erasing") /\ UNCHANGED vars
     \/ settled /\ q.bound /\ q.state # "deleted" /\ DeleteTask(d)
  /\ UNCHANGED <<objects, observed, call>>

\* The keys the handler knows of: the execution object's if it saw the task
\* bound.
Keys(d) == IF request[d].bound THEN {"input", "execution"} ELSE {"input"}

Erases(d) ==
  /\ At(d, "erasing")
  /\ objects' = objects \ Keys(d)
  /\ Proceeds(d, "verifying")
  /\ UNCHANGED <<vars, http, observed, call>>

\* An object that came back in the meantime is answered with status 500.
Verifies(d) ==
  /\ At(d, "verifying")
  /\ IF objects \cap Keys(d) = {} THEN Proceeds(d, "recording") ELSE Ends(d)
  /\ UNCHANGED <<vars, http, objects, observed, call>>

Records(d) ==
  /\ At(d, "recording")
  /\ http' = IF http.purged THEN http
             ELSE [http EXCEPT !.inputDeleted = TRUE, !.completed = TRUE]
  /\ Ends(d)
  /\ UNCHANGED <<vars, objects, observed, call>>

DeleterStops(d) ==
  /\ ~At(d, "idle")
  /\ Ends(d)
  /\ UNCHANGED <<vars, http, objects, observed, call>>

-----------------------------------------------------------------------------
(* Status reads, the purge, and the workers *)

\* #statusSnapshot of a job that ended without a deletion, by a GET or by the
\* sweeper's reconcileJob: #deleteOwnedInputs, which may die before it records
\* what it erased.
StatusOfEnded ==
  /\ ~http.purged /\ ~http.inputDeleted /\ ~http.intent
  /\ IF http.bound THEN job[Job].state \in Final ELSE now >= Ttl
  /\ objects' = objects \ (IF http.bound THEN {"input", "execution"} ELSE {"input"})
  /\ http' \in {http, [http EXCEPT !.inputDeleted = TRUE]}
  /\ UNCHANGED <<vars, observed, request, call>>

\* purgeExpired
Purge ==
  /\ ~http.purged /\ http.completed /\ now >= Ttl
  /\ http.bound => job[Job].state = "deleted"
  /\ http' = [http EXCEPT !.purged = TRUE]
  /\ UNCHANGED <<vars, objects, observed, request, call>>

\* The worker's deleteTask after it gave the slot of a deleting task back.
WorkerDeletes(t) == (\A s \in Slots : slot[s].task # t) /\ CompleteDeletion(t)

\* A worker that shuts down or is not ready cancels the task it watches.
WorkerCancels(t) ==
  /\ \E w \in Workers : worker[w].pc = "watching" /\ worker[w].task = t
  /\ Cancel(t)

\* The steps of the workers that write no termination receipt.  Children publish
\* nothing here: to a deletion a job that succeeded is as one that failed.  The recovery of
\* an expired claim is one: it only writes one for a record that is final, and
\* such a record has no lease, which is a conflict.
Unreported ==
  \/ Tick
  \/ \E w \in Workers :
       \/ ChecksReady(w) \/ RecoverExpiredClaims(w) \/ RecoveryFails(w) \/ ClaimNothing(w)
       \/ \E t \in Tasks : ClaimNext(w, t)
       \/ ExecuteStart(w) \/ ExecuteRefused(w) \/ LaunchTimedOut(w)
       \/ WatchSweep(w) \/ WatchStop(w) \/ Heartbeat(w) \/ WatchFinal(w)
       \/ Crash(w) \/ Restart(w)
  \/ \E t \in Tasks :
       \/ WorkerCancels(t) \/ TemporalSweep(t) \/ WorkerDeletes(t)
       \/ \E e \in Epochs :
            \/ Spawned(t, e) \/ SpawnFails(t, e) \/ LaunchRejected(t, e)
            \/ ChildExits(t, e) \/ Finalize(t, e)

\* reconcileObservedTermination and reconcileQuarantinedClaim free the slot and
\* insert the receipt in one transaction.
Reported ==
  \/ \E w \in Workers : WatchDeleting(w) \/ EndTick(w)
  \/ \E s \in Slots : ReconcileQuarantined(s)

WorkersStep ==
  \/ Unreported /\ UNCHANGED httpVars
  \/ /\ Reported
     /\ observed' = (observed \/ (~CapacityReleased /\ CapacityReleased'))
     /\ UNCHANGED <<http, objects, request, call>>

HttpNext ==
  \/ \E c \in Calls :
       \/ UploadChecks(c) \/ UploadStores(c)
       \/ ExecuteChecks(c) \/ ExecuteStores(c) \/ ExecuteCreates(c) \/ ExecuteBinds(c)
       \/ CallStops(c)
  \/ DeleteArrives \/ DeleteIntends \/ SweepArrives
  \/ \E d \in Deleters :
       Controls(d) \/ Completes(d) \/ Observes(d)
       \/ Erases(d) \/ Verifies(d) \/ Records(d) \/ DeleterStops(d)
  \/ StatusOfEnded \/ Purge
  \/ WorkersStep

HttpSpec == HttpInit /\ [][HttpNext]_allVars
=============================================================================
