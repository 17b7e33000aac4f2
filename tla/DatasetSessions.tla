---------------------------- MODULE DatasetSessions ----------------------------
(***************************************************************************)
(* PostgresComputeHttpDatasetWorkflowService for one dataset session, with  *)
(* the DatasetWorkflow each call builds over PostgresDatasetWorkflowStorage *)
(* and one analysis job that is bound to an activation of the dataset.      *)
(*                                                                          *)
(* Each query and each call of the object store is a step of its own, and   *)
(* everything interleaves between two of them.  What a call still has to do *)
(* is the list "todo" of such steps.  A session keeps one generation, so    *)
(* that a workflow is current exactly while the row is live.  The object    *)
(* store is used through its contract (see ObjectLedger): a put or a delete *)
(* of a key is one step.                                                    *)
(***************************************************************************)
EXTENDS Naturals, Sequences, SequencesExt

CONSTANTS
  Calls,        \* bound: the calls in flight, requests or sweeps
  Steady,       \* those that do not die before they return, the sweeper's among them
  Overlapping,  \* bound: the requests a steady call may be made with
  Sheets,       \* worksheets of the source
  Mappings,     \* role mappings of a parsed worksheet
  Bytes,        \* contents of an upload of the announced length
  Announced,    \* the one whose digest the preflight has announced
  Source,       \* the input object source.bin
  None,
  MaxReceipts   \* bound: activation receipts

ASSUME DatasetAssumption ==
  /\ MaxReceipts \in Nat \ {0}
  /\ Steady \subseteq Calls
  /\ Announced \in Bytes /\ Source \notin Sheets
  /\ IsFiniteSet(Sheets)

VARIABLES
  row,       \* the compute_dataset_workflows row, without its control state
  control,   \* its control_state
  source,    \* the bytes of source.bin, None when there is none
  parsed,    \* sheets whose parsed object is stored
  artifacts, \* compute_dataset_artifacts: Source and sheets
  receipts,  \* activation receipts given out
  job,       \* the job bound to a receipt
  call       \* what each call still has to do

vars == <<row, control, source, parsed, artifacts, receipts, job, call>>

Ids == Sheets \X Mappings
Receipts == [id : Ids, n : 1..MaxReceipts]

Control ==
  [inspected : BOOLEAN, parsed : Sheets \cup {None}, mapping : Mappings \cup {None},
   prepared : Ids \cup {None}, activation : Receipts \cup {None}]

Empty == [inspected |-> FALSE, parsed |-> None, mapping |-> None,
          prepared |-> None, activation |-> None]

\* The workflow is current: the row is neither deleted nor expired.
Live == ~row.deleted /\ ~row.expired

Step(do, on) == [do |-> do, on |-> on]
Kinds == {"put", "stage", "keep", "read", "store", "swap", "confirm", "save",
          "see", "verify", "bind", "match", "list", "erase", "probe", "mark", "patch"}

\* fresh: the revision the call has loaded still is the row's, so that the
\* control state it has loaded is the row's as well; arg: what was asked for;
\* seen: the active record it has read.
Idle == [op |-> "none", todo |-> <<>>, fresh |-> FALSE, arg |-> None, seen |-> None]

TypeOK ==
  /\ row \in [deleted : BOOLEAN, expired : BOOLEAN, active : Ids \cup {None}]
  /\ control \in Control
  /\ source \in Bytes \cup {None}
  /\ parsed \subseteq Sheets
  /\ artifacts \subseteq {Source} \cup Sheets
  /\ receipts \in 0..MaxReceipts
  /\ job \in [receipt : Receipts \cup {None}, input : Ids \cup {None},
              st : {"none", "bound", "ended", "cleared"}]
  /\ \A a \in Calls :
       /\ \A i \in 1..Len(call[a].todo) : call[a].todo[i].do \in Kinds
       /\ call[a].op = "none" <=> call[a].todo = <<>>
  /\ row.deleted => control = Empty /\ row.active = None
  /\ control.prepared # None => control.prepared = <<control.parsed, control.mapping>>
  /\ control.activation # None => control.activation.id = control.prepared

Init ==
  /\ row = [deleted |-> FALSE, expired |-> FALSE, active |-> None]
  /\ control = Empty
  /\ source = None /\ parsed = {} /\ artifacts = {} /\ receipts = 0
  /\ job = [receipt |-> None, input |-> None, st |-> "none"]
  /\ call = [a \in Calls |-> Idle]

-----------------------------------------------------------------------------
(* The calls, as lists of steps *)

\* stageUpload
Stage == <<Step("stage", Source)>>

\* parseWorksheet: the upload is read back and parsed, the parsed rows are
\* stored and then referred to.
Parse(s) ==
  IF s = None THEN <<>>
  ELSE <<Step("read", Source), Step("store", s), Step("keep", s)>>

\* #rehydrate: a new workflow repeats what the loaded state says was done.
Rehydrate(c) == Stage \o Parse(c.parsed)

\* The steps that follow the load, for a call that it allows.
Plan(op, arg, c) ==
  CASE op = "upload"   -> <<Step("put", arg)>> \o Stage \o <<Step("save", None)>>
    [] op = "select"   -> Rehydrate(c) \o Parse(arg) \o <<Step("save", None)>>
    [] op = "map"      -> <<Step("save", None)>>
    [] op = "preview"  -> Rehydrate(c) \o <<Step("read", c.parsed), Step("save", None)>>
    [] op = "activate" ->
         Rehydrate(c) \o <<Step("read", c.parsed), Step("swap", c.prepared),
                           Step("confirm", c.prepared), Step("save", None)>>
    [] op = "create"   -> <<Step("see", None), Step("verify", c.activation),
                           Step("bind", c.activation)>>
    [] OTHER           -> <<Step("see", None), Step("match", c.activation.id)>>

\* What each call may be asked for, given the state it loads; nothing when it
\* is refused.  An activation names the active record its client knows of.
Asks(op, c) ==
  CASE op = "upload" -> Bytes
    [] op = "select" /\ c.inspected -> Sheets
    [] op = "map" /\ c.parsed # None -> Mappings
    [] op = "preview" /\ c.mapping # None -> {None}
    [] op = "activate" /\ c.prepared # None /\ receipts < MaxReceipts -> {None, row.active}
    [] op = "create" /\ c.activation # None /\ job.st = "none" -> {None}
    [] op = "execute" /\ job.st = "bound" /\ job.input = None /\ c.activation = job.receipt
         -> {None}
    [] OTHER -> {}

\* The calls that store a control state.
Saving == {"upload", "select", "map", "preview", "activate"}

Requests == {"upload", "select", "map", "preview", "activate", "create", "execute"}

\* Mutant: the upload stores its bytes before it looks for the session.
Begin_UploadUnchecked(a, op, arg) ==
  /\ call[a] = Idle
  /\ Live \/ op = "upload"
  /\ call' = [call EXCEPT ![a] =
       [op |-> op, todo |-> Plan(op, arg, control), fresh |-> op \in Saving,
        arg |-> IF op \in {"select", "map", "activate"} THEN arg ELSE None,
        seen |-> None]]
  /\ UNCHANGED <<row, control, source, parsed, artifacts, receipts, job>>

\* A request is authorized and loads the live row.
Begin(a, op, arg) ==
  /\ call[a] = Idle
  /\ Live
  /\ call' = [call EXCEPT ![a] =
       [op |-> op, todo |-> Plan(op, arg, control), fresh |-> op \in Saving,
        arg |-> IF op \in {"select", "map", "activate"} THEN arg ELSE None,
        seen |-> None]]
  /\ UNCHANGED <<row, control, source, parsed, artifacts, receipts, job>>

\* DELETE of the session.
Delete(a) ==
  /\ call[a] = Idle /\ Live
  /\ call' = [call EXCEPT ![a] = [Idle EXCEPT !.op = "delete", !.todo = <<Step("list", None)>>]]
  /\ UNCHANGED <<row, control, source, parsed, artifacts, receipts, job>>

Clearing(todo) == [Idle EXCEPT !.op = "clear", !.todo = todo]

\* Mutant: a session that is gone is an error, as in the in-memory service.
Clear_Strict(a) ==
  /\ call[a] = Idle /\ job.st = "ended"
  /\ Live /\ control.activation = job.receipt
  /\ call' = [call EXCEPT ![a] = Clearing(<<Step("list", None)>>)]
  /\ UNCHANGED <<row, control, source, parsed, artifacts, receipts, job>>

\* deleteActivated for an ended job: nothing to do when the session is gone,
\* an error when its receipt is not the current one.
Clear(a) ==
  /\ call[a] = Idle /\ job.st = "ended"
  /\ \/ /\ ~Live
        /\ call' = [call EXCEPT ![a] = Clearing(<<Step("patch", None)>>)]
     \/ /\ Live /\ control.activation = job.receipt
        /\ call' = [call EXCEPT ![a] = Clearing(<<Step("list", None)>>)]
  /\ UNCHANGED <<row, control, source, parsed, artifacts, receipts, job>>

-----------------------------------------------------------------------------
(* The steps *)

At(a, do) == call[a].todo # <<>> /\ Head(call[a].todo).do = do
On(a) == Head(call[a].todo).on

\* The call goes on with its next step or, after the last one, returns.
Moved(a) ==
  IF Len(call[a].todo) = 1 THEN Idle ELSE [call[a] EXCEPT !.todo = Tail(@)]
Advance(a) == call' = [call EXCEPT ![a] = Moved(a)]
Fail(a) == call' = [call EXCEPT ![a] = Idle]
Check(a, holds) == IF holds THEN Advance(a) ELSE Fail(a)

\* putImmutable of the uploaded bytes, whose digest nobody has checked yet; a
\* key that holds other bytes refuses them.
PutSource(a) ==
  /\ At(a, "put")
  /\ source' = IF source = None THEN On(a) ELSE source
  /\ Check(a, source \in {None, On(a)})
  /\ UNCHANGED <<row, control, parsed, artifacts, receipts, job>>

\* The stored bytes have the announced digest, the workflow is current, and the
\* upload gets its artifact row.
StageUpload(a) ==
  /\ At(a, "stage")
  /\ LET accepted == Live /\ source = Announced IN
     /\ artifacts' = IF accepted THEN artifacts \cup {Source} ELSE artifacts
     /\ Check(a, accepted)
  /\ UNCHANGED <<row, control, source, parsed, receipts, job>>

\* The artifact row of a parsed sheet.
KeepArtifact(a) ==
  /\ At(a, "keep")
  /\ artifacts' = artifacts \cup {On(a)}
  /\ Advance(a)
  /\ UNCHANGED <<row, control, source, parsed, receipts, job>>

Readable(o) ==
  /\ {Source, o} \subseteq artifacts
  /\ source = Announced
  /\ o # Source => o \in parsed

ReadArtifact(a) ==
  /\ At(a, "read")
  /\ Check(a, Live /\ Readable(On(a)))
  /\ UNCHANGED <<row, control, source, parsed, artifacts, receipts, job>>

StoreParsed(a) ==
  /\ At(a, "store")
  /\ parsed' = parsed \cup {On(a)}
  /\ Advance(a)
  /\ UNCHANGED <<row, control, source, artifacts, receipts, job>>

\* activateAtomic: the active record is replaced if it is the expected one.
ActivateAtomic(a) ==
  /\ At(a, "swap")
  /\ LET activated == Live /\ row.active = call[a].arg IN
     /\ row' = IF activated THEN [row EXCEPT !.active = On(a)] ELSE row
     /\ Check(a, activated)
  /\ UNCHANGED <<control, source, parsed, artifacts, receipts, job>>

ConfirmActive(a) ==
  /\ At(a, "confirm")
  /\ Check(a, Live /\ row.active = On(a))
  /\ UNCHANGED <<row, control, source, parsed, artifacts, receipts, job>>

\* Mutant: a new mapping leaves the activation of the previous one in place.
Saved_MapKeepsActivation(op, arg) ==
  CASE op = "upload"  -> [Empty EXCEPT !.inspected = TRUE]
    [] op = "select"  -> [Empty EXCEPT !.inspected = TRUE, !.parsed = arg]
    [] op = "map"     -> [control EXCEPT !.mapping = arg, !.prepared = None]
    [] op = "preview" -> [control EXCEPT !.prepared =
                            <<control.parsed, control.mapping>>]
    [] OTHER -> [control EXCEPT !.activation =
                   [id |-> control.prepared, n |-> receipts + 1]]

\* The control state each call stores, made from the one it has loaded.
Saved(op, arg) ==
  CASE op = "upload"  -> [Empty EXCEPT !.inspected = TRUE]
    [] op = "select"  -> [control EXCEPT !.parsed = arg, !.mapping = None,
                                         !.prepared = None, !.activation = None]
    [] op = "map"     -> [control EXCEPT !.mapping = arg, !.prepared = None,
                                         !.activation = None]
    [] op = "preview" -> [control EXCEPT !.prepared =
                            <<control.parsed, control.mapping>>]
    [] OTHER -> [control EXCEPT !.activation =
                   [id |-> control.prepared, n |-> receipts + 1]]

\* A returns and every other call has an old revision.
Revised(a) ==
  call' = [b \in Calls |-> IF b = a THEN Idle ELSE [call[b] EXCEPT !.fresh = FALSE]]

\* compareAndSet; a receipt is known to its client only if it was stored.
Save(a) ==
  /\ At(a, "save")
  /\ IF Live /\ call[a].fresh
     THEN /\ control' = Saved(call[a].op, call[a].arg)
          /\ receipts' = IF call[a].op = "activate" THEN receipts + 1 ELSE receipts
          /\ Revised(a)
     ELSE UNCHANGED <<control, receipts>> /\ Fail(a)
  /\ UNCHANGED <<row, source, parsed, artifacts, job>>

\* readActive returns nothing once the session is gone.
SeeActive(a) ==
  /\ At(a, "see")
  /\ IF Live /\ row.active # None
     THEN call' = [call EXCEPT ![a] = [Moved(a) EXCEPT !.seen = row.active]]
     ELSE Fail(a)
  /\ UNCHANGED <<row, control, source, parsed, artifacts, receipts, job>>

\* resolveActivation: the source is there and the receipt's dataset is active.
VerifyReceipt(a) ==
  /\ At(a, "verify")
  /\ Check(a, source = Announced /\ call[a].seen = On(a).id)
  /\ UNCHANGED <<row, control, source, parsed, artifacts, receipts, job>>

\* The job is inserted, whatever has become of its dataset since.
BindJob(a) ==
  /\ At(a, "bind")
  /\ job' = IF job.st = "none" THEN [job EXCEPT !.receipt = On(a), !.st = "bound"] ELSE job
  /\ Advance(a)
  /\ UNCHANGED <<row, control, source, parsed, artifacts, receipts>>

\* Mutant: whatever is active now is what the job runs on.
MatchExecution_Any(a) ==
  LET id == call[a].seen IN
  /\ At(a, "match")
  /\ job' = IF /\ id[1] \in artifacts \cap parsed /\ source = Announced
               /\ job.st = "bound"
            THEN [job EXCEPT !.input = id] ELSE job
  /\ Advance(a)
  /\ UNCHANGED <<row, control, source, parsed, artifacts, receipts>>

\* resolveActivatedExecution: the payload of the active record is read and
\* must be the one the receipt names; the job runs on it.
MatchExecution(a) ==
  LET id == call[a].seen IN
  /\ At(a, "match")
  /\ job' = IF /\ id[1] \in artifacts \cap parsed /\ source = Announced
               /\ id = On(a) /\ job.st = "bound"
            THEN [job EXCEPT !.input = id] ELSE job
  /\ Advance(a)
  /\ UNCHANGED <<row, control, source, parsed, artifacts, receipts>>

\* #deleteOwnedObjects: the source and every parsed object the artifacts name
\* are deleted one after the other, each with a probe of its absence.
EraseSteps(q) ==
  [i \in 1..(2 * Len(q)) |->
    IF i % 2 = 1 THEN Step("erase", q[(i + 1) \div 2]) ELSE Step("probe", q[i \div 2])]

ListOwned(a) ==
  LET patch == IF call[a].op = "clear" THEN <<Step("patch", None)>> ELSE <<>> IN
  /\ At(a, "list")
  /\ call' = [call EXCEPT ![a].todo =
       EraseSteps(<<Source>> \o SetToSeq(artifacts \cap Sheets)) \o <<Step("mark", None)>> \o patch]
  /\ UNCHANGED <<row, control, source, parsed, artifacts, receipts, job>>

Stored(o) == IF o = Source THEN source # None ELSE o \in parsed

EraseObject(o) ==
  /\ source' = IF o = Source THEN None ELSE source
  /\ parsed' = parsed \ {o}

EraseOwned(a) ==
  /\ At(a, "erase")
  /\ EraseObject(On(a))
  /\ Advance(a)
  /\ UNCHANGED <<row, control, artifacts, receipts, job>>

ProbeOwned(a) ==
  /\ At(a, "probe")
  /\ Check(a, ~Stored(On(a)))
  /\ UNCHANGED <<row, control, source, parsed, artifacts, receipts, job>>

\* markDeleted, whatever has become of the row in the meantime.
MarkDeleted(a) ==
  /\ At(a, "mark")
  /\ artifacts' = {}
  /\ row' = [row EXCEPT !.deleted = TRUE, !.active = None]
  /\ control' = Empty
  /\ call' = [b \in Calls |-> IF b = a THEN Moved(a) ELSE [call[b] EXCEPT !.fresh = FALSE]]
  /\ UNCHANGED <<source, parsed, receipts, job>>

\* The job records that its input was deleted.
PatchJob(a) ==
  /\ At(a, "patch")
  /\ job' = [job EXCEPT !.st = "cleared"]
  /\ Advance(a)
  /\ UNCHANGED <<row, control, source, parsed, artifacts, receipts>>

-----------------------------------------------------------------------------
(* The environment *)

\* The session's time to live is over, and the job's by then as well.  What an
\* expired row holds is never read again; the model empties it.
Expire ==
  /\ ~row.expired
  /\ row' = [row EXCEPT !.expired = TRUE, !.active = None]
  /\ control' = Empty
  /\ job' = IF job.st = "bound" THEN [job EXCEPT !.st = "ended"] ELSE job
  /\ UNCHANGED <<source, parsed, artifacts, receipts, call>>

\* The job succeeds, fails, is cancelled or runs out of time.
JobEnds ==
  /\ job.st = "bound"
  /\ job' = [job EXCEPT !.st = "ended"]
  /\ UNCHANGED <<row, control, source, parsed, artifacts, receipts, call>>

\* The retention loop of the object store deletes an object a fixed time after
\* it was stored.  (Bound: only when the session has ended; before, an erased
\* object is one that a DELETE erased before it died.)
Retain(o) ==
  /\ Stored(o) /\ ~Live
  /\ EraseObject(o)
  /\ UNCHANGED <<row, control, artifacts, receipts, job, call>>

\* The process or the connection of a request dies.
Abandon(a) ==
  /\ call[a] # Idle
  /\ Fail(a)
  /\ UNCHANGED <<row, control, source, parsed, artifacts, receipts, job>>

Work(a) ==
  \/ PutSource(a) \/ StageUpload(a) \/ KeepArtifact(a) \/ ReadArtifact(a)
  \/ StoreParsed(a) \/ ActivateAtomic(a) \/ ConfirmActive(a) \/ Save(a)
  \/ SeeActive(a) \/ VerifyReceipt(a) \/ BindJob(a) \/ MatchExecution(a)
  \/ ListOwned(a) \/ EraseOwned(a) \/ ProbeOwned(a) \/ MarkDeleted(a) \/ PatchJob(a)

Offered(a) == IF a \in Steady THEN Overlapping ELSE Requests

Next ==
  \/ \E a \in Calls :
       \/ \E op \in Offered(a) : \E arg \in Asks(op, control) : Begin(a, op, arg)
       \/ Delete(a) \/ Work(a)
  \/ \E a \in Steady : Clear(a)
  \/ \E a \in Calls \ Steady : Abandon(a)
  \/ Expire \/ JobEnds
  \/ \E o \in {Source} \cup Sheets : Retain(o)

Spec == Init /\ [][Next]_vars

\* Time passes, the retention loop comes back to every object, and the sweeper
\* takes an expired job up again until its deletion is completed.  No client
\* has to act.
Fairness ==
  /\ WF_vars(Expire)
  /\ \A o \in {Source} \cup Sheets : WF_vars(Retain(o))
  /\ \A a \in Steady : WF_vars(Work(a)) /\ WF_vars(row.expired /\ Clear(a))

FairSpec == Spec /\ Fairness

-----------------------------------------------------------------------------

\* A job runs only on the dataset its receipt names, although the receipt, the
\* active record and the parsed rows are read one after the other and an
\* overtaken activation may have replaced the active record under a receipt.
ExecutionUsesItsReceipt ==
  job.input # None => job.input = job.receipt.id

\* The input of every ended job is given up: a deletion that keeps failing,
\* because the dataset was mapped anew or another call stores its objects
\* again, succeeds when the session has expired.  (A job never leaves "cleared",
\* so that this is "ended" ~> "cleared".)
InputDeletionSettles == <>[](job.st # "ended")

\* Every session ends, and then its bytes go away for good: calls that began
\* before may still store what a deletion has erased, but none begins after.
DataVanishes == <>[](source = None /\ parsed = {})
=============================================================================
