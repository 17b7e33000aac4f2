----------------------------- MODULE ObjectLedger -----------------------------
(***************************************************************************)
(* VercelPrivateBlobObjectStore over PostgresObjectLedger, for one object   *)
(* key: putImmutable, delete, the retention sweep and the reconciliation of *)
(* orphans, by callers and sweepers in any number of API and worker         *)
(* processes.  Each ledger call is a transaction and each provider call is  *)
(* atomic; everything between two of them interleaves, and a caller may     *)
(* stop there for ever.                                                     *)
(*                                                                          *)
(* Each generation of the key has a pathname of its own, written here as    *)
(* the generation.  The bytes are those of the key's descriptor: a put of   *)
(* other bytes is refused before anything changes.  Every provider object   *)
(* was announced by a ledger row before it was written (no older store).    *)
(***************************************************************************)
EXTENDS Naturals, FiniteSets

CONSTANTS
  Callers,        \* processes that put and delete the object
  Sweepers,       \* sweeps of the retention loops of API and worker processes
  MaxGeneration,  \* bound: generations of the key
  MaxUploads      \* bound: writes to one pathname

ASSUME LedgerAssumption ==
  /\ MaxGeneration \in Nat \ {0} /\ MaxUploads \in Nat \ {0}
  /\ Callers \cap Sweepers = {}

VARIABLES
  row,      \* the compute_objects row; generation 0 when there is none
  blob,     \* per pathname: 0, or which upload the provider holds
  uploads,  \* per pathname: uploads so far
  orphan,   \* per pathname: the compute_blob_orphan_intents row
  call      \* per process: the call it is in

vars == <<row, blob, uploads, orphan, call>>

Actors == Callers \cup Sweepers
Paths == 1..MaxGeneration

\* gen, fence: the lease held; avail: the lease says "available"; upload: the
\* provider object seen; intent: the fence of the orphan lease, 0 for none;
\* stale: the rollback of a stale put, which deletes even without that lease.
Call(pc, g, f) == [pc |-> pc, gen |-> g, fence |-> f, avail |-> FALSE,
                   upload |-> 0, intent |-> 0, stale |-> FALSE]
Idle == Call("idle", 0, 0)

TypeOK ==
  /\ row \in [gen : 0..MaxGeneration, fence : Nat,
              state : {"none", "intent", "available", "deleting", "deleted"}]
  /\ row.gen = 0 <=> row.state = "none"
  /\ blob \in [Paths -> 0..MaxUploads]
  /\ uploads \in [Paths -> 0..MaxUploads]
  /\ \A g \in Paths : blob[g] <= uploads[g]
  /\ orphan \in [Paths -> [state : {"none", "deleting", "deleted"}, fence : Nat,
                           upload : 0..MaxUploads]]
  /\ \A g \in Paths : orphan[g].state = "deleting" <=> orphan[g].upload # 0
  /\ call \in [Actors -> [pc : {"idle", "read", "upload", "verify", "mark",
                                "head", "orphan", "del", "attest",
                                "delorphan", "attestorphan"},
                          gen : 0..MaxGeneration, fence : Nat, avail : BOOLEAN,
                          upload : 0..MaxUploads, intent : Nat, stale : BOOLEAN]]
  /\ \A a \in Actors : call[a].pc = "idle" <=> call[a].gen = 0

Init ==
  /\ row = [gen |-> 0, fence |-> 0, state |-> "none"]
  /\ blob = [g \in Paths |-> 0]
  /\ uploads = [g \in Paths |-> 0]
  /\ orphan = [g \in Paths |-> [state |-> "none", fence |-> 0, upload |-> 0]]
  /\ call = [a \in Actors |-> Idle]

Returns(a) == call' = [call EXCEPT ![a] = Idle]
Goes(a, pc) == call' = [call EXCEPT ![a].pc = pc]

-----------------------------------------------------------------------------
(* putImmutable *)

\* Mutant: a deleted row is put to use again under its old pathname.
Reactivated_SamePath(r) ==
  [gen |-> IF r.gen = 0 THEN 1 ELSE r.gen, fence |-> r.fence + 1, state |-> "intent"]

\* The row of a new key, or the next generation of a deleted one.
Reactivated(r) == [gen |-> r.gen + 1, fence |-> r.fence + 1, state |-> "intent"]

\* beginPut with a new or a deleted row, refused while the pathname is being
\* cleared as an orphan.
BeginPut(a) ==
  LET r == Reactivated(row) IN
  /\ call[a].pc = "idle"
  /\ row.state \in {"none", "deleted"} /\ r.gen \in Paths
  /\ orphan[r.gen].state # "deleting"
  /\ row' = r
  /\ call' = [call EXCEPT ![a] = Call("read", r.gen, r.fence)]
  /\ UNCHANGED <<blob, uploads, orphan>>

\* beginPut of an object that is there or about to be.
JoinPut(a) ==
  /\ call[a].pc = "idle"
  /\ row.state \in {"intent", "available"}
  /\ call' = [call EXCEPT ![a] =
                [Call("read", row.gen, row.fence) EXCEPT !.avail = (row.state = "available")]]
  /\ UNCHANGED <<row, blob, uploads, orphan>>

\* The provider is read; an available object that is missing is an error.
ReadProvider(a) ==
  /\ call[a].pc = "read"
  /\ IF blob[call[a].gen] = 0 /\ call[a].avail THEN Returns(a)
     ELSE call' = [call EXCEPT ![a].avail = FALSE,
                     ![a].pc = IF blob[call[a].gen] = 0 THEN "upload" ELSE "verify"]
  /\ UNCHANGED <<row, blob, uploads, orphan>>

\* client.put does not overwrite: it fails when another put was faster, which
\* counts as well.
Upload(a) ==
  LET g == call[a].gen IN
  /\ call[a].pc = "upload"
  /\ \/ /\ blob[g] = 0 /\ uploads[g] < MaxUploads
        /\ uploads' = [uploads EXCEPT ![g] = @ + 1]
        /\ blob' = [blob EXCEPT ![g] = uploads[g] + 1]
     \/ blob[g] # 0 /\ UNCHANGED <<blob, uploads>>
  /\ Goes(a, "verify")
  /\ UNCHANGED <<row, orphan>>

\* #assertProviderObject
Verify(a) ==
  /\ call[a].pc = "verify"
  /\ IF blob[call[a].gen] # 0 THEN Goes(a, "mark") ELSE Returns(a)
  /\ UNCHANGED <<row, blob, uploads, orphan>>

Fresh(a) == row.gen = call[a].gen /\ row.fence = call[a].fence

\* Mutant: the row is marked whatever became of it since the put began.
MarkAvailable_Unfenced(a) ==
  /\ call[a].pc = "mark"
  /\ row' = [row EXCEPT !.state = "available"]
  /\ Returns(a)
  /\ UNCHANGED <<blob, uploads, orphan>>

\* markAvailable; when the lease was overtaken the put must be rolled back.
MarkAvailable(a) ==
  /\ call[a].pc = "mark"
  /\ IF Fresh(a) /\ row.state \in {"intent", "available"}
     THEN row' = [row EXCEPT !.state = "available"] /\ Returns(a)
     ELSE row' = row /\ Goes(a, "head")
  /\ UNCHANGED <<blob, uploads, orphan>>

-----------------------------------------------------------------------------
(* Orphans: #rollbackStalePut and the reconciliation sweep *)

\* Mutant: the rollback announces an orphan it has not looked at.
HeadStale_Unread(a) ==
  /\ call[a].pc = "head"
  /\ call' = [call EXCEPT ![a].pc = "orphan", ![a].stale = TRUE]
  /\ UNCHANGED <<row, blob, uploads, orphan>>

\* The rollback looks for the object it wrote.
HeadStale(a) ==
  LET g == call[a].gen IN
  /\ call[a].pc = "head"
  /\ IF blob[g] = 0 THEN Returns(a)
     ELSE call' = [call EXCEPT ![a].pc = "orphan", ![a].upload = blob[g],
                               ![a].stale = TRUE]
  /\ UNCHANGED <<row, blob, uploads, orphan>>

\* The sweeper finds an object in the provider's listing that is no orphan yet.
ListBlob(a, g) ==
  /\ call[a].pc = "idle" /\ blob[g] # 0 /\ orphan[g].state # "deleting"
  /\ call' = [call EXCEPT ![a] = [Call("orphan", g, 0) EXCEPT !.upload = blob[g]]]
  /\ UNCHANGED <<row, blob, uploads, orphan>>

\* Mutant: a pathname the ledger knows is never an orphan.
Owned_AnyState(g) == row.gen = g

\* The ledger row of a pathname is not deleted.
Owned(g) == row.gen = g /\ row.state # "deleted"

\* Goes on to delete the orphan, with its lease or (0) without one.
Deletes(a, f) ==
  call' = [call EXCEPT ![a] = [Call("delorphan", call[a].gen, 0) EXCEPT !.intent = f]]

\* beginOrphanDelete returns no lease for an owned pathname; a lease that is
\* being worked on is shared, unless it was given for another upload.
BeginOrphan(a) ==
  LET c == call[a]
      o == orphan[c.gen]
  IN
  /\ c.pc = "orphan"
  /\ IF Owned(c.gen)
     THEN orphan' = orphan /\ (IF c.stale THEN Deletes(a, 0) ELSE Returns(a))
     ELSE IF o.state = "deleting" /\ o.upload # c.upload
     THEN orphan' = orphan /\ Returns(a)
     ELSE LET f == IF o.state = "deleting" THEN o.fence ELSE o.fence + 1 IN
          /\ orphan' = [orphan EXCEPT ![c.gen] =
                          [state |-> "deleting", fence |-> f, upload |-> c.upload]]
          /\ Deletes(a, f)
  /\ UNCHANGED <<row, blob, uploads>>

\* An orphan whose deletion was begun and never completed is taken up again.
DueOrphan(a, g) ==
  /\ call[a].pc = "idle" /\ orphan[g].state = "deleting"
  /\ call' = [call EXCEPT ![a] = [Call("delorphan", g, 0) EXCEPT !.intent = orphan[g].fence]]
  /\ UNCHANGED <<row, blob, uploads, orphan>>

DeleteOrphan(a) ==
  /\ call[a].pc = "delorphan"
  /\ blob' = [blob EXCEPT ![call[a].gen] = 0]
  /\ Goes(a, "attestorphan")
  /\ UNCHANGED <<row, uploads, orphan>>

\* Absence is probed and the orphan's deletion completed under its fence.
AttestOrphan(a) ==
  LET g == call[a].gen IN
  /\ call[a].pc = "attestorphan"
  /\ orphan' = IF blob[g] = 0 /\ orphan[g].state = "deleting"
                  /\ orphan[g].fence = call[a].intent
               THEN [orphan EXCEPT ![g].state = "deleted", ![g].upload = 0]
               ELSE orphan
  /\ Returns(a)
  /\ UNCHANGED <<row, blob, uploads>>

-----------------------------------------------------------------------------
(* delete *)

\* beginDelete: an undeleted row is fenced; a deletion under way is joined.
BeginDelete(a) ==
  LET r == IF row.state = "deleting" THEN row
           ELSE [row EXCEPT !.state = "deleting", !.fence = @ + 1]
  IN
  /\ call[a].pc = "idle"
  /\ row.state \in {"intent", "available", "deleting"}
  /\ row' = r
  /\ call' = [call EXCEPT ![a] = Call("del", r.gen, r.fence)]
  /\ UNCHANGED <<blob, uploads, orphan>>

\* delete of a deleted row clears what a late put has left on its pathname.
DeleteAgain(a) ==
  /\ call[a].pc = "idle" /\ row.state = "deleted" /\ blob[row.gen] # 0
  /\ call' = [call EXCEPT ![a] = Call("head", row.gen, row.fence)]
  /\ UNCHANGED <<row, blob, uploads, orphan>>

DeleteObject(a) ==
  /\ call[a].pc = "del"
  /\ blob' = [blob EXCEPT ![call[a].gen] = 0]
  /\ Goes(a, "attest")
  /\ UNCHANGED <<row, uploads, orphan>>

\* Absence is probed; completeDelete writes the receipt under its fence.
AttestDeletion(a) ==
  /\ call[a].pc = "attest"
  /\ row' = IF blob[call[a].gen] = 0 /\ Fresh(a) /\ row.state = "deleting"
            THEN [row EXCEPT !.state = "deleted"] ELSE row
  /\ Returns(a)
  /\ UNCHANGED <<blob, uploads, orphan>>

-----------------------------------------------------------------------------

\* due: begun deletions, and rows whose retention time is over (at any time).
RetentionDue == row.state \in {"intent", "available", "deleting"}

Put(a) == BeginPut(a) \/ JoinPut(a)
Delete(a) == BeginDelete(a) \/ DeleteAgain(a)
Expire(a) == RetentionDue /\ BeginDelete(a)
Reconcile(a, g) == ListBlob(a, g) \/ DueOrphan(a, g)

Continue(a) ==
  \/ ReadProvider(a) \/ Upload(a) \/ Verify(a) \/ MarkAvailable(a)
  \/ HeadStale(a) \/ BeginOrphan(a) \/ DeleteOrphan(a) \/ AttestOrphan(a)
  \/ DeleteObject(a) \/ AttestDeletion(a)

Next ==
  \/ \E a \in Callers : Put(a) \/ Delete(a)
  \/ \E a \in Sweepers : Expire(a) \/ \E g \in Paths : Reconcile(a, g)
  \/ \E a \in Actors : Continue(a)

Spec == Init /\ [][Next]_vars

\* The retention loops visit every due row, every orphan and every listed
\* object in each of their cycles and go on with what they have begun.  A
\* caller may stop anywhere.
Fairness ==
  \A a \in Sweepers :
    /\ WF_vars(Continue(a))
    /\ SF_vars(Expire(a))
    /\ \A g \in Paths : SF_vars(Reconcile(a, g))

FairSpec == Spec /\ Fairness

-----------------------------------------------------------------------------

\* An object the ledger calls available is at the provider: no deletion, no
\* roll-back and no sweep that works from an older view removes it (README:
\* provider writes and deletes are fenced by the ledger's transitions).
AvailableIsStored == row.state = "available" => blob[row.gen] # 0

\* A generation whose deletion was begun is never readable again, and neither
\* generations nor fences go back: a put that was overtaken cannot revive it.
DeletionIsFinal ==
  [][/\ row'.gen >= row.gen /\ row'.fence >= row.fence
     /\ row.state \in {"deleting", "deleted"} /\ row'.gen = row.gen
          => row'.state \in {"deleting", "deleted"}]_vars

Dead(g) == row.gen > g \/ (row.gen = g /\ row.state = "deleted")

\* Every generation is deleted in the end, and its bytes with it: a deletion
\* once begun is completed although its caller has died, and what a put leaves
\* at the provider after its generation was attested absent goes away as well,
\* by the retention loops alone.
GenerationsVanish ==
  \A g \in Paths : row.gen = g \/ blob[g] # 0 ~> Dead(g) /\ blob[g] = 0
=============================================================================
