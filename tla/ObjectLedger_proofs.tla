-------------------------- MODULE ObjectLedger_proofs --------------------------
(***************************************************************************)
(* An available object is stored, for any number of callers and sweepers,  *)
(* generations and uploads.  The argument: whoever is about to delete a    *)
(* pathname works on a doomed generation, one that no row can make         *)
(* available again; and a put that may still mark its row is past the      *)
(* write of bytes nobody deletes.                                          *)
(***************************************************************************)
EXTENDS ObjectLedger, TLAPS

\* No put can make generation g available any more.
DoomedIn(r, g) == r.gen > g \/ (r.gen = g /\ r.state \in {"deleting", "deleted"})
Doomed(g) == DoomedIn(row, g)

Writers == {"read", "upload", "verify", "mark"}
Removers == {"del", "attest", "head", "delorphan", "attestorphan"}

\* The shape of the variables this argument needs.
CallRec == [pc : {"idle", "orphan"} \cup Writers \cup Removers,
            gen : 0..MaxGeneration, fence : Nat, avail : BOOLEAN,
            upload : Nat, intent : Nat, stale : BOOLEAN]

RowShape ==
  /\ row \in [gen : Nat, fence : Nat,
              state : {"none", "intent", "available", "deleting", "deleted"}]
  /\ row.gen \in 0..MaxGeneration
  /\ row.gen = 0 <=> row.state = "none"

StoreShape ==
  /\ blob \in [Paths -> Nat] /\ uploads \in [Paths -> Nat]
  /\ orphan \in [Paths -> [state : {"none", "deleting", "deleted"},
                           fence : Nat, upload : Nat]]

Shape ==
  /\ RowShape /\ StoreShape
  /\ call \in [Actors -> CallRec]
  /\ \A a \in Actors : call[a].pc # "idle" => call[a].gen \in Paths /\ call[a].gen <= row.gen

\* A writer holds the current fence of its generation, or the generation is
\* doomed; one about to mark under the current fence has bytes stored.
WriterInv(a) ==
  call[a].pc \in Writers =>
    /\ \/ Doomed(call[a].gen)
       \/ call[a].gen = row.gen /\ call[a].fence = row.fence
    /\ call[a].pc = "mark" /\ ~ Doomed(call[a].gen) => blob[call[a].gen] # 0

\* A remover works on a doomed generation.
RemoverInv(a) ==
  /\ call[a].pc \in Removers => Doomed(call[a].gen)
  /\ call[a].pc = "orphan" /\ call[a].stale => Doomed(call[a].gen)

\* Bytes and orphans belong to generations the key has had.
BlobInv == \A g \in Paths : blob[g] # 0 => g <= row.gen
OrphanInv == \A g \in Paths : orphan[g].state # "none" => Doomed(g)

LedgerInv ==
  /\ Shape
  /\ \A a \in Actors : WriterInv(a)
  /\ \A a \in Actors : RemoverInv(a)
  /\ BlobInv /\ OrphanInv
  /\ AvailableIsStored

-----------------------------------------------------------------------------

LEMMA InitLedger == Init => LedgerInv
  BY LedgerAssumption, SMT DEF Init, LedgerInv, Shape, RowShape, StoreShape, CallRec, WriterInv, RemoverInv, BlobInv, OrphanInv,
     AvailableIsStored,     Idle, Call, Writers, Removers, Doomed, DoomedIn, Paths, Actors

\* Dooming a generation only ever grows, whatever step changes the row.
RowSteps ==
  \/ row' = row
  \/ row' = Reactivated(row) /\ row.state \in {"none", "deleted"}
  \/ row' = [row EXCEPT !.state = "deleting", !.fence = @ + 1]
  \/ row' = [row EXCEPT !.state = "available"] /\ row.state \in {"intent", "available"}
  \/ row' = [row EXCEPT !.state = "deleted"] /\ row.state = "deleting"

LEMMA DoomedStays ==
  ASSUME Shape, RowSteps, NEW g \in Paths, DoomedIn(row, g)
  PROVE  DoomedIn(row', g)
<1>1. CASE row' = row
  BY <1>1
<1>2. CASE row' = Reactivated(row) /\ row.state \in {"none", "deleted"}
  <2>1. row.gen \in Nat /\ g \in Nat
    BY LedgerAssumption DEF Shape, RowShape, Paths
  <2>2. row'.gen = row.gen + 1
    BY <1>2 DEF Reactivated
  <2>3. row.gen >= g
    BY <2>1 DEF DoomedIn
  <2> QED BY <2>1, <2>2, <2>3 DEF DoomedIn
<1>3. CASE row' = [row EXCEPT !.state = "deleting", !.fence = @ + 1]
  BY <1>3 DEF Shape, RowShape, DoomedIn
<1>4. CASE row' = [row EXCEPT !.state = "available"] /\ row.state \in {"intent", "available"}
  BY <1>4 DEF Shape, RowShape, DoomedIn
<1>5. CASE row' = [row EXCEPT !.state = "deleted"] /\ row.state = "deleting"
  BY <1>5 DEF Shape, RowShape, DoomedIn
<1> QED BY <1>1, <1>2, <1>3, <1>4, <1>5 DEF RowSteps

\* What every step of a process a does: other calls stay, only bytes of doomed
\* generations go, and a row becomes available only over stored bytes.
StepFacts(a) ==
  /\ RowSteps
  /\ \A b \in Actors : b # a => call'[b] = call[b]
  /\ \A g \in Paths : blob[g] # 0 /\ ~ Doomed(g)' => blob'[g] # 0
  /\ row'.state = "available" => row.state = "available" \/ blob'[row'.gen] # 0

LEMMA Overtaken ==
  ASSUME Shape, RowSteps
  PROVE  DoomedIn(row', row.gen) \/ (row'.gen = row.gen /\ row'.fence = row.fence)
<1>1. CASE row' = row
  BY <1>1
<1>2. CASE row' = Reactivated(row)
  <2>1. row'.gen = row.gen + 1 /\ row.gen \in Nat
    BY <1>2 DEF Reactivated, Shape, RowShape
  <2> QED BY <2>1 DEF DoomedIn
<1>3. CASE row' = [row EXCEPT !.state = "deleting", !.fence = @ + 1]
  BY <1>3 DEF Shape, RowShape, DoomedIn
<1>4. CASE row' = [row EXCEPT !.state = "available"]
  BY <1>4 DEF Shape, RowShape
<1>5. CASE row' = [row EXCEPT !.state = "deleted"]
  BY <1>5 DEF Shape, RowShape
<1> QED BY <1>1, <1>2, <1>3, <1>4, <1>5 DEF RowSteps

LEMMA StepKeepsInv ==
  ASSUME LedgerInv, NEW a \in Actors, StepFacts(a), Shape',
         WriterInv(a)', RemoverInv(a)', BlobInv', OrphanInv'
  PROVE  LedgerInv'
<1>1. ASSUME NEW b \in Actors, b # a PROVE WriterInv(b)' /\ RemoverInv(b)'
  <2>1. call'[b] = call[b] /\ WriterInv(b) /\ RemoverInv(b)
    BY <1>1 DEF LedgerInv, StepFacts
  <2> DEFINE g == call[b].gen
  <2>2. ASSUME call[b].pc # "idle" PROVE g \in Paths
    BY <2>2 DEF LedgerInv, Shape, RowShape
  <2>3. ASSUME call[b].pc # "idle", DoomedIn(row, g) PROVE DoomedIn(row', g)
    BY <2>2, <2>3, DoomedStays DEF LedgerInv, StepFacts
  <2>4. RemoverInv(b)'
    BY <2>1, <2>3 DEF RemoverInv, Removers, Doomed
  <2>5. ASSUME call[b].pc \in Writers
        PROVE  DoomedIn(row', g) \/ (g = row'.gen /\ call[b].fence = row'.fence)
    <3>1. DoomedIn(row, g) \/ (g = row.gen /\ call[b].fence = row.fence)
      BY <2>1, <2>5 DEF WriterInv, Doomed
    <3>2. DoomedIn(row', row.gen) \/ (row'.gen = row.gen /\ row'.fence = row.fence)
      BY Overtaken DEF LedgerInv, StepFacts
    <3> QED BY <2>3, <2>5, <3>1, <3>2 DEF Writers
  <2>6. ASSUME call[b].pc = "mark", ~ DoomedIn(row', g) PROVE blob'[g] # 0
    <3>1. ~ DoomedIn(row, g) /\ g \in Paths
      BY <2>2, <2>3, <2>6
    <3>2. blob[g] # 0
      BY <2>1, <2>6, <3>1 DEF WriterInv, Writers, Doomed
    <3> QED BY <2>6, <3>1, <3>2 DEF StepFacts, Doomed
  <2>7. WriterInv(b)'
    BY <2>1, <2>5, <2>6 DEF WriterInv, Doomed
  <2> QED BY <2>4, <2>7
<1>2. AvailableIsStored'
  <2> SUFFICES ASSUME row'.state = "available" PROVE blob'[row'.gen] # 0
    BY DEF AvailableIsStored
  <2>1. CASE row.state = "available"
    <3>1. row.gen \in Paths
      BY <2>1 DEF LedgerInv, Shape, RowShape, Paths
    <3>2. row'.gen = row.gen
      <4>1. row' # Reactivated(row)
        BY DEF Reactivated
      <4> QED BY <2>1, <4>1 DEF StepFacts, RowSteps, LedgerInv, Shape, RowShape
    <3>3. ~ DoomedIn(row', row.gen)
      BY <3>2 DEF DoomedIn, LedgerInv, Shape, RowShape
    <3> QED BY <2>1, <3>1, <3>2, <3>3 DEF LedgerInv, AvailableIsStored, StepFacts, Doomed
  <2>2. CASE row.state # "available"
    BY <2>2 DEF StepFacts
  <2> QED BY <2>1, <2>2
<1> QED BY <1>1, <1>2 DEF LedgerInv

\* What a step leaves alone keeps its part of the invariant.
LEMMA Untouched ==
  ASSUME LedgerInv, RowSteps
  PROVE  /\ row'.gen \in Nat /\ row'.gen >= row.gen
         /\ blob' = blob => BlobInv'
         /\ orphan' = orphan => OrphanInv'
<1>1. row'.gen \in Nat /\ row'.gen >= row.gen
  <2>1. row.gen \in Nat
    BY DEF LedgerInv, Shape, RowShape
  <2>2. CASE row' = Reactivated(row)
    <3>1. row'.gen = row.gen + 1
      BY <2>2 DEF Reactivated
    <3> QED BY <2>1, <3>1
  <2>3. CASE row' # Reactivated(row)
    <3>1. row'.gen = row.gen
      BY <2>3 DEF LedgerInv, Shape, RowShape, RowSteps
    <3> QED BY <2>1, <3>1
  <2> QED BY <2>2, <2>3
<1>2. ASSUME blob' = blob PROVE BlobInv'
  <2> SUFFICES ASSUME NEW g \in Paths, blob[g] # 0 PROVE g <= row'.gen
    BY <1>2 DEF BlobInv
  <2>1. g <= row.gen /\ row.gen \in Nat /\ g \in Nat
    BY LedgerAssumption DEF LedgerInv, BlobInv, Shape, RowShape, Paths
  <2> QED BY <1>1, <2>1
<1>3. ASSUME orphan' = orphan PROVE OrphanInv'
  BY <1>3, DoomedStays DEF LedgerInv, OrphanInv, Doomed
<1> QED BY <1>1, <1>2, <1>3

\* A step that gives process a the call c.
LEMMA CallStep ==
  ASSUME LedgerInv, NEW a \in Actors, NEW c \in CallRec, call' = [call EXCEPT ![a] = c],
         RowSteps, RowShape', StoreShape',
         \A g \in Paths : blob[g] # 0 /\ ~ DoomedIn(row', g) => blob'[g] # 0,
         row'.state = "available" => row.state = "available" \/ blob'[row'.gen] # 0,
         blob' = blob \/ BlobInv', orphan' = orphan \/ OrphanInv',
         c.pc # "idle" => c.gen \in Paths /\ c.gen <= row'.gen,
         c.pc \in Writers => DoomedIn(row', c.gen) \/ (c.gen = row'.gen /\ c.fence = row'.fence),
         c.pc = "mark" => DoomedIn(row', c.gen) \/ blob'[c.gen] # 0,
         c.pc \in Removers \/ (c.pc = "orphan" /\ c.stale) => DoomedIn(row', c.gen)
  PROVE  LedgerInv'
<1>1. call'[a] = c /\ \A b \in Actors : b # a => call'[b] = call[b]
  BY DEF LedgerInv, Shape
<1>2. call' \in [Actors -> CallRec]
  BY DEF LedgerInv, Shape
<1>3. ASSUME NEW b \in Actors, call'[b].pc # "idle"
      PROVE  call'[b].gen \in Paths /\ call'[b].gen <= row'.gen
  <2>1. CASE b = a
    BY <1>1, <1>3, <2>1
  <2>2. CASE b # a
    <3>1. call[b].gen \in Paths /\ call[b].gen <= row.gen /\ row.gen \in Nat
      BY <1>1, <1>3, <2>2 DEF LedgerInv, Shape, RowShape
    <3>2. call[b].gen \in Nat
      BY <3>1, LedgerAssumption DEF Paths
    <3>3. row'.gen \in Nat /\ row'.gen >= row.gen
      BY Untouched
    <3> QED BY <1>1, <2>2, <3>1, <3>2, <3>3
  <2> QED BY <2>1, <2>2
<1>4. Shape'
  BY <1>2, <1>3 DEF Shape
<1>5. StepFacts(a)
  BY <1>1 DEF StepFacts, Doomed
<1>6. WriterInv(a)' /\ RemoverInv(a)'
  BY <1>1 DEF WriterInv, RemoverInv, Doomed
<1> QED BY <1>4, <1>5, <1>6, Untouched, StepKeepsInv

\* A step that only moves process a to the call c.
LEMMA QuietStep ==
  ASSUME LedgerInv, NEW a \in Actors, NEW c \in CallRec, call' = [call EXCEPT ![a] = c],
         row' = row, blob' = blob, uploads' = uploads, orphan' = orphan,
         c.pc # "idle" => c.gen \in Paths /\ c.gen <= row.gen,
         c.pc \in Writers => DoomedIn(row, c.gen) \/ (c.gen = row.gen /\ c.fence = row.fence),
         c.pc = "mark" => DoomedIn(row, c.gen) \/ blob[c.gen] # 0,
         c.pc \in Removers \/ (c.pc = "orphan" /\ c.stale) => DoomedIn(row, c.gen)
  PROVE  LedgerInv'
<1>1. RowSteps
  BY DEF RowSteps
<1>2. RowShape' /\ StoreShape'
  BY DEF LedgerInv, Shape, RowShape, StoreShape
<1> QED BY <1>1, <1>2, CallStep

\* The call of a process, as the invariant describes it.
LEMMA CallFacts ==
  ASSUME LedgerInv, NEW a \in Actors
  PROVE  /\ call[a] \in CallRec
         /\ call[a].pc # "idle" => call[a].gen \in Paths /\ call[a].gen <= row.gen
         /\ call[a].pc \in Writers =>
              DoomedIn(row, call[a].gen) \/ (call[a].gen = row.gen /\ call[a].fence = row.fence)
         /\ call[a].pc = "mark" => DoomedIn(row, call[a].gen) \/ blob[call[a].gen] # 0
         /\ call[a].pc \in Removers \/ (call[a].pc = "orphan" /\ call[a].stale)
              => DoomedIn(row, call[a].gen)
  BY DEF LedgerInv, Shape, WriterInv, RemoverInv, Doomed, Writers

LEMMA IdleStep ==
  ASSUME LedgerInv, NEW a \in Actors, Returns(a),
         row' = row, blob' = blob, uploads' = uploads, orphan' = orphan
  PROVE  LedgerInv'
<1>1. Idle \in CallRec /\ Idle.pc = "idle"
  BY LedgerAssumption DEF Idle, Call, CallRec
<1> QED BY <1>1, QuietStep DEF Returns, Writers, Removers

-----------------------------------------------------------------------------
(* The steps of a put *)

LEMMA BeginPutStep ==
  ASSUME LedgerInv, NEW a \in Actors, BeginPut(a) PROVE LedgerInv'
<1> DEFINE c == [pc |-> "read", gen |-> row'.gen, fence |-> row'.fence, avail |-> FALSE,
                 upload |-> 0, intent |-> 0, stale |-> FALSE]
<1>1. /\ row' = [gen |-> row.gen + 1, fence |-> row.fence + 1, state |-> "intent"]
      /\ row.gen + 1 \in Paths /\ row.gen \in Nat /\ row.fence \in Nat
      /\ blob' = blob /\ uploads' = uploads /\ orphan' = orphan
  BY DEF BeginPut, Reactivated, LedgerInv, Shape, RowShape
<1>2. call' = [call EXCEPT ![a] = c]
  BY <1>1 DEF BeginPut, Call, Reactivated
<1>3. RowSteps /\ row'.state # "available"
  BY <1>1 DEF BeginPut, RowSteps
<1>4. RowShape' /\ StoreShape'
  <2>1. row.gen + 1 \in 0..MaxGeneration /\ row.gen + 1 # 0
    BY <1>1, LedgerAssumption DEF Paths
  <2> QED BY <1>1, <2>1 DEF LedgerInv, Shape, RowShape, StoreShape
<1>5. /\ c \in CallRec /\ c.gen \in Paths /\ c.gen <= row'.gen
      /\ c.pc = "read" /\ c.gen = row'.gen /\ c.fence = row'.fence
  BY <1>1, LedgerAssumption DEF CallRec, Writers, Paths
<1> HIDE DEF c
<1> QED BY <1>1, <1>2, <1>3, <1>4, <1>5, CallStep DEF Writers, Removers

LEMMA JoinPutStep ==
  ASSUME LedgerInv, NEW a \in Actors, JoinPut(a) PROVE LedgerInv'
<1> DEFINE b == Call("read", row.gen, row.fence)
           c == [b EXCEPT !.avail = (row.state = "available")]
<1>1. call' = [call EXCEPT ![a] = c] /\ row' = row /\ blob' = blob
      /\ uploads' = uploads /\ orphan' = orphan /\ row.state \in {"intent", "available"}
  BY DEF JoinPut
<1>2. row.gen \in Paths /\ row.gen \in 0..MaxGeneration /\ row.fence \in Nat /\ row.gen <= row.gen
  BY <1>1, LedgerAssumption DEF LedgerInv, Shape, RowShape, Paths
<1>3. b \in CallRec /\ b.pc = "read" /\ b.gen = row.gen /\ b.fence = row.fence
  BY <1>2 DEF CallRec, Writers, Call
<1>4. c \in CallRec /\ c.pc = "read" /\ c.gen = row.gen /\ c.fence = row.fence
  <2> HIDE DEF b
  <2> DEFINE v == (row.state = "available")
  <2>1. v \in BOOLEAN
    OBVIOUS
  <2> HIDE DEF v
  <2> QED BY <1>3, <2>1 DEF CallRec
<1> HIDE DEF c
<1> QED BY <1>1, <1>2, <1>4, QuietStep DEF Writers, Removers

LEMMA ReadProviderStep ==
  ASSUME LedgerInv, NEW a \in Actors, ReadProvider(a) PROVE LedgerInv'
<1>1. row' = row /\ blob' = blob /\ uploads' = uploads /\ orphan' = orphan
      /\ call[a].pc = "read"
  BY DEF ReadProvider
<1>2. CASE blob[call[a].gen] = 0 /\ call[a].avail
  BY <1>1, <1>2, IdleStep DEF ReadProvider
<1>3. CASE ~ (blob[call[a].gen] = 0 /\ call[a].avail)
  <2> DEFINE c == [call[a] EXCEPT !.avail = FALSE,
                     !.pc = IF blob[call[a].gen] = 0 THEN "upload" ELSE "verify"]
  <2>1. call' = [call EXCEPT ![a] = c]
    BY <1>3 DEF ReadProvider
  <2>2. c \in CallRec /\ c.gen = call[a].gen /\ c.fence = call[a].fence
        /\ c.pc \in {"upload", "verify"}
    BY CallFacts DEF CallRec, Writers
  <2> HIDE DEF c
  <2> QED BY <1>1, <2>1, <2>2, CallFacts, QuietStep DEF Writers, Removers
<1> QED BY <1>2, <1>3

\* A step of a call that only moves on, with its lease.
LEMMA GoesStep ==
  ASSUME LedgerInv, NEW a \in Actors, call[a].pc # "idle",
         NEW pc \in {"orphan"} \cup Writers \cup Removers, Goes(a, pc),
         row' = row, blob' = blob, uploads' = uploads, orphan' = orphan,
         pc \in Writers => call[a].pc \in Writers,
         pc = "mark" => blob[call[a].gen] # 0,
         pc \in Removers \/ (pc = "orphan" /\ call[a].stale) => DoomedIn(row, call[a].gen)
  PROVE  LedgerInv'
<1> DEFINE c == [call[a] EXCEPT !.pc = pc]
<1>1. call' = [call EXCEPT ![a] = c]
  BY DEF Goes
<1>2. c \in CallRec /\ c.gen = call[a].gen /\ c.fence = call[a].fence /\ c.pc = pc
      /\ c.stale = call[a].stale
  BY CallFacts DEF CallRec
<1> HIDE DEF c
<1> QED BY <1>1, <1>2, CallFacts, QuietStep

LEMMA UploadStep ==
  ASSUME LedgerInv, NEW a \in Actors, Upload(a) PROVE LedgerInv'
<1> DEFINE g == call[a].gen
<1>1. g \in Paths /\ g <= row.gen /\ call[a].pc = "upload" /\ row' = row
      /\ orphan' = orphan /\ Goes(a, "verify")
  BY CallFacts DEF Upload
<1>2. CASE blob[g] # 0 /\ UNCHANGED <<blob, uploads>>
  BY <1>1, <1>2, GoesStep DEF Writers, Removers
<1>3. CASE /\ blob[g] = 0 /\ uploads' = [uploads EXCEPT ![g] = @ + 1]
           /\ blob' = [blob EXCEPT ![g] = uploads[g] + 1]
  <2> DEFINE c == [call[a] EXCEPT !.pc = "verify"]
  <2>1. call' = [call EXCEPT ![a] = c]
    BY <1>1 DEF Goes
  <2>2. c \in CallRec /\ c.gen = g /\ c.fence = call[a].fence /\ c.pc = "verify"
    BY CallFacts DEF CallRec, Writers
  <2>3. RowSteps /\ RowShape' /\ StoreShape'
    BY <1>1, <1>3 DEF RowSteps, LedgerInv, Shape, RowShape, StoreShape
  <2>4. \A h \in Paths : blob[h] # 0 => blob'[h] # 0
    BY <1>3 DEF LedgerInv, Shape, StoreShape
  <2>5. BlobInv'
    BY <1>1, <1>3 DEF LedgerInv, Shape, StoreShape, BlobInv
  <2> HIDE DEF c
  <2>6. row'.state = "available" => row.state = "available"
    BY <1>1
  <2> QED BY <1>1, <2>1, <2>2, <2>3, <2>4, <2>5, <2>6, CallFacts, CallStep DEF Writers, Removers
<1> QED BY <1>1, <1>2, <1>3 DEF Upload

LEMMA VerifyStep ==
  ASSUME LedgerInv, NEW a \in Actors, Verify(a) PROVE LedgerInv'
<1>1. CASE blob[call[a].gen] # 0
  BY <1>1, GoesStep DEF Verify, Writers, Removers
<1>2. CASE blob[call[a].gen] = 0
  BY <1>2, IdleStep DEF Verify
<1> QED BY <1>1, <1>2

LEMMA MarkAvailableStep ==
  ASSUME LedgerInv, NEW a \in Actors, MarkAvailable(a) PROVE LedgerInv'
<1> DEFINE g == call[a].gen
<1>1. /\ call[a].pc = "mark" /\ g \in Paths /\ g # 0 /\ blob' = blob
      /\ uploads' = uploads /\ orphan' = orphan
  BY CallFacts, LedgerAssumption DEF MarkAvailable, Paths
<1>2. CASE Fresh(a) /\ row.state \in {"intent", "available"}
  <2>1. row' = [row EXCEPT !.state = "available"] /\ call' = [call EXCEPT ![a] = Idle]
    BY <1>2 DEF MarkAvailable, Returns
  <2>2. Idle \in CallRec /\ Idle.pc = "idle"
    BY LedgerAssumption DEF Idle, Call, CallRec
  <2>3. RowSteps /\ RowShape' /\ StoreShape' /\ row'.gen = g
    BY <1>1, <1>2, <2>1 DEF RowSteps, LedgerInv, Shape, RowShape, StoreShape, Fresh
  <2>4. blob'[row'.gen] # 0
    <3>1. ~ DoomedIn(row, g)
      BY <1>2 DEF DoomedIn, Fresh, LedgerInv, Shape, RowShape
    <3> QED BY <1>1, <2>3, <3>1, CallFacts
  <2> QED BY <1>1, <2>1, <2>2, <2>3, <2>4, CallStep DEF Writers, Removers
<1>3. CASE ~ (Fresh(a) /\ row.state \in {"intent", "available"})
  <2>1. row' = row /\ Goes(a, "head")
    BY <1>3 DEF MarkAvailable
  <2>2. DoomedIn(row, g)
    <3>1. CASE g = row.gen /\ call[a].fence = row.fence
      BY <1>1, <1>3, <3>1 DEF Fresh, DoomedIn, LedgerInv, Shape, RowShape
    <3> QED BY <1>1, <3>1, CallFacts DEF Writers
  <2> QED BY <1>1, <2>1, <2>2, GoesStep DEF Writers, Removers
<1> QED BY <1>2, <1>3

-----------------------------------------------------------------------------
(* The steps of a roll-back and of the reconciliation *)

LEMMA HeadStaleStep ==
  ASSUME LedgerInv, NEW a \in Actors, HeadStale(a) PROVE LedgerInv'
<1>1. row' = row /\ blob' = blob /\ uploads' = uploads /\ orphan' = orphan
      /\ call[a].pc = "head"
  BY DEF HeadStale
<1>2. CASE blob[call[a].gen] = 0
  BY <1>1, <1>2, IdleStep DEF HeadStale
<1>3. CASE blob[call[a].gen] # 0
  <2> DEFINE c == [call[a] EXCEPT !.pc = "orphan", !.upload = blob[call[a].gen], !.stale = TRUE]
  <2>1. call' = [call EXCEPT ![a] = c]
    BY <1>3 DEF HeadStale
  <2>2. blob[call[a].gen] \in Nat
    BY <1>1, CallFacts DEF LedgerInv, Shape, StoreShape
  <2>3. c \in CallRec /\ c.gen = call[a].gen /\ c.pc = "orphan"
    BY <2>2, CallFacts DEF CallRec
  <2> HIDE DEF c
  <2> QED BY <1>1, <2>1, <2>3, CallFacts, QuietStep DEF Writers, Removers
<1> QED BY <1>2, <1>3

LEMMA ListBlobStep ==
  ASSUME LedgerInv, NEW a \in Actors, NEW g \in Paths, ListBlob(a, g) PROVE LedgerInv'
<1> DEFINE c == [Call("orphan", g, 0) EXCEPT !.upload = blob[g]]
<1>1. call' = [call EXCEPT ![a] = c] /\ row' = row /\ blob' = blob
      /\ uploads' = uploads /\ orphan' = orphan /\ g <= row.gen
  BY DEF ListBlob, LedgerInv, BlobInv
<1>2. blob[g] \in Nat /\ g \in 0..MaxGeneration
  BY LedgerAssumption DEF LedgerInv, Shape, StoreShape, Paths
<1>3. c \in CallRec /\ c.gen = g /\ c.pc = "orphan" /\ c.stale = FALSE
  BY <1>2 DEF CallRec, Call
<1> HIDE DEF c
<1> QED BY <1>1, <1>3, QuietStep DEF Writers, Removers

LEMMA DeletesCall ==
  ASSUME LedgerInv, NEW a \in Actors, call[a].pc # "idle", NEW f \in Nat, Deletes(a, f),
         DoomedIn(row, call[a].gen), row' = row, blob' = blob, uploads' = uploads,
         StoreShape', orphan' = orphan \/ OrphanInv'
  PROVE  LedgerInv'
<1> DEFINE c == [Call("delorphan", call[a].gen, 0) EXCEPT !.intent = f]
<1>1. call' = [call EXCEPT ![a] = c]
  BY DEF Deletes
<1>2. c \in CallRec /\ c.gen = call[a].gen /\ c.pc = "delorphan"
  BY CallFacts DEF CallRec, Call, Removers
<1> HIDE DEF c
<1>3. RowSteps /\ RowShape'
  BY DEF RowSteps, LedgerInv, Shape, RowShape
<1> QED BY <1>1, <1>2, <1>3, CallFacts, CallStep DEF Writers

LEMMA BeginOrphanStep ==
  ASSUME LedgerInv, NEW a \in Actors, BeginOrphan(a) PROVE LedgerInv'
<1> DEFINE g == call[a].gen
           o == orphan[g]
<1>1. row' = row /\ blob' = blob /\ uploads' = uploads /\ call[a].pc = "orphan"
      /\ g \in Paths /\ g <= row.gen /\ row.gen \in Nat /\ g \in Nat
  BY CallFacts, LedgerAssumption DEF BeginOrphan, LedgerInv, Shape, RowShape, Paths
<1>2. CASE Owned(g)
  <2>1. orphan' = orphan /\ IF call[a].stale THEN Deletes(a, 0) ELSE Returns(a)
    BY <1>2 DEF BeginOrphan
  <2>2. StoreShape'
    BY <1>1, <2>1 DEF LedgerInv, Shape, StoreShape
  <2>3. CASE call[a].stale
    BY <1>1, <2>1, <2>2, <2>3, DeletesCall, CallFacts
  <2>4. CASE ~ call[a].stale
    BY <1>1, <2>1, <2>4, IdleStep
  <2> QED BY <2>3, <2>4
<1>3. CASE ~ Owned(g) /\ o.state = "deleting" /\ o.upload # call[a].upload
  BY <1>1, <1>3, IdleStep DEF BeginOrphan
<1>4. CASE ~ Owned(g) /\ ~ (o.state = "deleting" /\ o.upload # call[a].upload)
  <2> DEFINE f == IF o.state = "deleting" THEN o.fence ELSE o.fence + 1
             n == [state |-> "deleting", fence |-> f, upload |-> call[a].upload]
  <2>1. orphan' = [orphan EXCEPT ![g] = n] /\ Deletes(a, f)
    BY <1>4 DEF BeginOrphan
  <2>2. f \in Nat
    BY <1>1 DEF LedgerInv, Shape, StoreShape
  <2>3. DoomedIn(row, g)
    BY <1>1, <1>4 DEF Owned, DoomedIn
  <2>4. n \in [state : {"none", "deleting", "deleted"}, fence : Nat, upload : Nat]
    BY <2>2, CallFacts DEF CallRec
  <2> HIDE DEF n, f
  <2>5. StoreShape'
    BY <1>1, <2>1, <2>4 DEF LedgerInv, Shape, StoreShape
  <2>6. OrphanInv'
    <3> SUFFICES ASSUME NEW h \in Paths, orphan'[h].state # "none" PROVE DoomedIn(row, h)
      BY <1>1 DEF OrphanInv, Doomed
    <3>1. CASE h = g
      BY <2>3, <3>1
    <3>2. CASE h # g
      BY <2>1, <3>2 DEF LedgerInv, Shape, StoreShape, OrphanInv, Doomed
    <3> QED BY <3>1, <3>2
  <2> QED BY <1>1, <2>1, <2>2, <2>3, <2>5, <2>6, DeletesCall
<1> QED BY <1>2, <1>3, <1>4

LEMMA DueOrphanStep ==
  ASSUME LedgerInv, NEW a \in Actors, NEW g \in Paths, DueOrphan(a, g) PROVE LedgerInv'
<1> DEFINE c == [Call("delorphan", g, 0) EXCEPT !.intent = orphan[g].fence]
<1>1. call' = [call EXCEPT ![a] = c] /\ row' = row /\ blob' = blob
      /\ uploads' = uploads /\ orphan' = orphan /\ DoomedIn(row, g)
  BY DEF DueOrphan, LedgerInv, OrphanInv, Doomed
<1>2. orphan[g].fence \in Nat /\ g \in 0..MaxGeneration /\ g \in Nat /\ row.gen \in Nat
  BY LedgerAssumption DEF LedgerInv, Shape, RowShape, StoreShape, Paths
<1>3. c \in CallRec /\ c.gen = g /\ c.pc = "delorphan"
  BY <1>2 DEF CallRec, Call, Removers
<1>4. g <= row.gen
  BY <1>1, <1>2 DEF DoomedIn
<1> HIDE DEF c
<1> QED BY <1>1, <1>3, <1>4, QuietStep DEF Writers, Removers

\* A remover takes away the bytes of a doomed generation.
LEMMA RemovalStep ==
  ASSUME LedgerInv, NEW a \in Actors, call[a].pc \in Removers, NEW pc \in Removers,
         Goes(a, pc), blob' = [blob EXCEPT ![call[a].gen] = 0],
         row' = row, uploads' = uploads, orphan' = orphan
  PROVE  LedgerInv'
<1> DEFINE c == [call[a] EXCEPT !.pc = pc]
           g == call[a].gen
<1>1. call' = [call EXCEPT ![a] = c]
  BY DEF Goes
<1>2. c \in CallRec /\ c.gen = g /\ c.pc = pc
  BY CallFacts DEF CallRec
<1>3. DoomedIn(row, g) /\ g \in Paths /\ g <= row.gen
  BY CallFacts DEF Removers
<1>4. RowSteps /\ RowShape' /\ StoreShape'
  BY <1>3 DEF RowSteps, LedgerInv, Shape, RowShape, StoreShape
<1>5. /\ \A h \in Paths : blob[h] # 0 /\ ~ DoomedIn(row', h) => blob'[h] # 0
      /\ BlobInv'
  BY <1>3 DEF LedgerInv, Shape, StoreShape, BlobInv
<1>6. pc \notin Writers /\ pc # "mark" /\ pc # "idle"
  BY DEF Writers, Removers
<1> HIDE DEF c
<1> QED BY <1>1, <1>2, <1>3, <1>4, <1>5, <1>6, CallStep

LEMMA AttestOrphanStep ==
  ASSUME LedgerInv, NEW a \in Actors, AttestOrphan(a) PROVE LedgerInv'
<1> DEFINE g == call[a].gen
<1>1. row' = row /\ blob' = blob /\ uploads' = uploads /\ g \in Paths
      /\ call' = [call EXCEPT ![a] = Idle]
  BY CallFacts DEF AttestOrphan, Returns
<1>2. Idle \in CallRec /\ Idle.pc = "idle"
  BY LedgerAssumption DEF Idle, Call, CallRec
<1>3. CASE orphan' = orphan
  BY <1>1, <1>3, IdleStep DEF AttestOrphan
<1>4. CASE orphan[g].state = "deleting"
           /\ orphan' = [orphan EXCEPT ![g].state = "deleted", ![g].upload = 0]
  <2>1. RowSteps /\ RowShape' /\ StoreShape'
    BY <1>1, <1>4 DEF RowSteps, LedgerInv, Shape, RowShape, StoreShape
  <2>2. \A h \in Paths : orphan'[h].state # "none" => orphan[h].state # "none"
    BY <1>1, <1>4 DEF LedgerInv, Shape, StoreShape
  <2>3. OrphanInv'
    BY <1>1, <2>2 DEF LedgerInv, OrphanInv, Doomed
  <2> QED BY <1>1, <1>2, <2>1, <2>3, CallStep DEF Writers, Removers
<1> QED BY <1>3, <1>4 DEF AttestOrphan

-----------------------------------------------------------------------------
(* The steps of a deletion *)

LEMMA BeginDeleteStep ==
  ASSUME LedgerInv, NEW a \in Actors, BeginDelete(a) PROVE LedgerInv'
<1> DEFINE c == Call("del", row'.gen, row'.fence)
<1>1. /\ call' = [call EXCEPT ![a] = c] /\ blob' = blob /\ uploads' = uploads
      /\ orphan' = orphan /\ row.state \in {"intent", "available", "deleting"}
      /\ row' = IF row.state = "deleting" THEN row
                ELSE [row EXCEPT !.state = "deleting", !.fence = @ + 1]
  BY DEF BeginDelete
<1>2. RowSteps
  BY <1>1 DEF RowSteps
<1>3. RowShape' /\ StoreShape' /\ row'.gen = row.gen /\ row'.state = "deleting"
  <2>1. StoreShape'
    BY <1>1 DEF LedgerInv, Shape, StoreShape
  <2>2. CASE row.state = "deleting"
    BY <1>1, <2>1, <2>2 DEF LedgerInv, Shape, RowShape
  <2>3. CASE row.state # "deleting"
    <3>1. row' = [row EXCEPT !.state = "deleting", !.fence = row.fence + 1]
      BY <1>1, <2>3
    <3>2. row.gen # 0 /\ row.fence + 1 \in Nat
      BY <1>1 DEF LedgerInv, Shape, RowShape
    <3> QED BY <2>1, <3>1, <3>2 DEF LedgerInv, Shape, RowShape
  <2> QED BY <2>2, <2>3
<1>4. row'.gen \in Paths /\ row'.gen <= row'.gen /\ row'.gen \in 0..MaxGeneration
      /\ row'.fence \in Nat
  BY <1>1, <1>3, LedgerAssumption DEF RowShape, Paths, LedgerInv, Shape
<1>5. c \in CallRec /\ c.gen = row'.gen /\ c.pc = "del"
  BY <1>4 DEF CallRec, Call, Removers
<1>6. DoomedIn(row', row'.gen)
  BY <1>3 DEF DoomedIn
<1> HIDE DEF c
<1> QED BY <1>1, <1>2, <1>3, <1>4, <1>5, <1>6, CallStep DEF Writers

LEMMA DeleteAgainStep ==
  ASSUME LedgerInv, NEW a \in Actors, DeleteAgain(a) PROVE LedgerInv'
<1> DEFINE c == Call("head", row.gen, row.fence)
<1>1. /\ call' = [call EXCEPT ![a] = c] /\ row' = row /\ blob' = blob
      /\ uploads' = uploads /\ orphan' = orphan /\ row.state = "deleted"
  BY DEF DeleteAgain
<1>2. row.gen \in Paths /\ row.gen <= row.gen /\ row.gen \in 0..MaxGeneration /\ row.fence \in Nat
  BY <1>1, LedgerAssumption DEF LedgerInv, Shape, RowShape, Paths
<1>3. c \in CallRec /\ c.gen = row.gen /\ c.pc = "head"
  BY <1>2 DEF CallRec, Call, Removers
<1>4. DoomedIn(row, row.gen)
  BY <1>1 DEF DoomedIn
<1> HIDE DEF c
<1> QED BY <1>1, <1>2, <1>3, <1>4, QuietStep DEF Writers

LEMMA AttestDeletionStep ==
  ASSUME LedgerInv, NEW a \in Actors, AttestDeletion(a) PROVE LedgerInv'
<1>1. blob' = blob /\ uploads' = uploads /\ orphan' = orphan
      /\ call' = [call EXCEPT ![a] = Idle]
  BY DEF AttestDeletion, Returns
<1>2. Idle \in CallRec /\ Idle.pc = "idle"
  BY LedgerAssumption DEF Idle, Call, CallRec
<1>3. CASE row' = row
  BY <1>1, <1>3, IdleStep DEF AttestDeletion
<1>4. CASE row.state = "deleting" /\ row' = [row EXCEPT !.state = "deleted"]
  <2>1. RowSteps /\ RowShape' /\ StoreShape' /\ row'.state # "available"
    BY <1>1, <1>4 DEF RowSteps, LedgerInv, Shape, RowShape, StoreShape
  <2> QED BY <1>1, <1>2, <2>1, CallStep DEF Writers, Removers
<1> QED BY <1>3, <1>4 DEF AttestDeletion

-----------------------------------------------------------------------------

LEMMA NextKeepsLedger == LedgerInv /\ [Next]_vars => LedgerInv'
<1> SUFFICES ASSUME LedgerInv, [Next]_vars PROVE LedgerInv'
  OBVIOUS
<1>1. ASSUME NEW a \in Actors, Put(a) PROVE LedgerInv'
  BY <1>1, BeginPutStep, JoinPutStep DEF Put
<1>2. ASSUME NEW a \in Actors, Delete(a) \/ Expire(a) PROVE LedgerInv'
  BY <1>2, BeginDeleteStep, DeleteAgainStep DEF Delete, Expire
<1>3. ASSUME NEW a \in Actors, NEW g \in Paths, Reconcile(a, g) PROVE LedgerInv'
  BY <1>3, ListBlobStep, DueOrphanStep DEF Reconcile
<1>4. ASSUME NEW a \in Actors, Continue(a) PROVE LedgerInv'
  <2>1. DeleteOrphan(a) => LedgerInv'
    BY RemovalStep DEF DeleteOrphan, Removers
  <2>2. DeleteObject(a) => LedgerInv'
    BY RemovalStep DEF DeleteObject, Removers
  <2> QED BY <1>4, <2>1, <2>2, ReadProviderStep, UploadStep, VerifyStep, MarkAvailableStep,
       HeadStaleStep, BeginOrphanStep, AttestOrphanStep, AttestDeletionStep DEF Continue
<1>5. CASE UNCHANGED vars
  <2>1. /\ row' = row /\ blob' = blob /\ uploads' = uploads /\ orphan' = orphan /\ call' = call
    BY <1>5 DEF vars
  <2> QED BY <2>1 DEF LedgerInv, Shape, RowShape, StoreShape, WriterInv, RemoverInv, BlobInv,
       OrphanInv, Doomed, AvailableIsStored
<1> QED BY <1>1, <1>2, <1>3, <1>4, <1>5 DEF Next, Actors

\* Whatever puts, deletions, roll-backs and sweeps interleave, and wherever
\* they stop, an object the ledger calls available is at the provider.
THEOREM AvailableObjectsAreStored == Spec => []AvailableIsStored
<1>1. LedgerInv => AvailableIsStored
  BY DEF LedgerInv
<1> QED BY <1>1, InitLedger, NextKeepsLedger, PTL DEF Spec

\* A generation whose deletion was begun never comes back, and neither
\* generations nor fences decrease.
THEOREM DeletedGenerationsStayDeleted == Spec => DeletionIsFinal
<1> DEFINE A == /\ row'.gen >= row.gen /\ row'.fence >= row.fence
                /\ row.state \in {"deleting", "deleted"} /\ row'.gen = row.gen
                     => row'.state \in {"deleting", "deleted"}
<1>1. LedgerInv /\ [Next]_vars => [A]_vars
  <2> SUFFICES ASSUME LedgerInv, [Next]_vars PROVE A
    OBVIOUS
  <2>1. row' = row => A
    BY DEF LedgerInv, Shape, RowShape
  <2>2. ASSUME NEW a \in Actors, BeginPut(a) PROVE A
    <3>1. row' = [gen |-> row.gen + 1, fence |-> row.fence + 1, state |-> "intent"]
      BY <2>2 DEF BeginPut, Reactivated
    <3>2. row'.gen = row.gen + 1 /\ row'.fence = row.fence + 1
      BY <3>1
    <3> QED BY <3>2 DEF LedgerInv, Shape, RowShape
  <2>3. ASSUME NEW a \in Actors, MarkAvailable(a) PROVE A
    <3>1. CASE row.state \in {"intent", "available"} /\ row' = [row EXCEPT !.state = "available"]
      BY <3>1 DEF LedgerInv, Shape, RowShape
    <3> QED BY <2>1, <2>3, <3>1 DEF MarkAvailable
  <2>4. ASSUME NEW a \in Actors, BeginDelete(a) PROVE A
    <3>1. CASE row' = [row EXCEPT !.state = "deleting", !.fence = @ + 1]
      BY <3>1 DEF LedgerInv, Shape, RowShape
    <3> QED BY <2>1, <2>4, <3>1 DEF BeginDelete
  <2>5. ASSUME NEW a \in Actors, AttestDeletion(a) PROVE A
    <3>1. CASE row' = [row EXCEPT !.state = "deleted"]
      BY <3>1 DEF LedgerInv, Shape, RowShape
    <3> QED BY <2>1, <2>5, <3>1 DEF AttestDeletion
  <2>6. ASSUME NEW a \in Actors, Continue(a) PROVE A
    BY <2>1, <2>3, <2>5, <2>6 DEF Continue, ReadProvider, Upload, Verify, HeadStale,
      BeginOrphan, DeleteOrphan, AttestOrphan, DeleteObject
  <2>7. ASSUME NEW a \in Actors, Put(a) \/ Delete(a) \/ Expire(a) PROVE A
    BY <2>1, <2>2, <2>4, <2>7 DEF Put, Delete, Expire, JoinPut, DeleteAgain
  <2>8. ASSUME NEW a \in Actors, NEW g \in Paths, Reconcile(a, g) PROVE A
    BY <2>1, <2>8 DEF Reconcile, ListBlob, DueOrphan
  <2> QED BY <2>1, <2>6, <2>7, <2>8 DEF Next, Actors, vars
<1> QED BY <1>1, InitLedger, NextKeepsLedger, PTL DEF Spec, DeletionIsFinal

-----------------------------------------------------------------------------
(* Types: the argument above needs no bounds on uploads, the type has them *)

\* Of a call: which upload it has seen, and that an idle one is at no pathname.
CallBounds(c) ==
  /\ c.upload <= MaxUploads
  /\ c.pc = "idle" => c.gen = 0
  /\ c.pc = "orphan" => c.upload # 0

\* Uploads are counted up to the bound, the provider holds one of them, and an
\* orphan's lease names the upload it was given for.
StoreBounds ==
  \A g \in Paths : /\ uploads[g] <= MaxUploads /\ blob[g] <= uploads[g]
                   /\ orphan[g].upload <= MaxUploads
                   /\ orphan[g].state = "deleting" <=> orphan[g].upload # 0

CountInv == StoreBounds /\ \A a \in Actors : CallBounds(call[a])

\* The call of one process changes, to one within its bounds.
LEMMA OneCall ==
  ASSUME LedgerInv, CountInv, NEW a \in Actors, NEW c, call' = [call EXCEPT ![a] = c],
         CallBounds(c), StoreBounds'
  PROVE  CountInv'
<1>1. \A b \in Actors : call'[b] = IF b = a THEN c ELSE call[b]
  BY DEF LedgerInv, Shape
<1> QED BY <1>1 DEF CountInv

LEMMA SameStore ==
  ASSUME CountInv, blob' = blob, uploads' = uploads, orphan' = orphan PROVE StoreBounds'
  BY DEF CountInv, StoreBounds

\* Bytes may go away at any time.
LEMMA LessStored ==
  ASSUME LedgerInv, CountInv, NEW g \in Paths, blob' = [blob EXCEPT ![g] = 0],
         uploads' = uploads, orphan' = orphan
  PROVE  StoreBounds'
<1>1. blob \in [Paths -> Nat] /\ uploads \in [Paths -> Nat]
  BY DEF LedgerInv, Shape, StoreShape
<1> QED BY <1>1 DEF CountInv, StoreBounds

LEMMA IdleBounds == CallBounds(Idle)
  BY LedgerAssumption DEF CallBounds, Idle, Call

\* A process that goes on without a new upload, to no orphan.
LEMMA GoesBounds ==
  ASSUME LedgerInv, CountInv, NEW a \in Actors, NEW pc, Goes(a, pc),
         pc \notin {"idle", "orphan"}, StoreBounds'
  PROVE  CountInv'
<1> DEFINE c == [call[a] EXCEPT !.pc = pc]
<1>1. call' = [call EXCEPT ![a] = c]
  BY DEF Goes, LedgerInv, Shape
<1>2. call[a] \in CallRec
  BY DEF LedgerInv, Shape
<1>3. c.pc = pc /\ c.upload = call[a].upload
  BY <1>2 DEF CallRec
<1>4. CallBounds(c)
  BY <1>3 DEF CountInv, CallBounds
<1> HIDE DEF c
<1> QED BY <1>1, <1>4, OneCall

LEMMA ReturnsBounds ==
  ASSUME LedgerInv, CountInv, NEW a \in Actors, Returns(a), StoreBounds'
  PROVE  CountInv'
  BY IdleBounds, OneCall DEF Returns

\* A call that begins with no upload seen, and is no orphan's.
LEMMA NewCallBounds ==
  ASSUME NEW pc, NEW g, NEW f, pc \notin {"idle", "orphan"}
  PROVE  CallBounds(Call(pc, g, f)) /\ \A b \in BOOLEAN : CallBounds([Call(pc, g, f) EXCEPT !.avail = b])
                                    /\ \A n \in Nat : CallBounds([Call(pc, g, f) EXCEPT !.intent = n])
  BY LedgerAssumption DEF CallBounds, Call

LEMMA PutBounds ==
  ASSUME LedgerInv, CountInv, NEW a \in Actors,
         BeginPut(a) \/ JoinPut(a) \/ BeginDelete(a) \/ DeleteAgain(a) \/ ReadProvider(a)
  PROVE  CountInv'
<1>1. StoreBounds'
  BY SameStore DEF BeginPut, JoinPut, BeginDelete, DeleteAgain, ReadProvider
<1>2. ASSUME BeginPut(a) PROVE CountInv'
  BY <1>1, <1>2, NewCallBounds, OneCall DEF BeginPut
<1>3. ASSUME JoinPut(a) PROVE CountInv'
  <2> DEFINE c == [Call("read", row.gen, row.fence) EXCEPT !.avail = (row.state = "available")]
  <2>1. call' = [call EXCEPT ![a] = c]
    BY <1>3 DEF JoinPut
  <2>2. CallBounds(c)
    BY NewCallBounds
  <2> HIDE DEF c
  <2> QED BY <1>1, <2>1, <2>2, OneCall
<1>4. ASSUME BeginDelete(a) PROVE CountInv'
  <2>1. PICK r : call' = [call EXCEPT ![a] = Call("del", r.gen, r.fence)]
    BY <1>4 DEF BeginDelete
  <2>2. CallBounds(Call("del", r.gen, r.fence))
    BY NewCallBounds
  <2> QED BY <1>1, <2>1, <2>2, OneCall
<1>5. ASSUME DeleteAgain(a) PROVE CountInv'
  BY <1>1, <1>5, NewCallBounds, OneCall DEF DeleteAgain
<1>6. ASSUME ReadProvider(a) PROVE CountInv'
  <2>1. CASE Returns(a)
    BY <1>1, <2>1, ReturnsBounds
  <2>2. CASE ~Returns(a)
    <3> DEFINE pc == IF blob[call[a].gen] = 0 THEN "upload" ELSE "verify"
               c == [[call[a] EXCEPT !.avail = FALSE] EXCEPT !.pc = pc]
    <3>1. call[a] \in CallRec /\ call \in [Actors -> CallRec]
      BY DEF LedgerInv, Shape
    <3>2. call' = [call EXCEPT ![a] = c]
      BY <1>6, <2>2, <3>1 DEF ReadProvider
    <3>3. c.upload = call[a].upload /\ c.pc \in {"upload", "verify"}
      BY <3>1 DEF CallRec
    <3>4. CallBounds(c)
      BY <3>3 DEF CountInv, CallBounds
    <3> HIDE DEF c
    <3> QED BY <1>1, <3>2, <3>4, OneCall
  <2> QED BY <2>1, <2>2
<1> QED BY <1>2, <1>3, <1>4, <1>5, <1>6

LEMMA UploadBounds ==
  ASSUME LedgerInv, CountInv, NEW a \in Actors, Upload(a) PROVE CountInv'
<1> DEFINE g == call[a].gen
<1>1. g \in Paths
  BY CallFacts DEF Upload
<1>2. blob \in [Paths -> Nat] /\ uploads \in [Paths -> Nat]
  BY DEF LedgerInv, Shape, StoreShape
<1>3. StoreBounds'
  <2>1. CASE blob' = blob /\ uploads' = uploads
    BY <2>1, SameStore DEF Upload
  <2>2. CASE /\ uploads[g] < MaxUploads /\ uploads' = [uploads EXCEPT ![g] = @ + 1]
             /\ blob' = [blob EXCEPT ![g] = uploads[g] + 1]
    <3>1. uploads[g] \in Nat /\ MaxUploads \in Nat /\ uploads[g] + 1 <= MaxUploads
      BY <1>1, <1>2, <2>2, LedgerAssumption
    <3>2. \A h \in Paths : uploads'[h] = (IF h = g THEN uploads[g] + 1 ELSE uploads[h])
                           /\ blob'[h] = (IF h = g THEN uploads[g] + 1 ELSE blob[h])
      BY <1>1, <1>2, <2>2
    <3>3. orphan' = orphan
      BY DEF Upload
    <3> HIDE DEF g
    <3> QED BY <3>1, <3>2, <3>3 DEF CountInv, StoreBounds
  <2> QED BY <2>1, <2>2 DEF Upload
<1> QED BY <1>3, GoesBounds DEF Upload

LEMMA OrphanBounds ==
  ASSUME LedgerInv, CountInv, NEW a \in Actors, BeginOrphan(a) PROVE CountInv'
<1> DEFINE g == call[a].gen
<1>1. g \in Paths /\ call[a] \in CallRec
  BY CallFacts DEF BeginOrphan
<1>2. ASSUME NEW f \in Nat, Deletes(a, f), StoreBounds' PROVE CountInv'
  BY <1>2, NewCallBounds, OneCall DEF Deletes
<1>3. CASE orphan' = orphan
  <2>1. StoreBounds'
    BY <1>3, SameStore DEF BeginOrphan
  <2>2. CASE Returns(a)
    BY <2>1, <2>2, ReturnsBounds
  <2>3. CASE ~Returns(a)
    <3>1. orphan \in [Paths -> [state : {"none", "deleting", "deleted"}, fence : Nat, upload : Nat]]
      BY DEF LedgerInv, Shape, StoreShape
    <3>2. orphan[g].fence \in Nat /\ orphan[g].fence + 1 \in Nat /\ 0 \in Nat
      BY <1>1, <3>1
    <3>3. \E f \in Nat : Deletes(a, f)
      <4>1. CASE Owned(g)
        BY <2>3, <3>2, <4>1 DEF BeginOrphan
      <4>2. CASE ~Owned(g)
        <5>1. Deletes(a, IF orphan[g].state = "deleting" THEN orphan[g].fence ELSE orphan[g].fence + 1)
          BY <2>3, <4>2 DEF BeginOrphan
        <5> QED BY <3>2, <5>1
      <4> QED BY <4>1, <4>2
    <3> QED BY <1>2, <2>1, <3>3
  <2> QED BY <2>2, <2>3
<1>4. ASSUME NEW f \in Nat, Deletes(a, f),
             orphan' = [orphan EXCEPT ![g] = [state |-> "deleting", fence |-> f, upload |-> call[a].upload]]
      PROVE  CountInv'
  <2>1. orphan \in [Paths -> [state : {"none", "deleting", "deleted"}, fence : Nat, upload : Nat]]
    BY DEF LedgerInv, Shape, StoreShape
  <2>2. \A h \in Paths : orphan'[h] = IF h = g THEN [state |-> "deleting", fence |-> f, upload |-> call[a].upload]
                                      ELSE orphan[h]
    BY <1>4, <2>1
  <2>3. call[a].upload <= MaxUploads /\ call[a].upload # 0
    BY DEF BeginOrphan, CountInv, CallBounds
  <2>4. blob' = blob /\ uploads' = uploads
    BY DEF BeginOrphan
  <2>5. StoreBounds'
    BY <2>2, <2>3, <2>4 DEF CountInv, StoreBounds
  <2> QED BY <1>2, <1>4, <2>5
<1>5. CASE orphan' # orphan
  <2>1. orphan \in [Paths -> [state : {"none", "deleting", "deleted"}, fence : Nat, upload : Nat]]
    BY DEF LedgerInv, Shape, StoreShape
  <2> DEFINE f == IF orphan[g].state = "deleting" THEN orphan[g].fence ELSE orphan[g].fence + 1
  <2>2. f \in Nat
    BY <1>1, <2>1
  <2>3. /\ Deletes(a, f)
        /\ orphan' = [orphan EXCEPT ![g] = [state |-> "deleting", fence |-> f, upload |-> call[a].upload]]
    BY <1>5 DEF BeginOrphan
  <2> HIDE DEF f
  <2> QED BY <1>4, <2>2, <2>3
<1> QED BY <1>3, <1>5

LEMMA AttestOrphanBounds ==
  ASSUME LedgerInv, CountInv, NEW a \in Actors, AttestOrphan(a) PROVE CountInv'
<1> DEFINE g == call[a].gen
<1>1. CASE orphan' = orphan
  BY <1>1, SameStore, ReturnsBounds DEF AttestOrphan
<1>2. CASE orphan' = [orphan EXCEPT ![g].state = "deleted", ![g].upload = 0]
  <2>1. orphan \in [Paths -> [state : {"none", "deleting", "deleted"}, fence : Nat, upload : Nat]]
    BY DEF LedgerInv, Shape, StoreShape
  <2>2. g \in Paths
    BY CallFacts DEF AttestOrphan
  <2>3. \A h \in Paths : IF h = g THEN orphan'[h].state = "deleted" /\ orphan'[h].upload = 0
                         ELSE orphan'[h] = orphan[h]
    BY <1>2, <2>1, <2>2
  <2>4. blob' = blob /\ uploads' = uploads /\ MaxUploads \in Nat
    BY LedgerAssumption DEF AttestOrphan
  <2>5. StoreBounds'
    <3> SUFFICES ASSUME NEW h \in Paths
                 PROVE  /\ uploads[h] <= MaxUploads /\ blob[h] <= uploads[h]
                        /\ orphan'[h].upload <= MaxUploads
                        /\ orphan'[h].state = "deleting" <=> orphan'[h].upload # 0
      BY <2>4 DEF StoreBounds
    <3>1. CASE h = g
      BY <2>3, <2>4, <3>1 DEF CountInv, StoreBounds
    <3>2. CASE h # g
      BY <2>3, <3>2 DEF CountInv, StoreBounds
    <3> QED BY <3>1, <3>2
  <2> QED BY <2>5, ReturnsBounds DEF AttestOrphan
<1> QED BY <1>1, <1>2 DEF AttestOrphan

\* An orphan that is seen, in the provider's listing or by a roll-back.
LEMMA SeenBounds ==
  ASSUME LedgerInv, CountInv, NEW a \in Actors, NEW g \in Paths,
         HeadStale(a) \/ ListBlob(a, g) \/ DueOrphan(a, g)
  PROVE  CountInv'
<1>1. StoreBounds'
  BY SameStore DEF HeadStale, ListBlob, DueOrphan
<1>2. \A h \in Paths : blob[h] \in Nat /\ uploads[h] \in Nat /\ blob[h] <= MaxUploads
  BY LedgerAssumption DEF LedgerInv, Shape, StoreShape, CountInv, StoreBounds
<1>3. ASSUME HeadStale(a) PROVE CountInv'
  <2>1. CASE Returns(a)
    BY <1>1, <2>1, ReturnsBounds
  <2>2. CASE ~Returns(a)
    <3> DEFINE c == [[[call[a] EXCEPT !.pc = "orphan"] EXCEPT !.upload = blob[call[a].gen]]
                       EXCEPT !.stale = TRUE]
    <3>1. call[a] \in CallRec /\ call \in [Actors -> CallRec] /\ call[a].gen \in Paths
      BY <1>3, CallFacts DEF LedgerInv, Shape, HeadStale
    <3>2. call' = [call EXCEPT ![a] = c] /\ blob[call[a].gen] # 0
      BY <1>3, <2>2, <3>1 DEF HeadStale
    <3>3. c.upload = blob[call[a].gen] /\ c.pc = "orphan"
      BY <3>1 DEF CallRec
    <3>4. CallBounds(c)
      BY <1>2, <3>1, <3>2, <3>3 DEF CallBounds
    <3> HIDE DEF c
    <3> QED BY <1>1, <3>2, <3>4, OneCall
  <2> QED BY <2>1, <2>2
<1>4. ASSUME ListBlob(a, g) PROVE CountInv'
  <2> DEFINE c == [Call("orphan", g, 0) EXCEPT !.upload = blob[g]]
  <2>1. call' = [call EXCEPT ![a] = c] /\ blob[g] # 0
    BY <1>4 DEF ListBlob
  <2>2. c.pc = "orphan" /\ c.upload = blob[g]
    BY DEF Call
  <2>3. CallBounds(c)
    BY <1>2, <2>1, <2>2 DEF CallBounds
  <2> HIDE DEF c
  <2> QED BY <1>1, <2>1, <2>3, OneCall
<1>5. ASSUME DueOrphan(a, g) PROVE CountInv'
  <2>1. orphan[g].fence \in Nat
    BY DEF LedgerInv, Shape, StoreShape
  <2> QED BY <1>1, <1>5, <2>1, NewCallBounds, OneCall DEF DueOrphan
<1> QED BY <1>3, <1>4, <1>5

LEMMA RemovalBounds ==
  ASSUME LedgerInv, CountInv, NEW a \in Actors, DeleteOrphan(a) \/ DeleteObject(a)
  PROVE  CountInv'
<1>1. call[a].gen \in Paths
  BY CallFacts DEF DeleteOrphan, DeleteObject
<1>2. StoreBounds'
  BY <1>1, LessStored DEF DeleteOrphan, DeleteObject
<1> QED BY <1>2, GoesBounds DEF DeleteOrphan, DeleteObject

LEMMA ContinueBounds ==
  ASSUME LedgerInv, CountInv, NEW a \in Actors, Continue(a) PROVE CountInv'
<1>1. ASSUME Verify(a) \/ MarkAvailable(a) \/ AttestDeletion(a) PROVE CountInv'
  <2>1. StoreBounds'
    BY <1>1, SameStore DEF Verify, MarkAvailable, AttestDeletion
  <2> QED BY <1>1, <2>1, GoesBounds, ReturnsBounds DEF Verify, MarkAvailable, AttestDeletion
<1>2. ASSUME HeadStale(a) PROVE CountInv'
  BY <1>2, CallFacts, SeenBounds DEF HeadStale
<1> QED BY <1>1, <1>2, PutBounds, UploadBounds, OrphanBounds, AttestOrphanBounds, RemovalBounds
        DEF Continue

LEMMA NextKeepsCount == LedgerInv /\ CountInv /\ [Next]_vars => CountInv'
<1> SUFFICES ASSUME LedgerInv, CountInv, [Next]_vars PROVE CountInv'
  OBVIOUS
<1>1. ASSUME NEW a \in Actors, Put(a) \/ Delete(a) \/ Expire(a) PROVE CountInv'
  BY <1>1, PutBounds DEF Put, Delete, Expire
<1>2. ASSUME NEW a \in Actors, NEW g \in Paths, Reconcile(a, g) PROVE CountInv'
  BY <1>2, SeenBounds DEF Reconcile
<1>3. CASE UNCHANGED vars
  <2>1. call' = call /\ StoreBounds'
    BY <1>3, SameStore DEF vars
  <2> QED BY <2>1 DEF CountInv
<1> QED BY <1>1, <1>2, <1>3, ContinueBounds DEF Next, Actors

LEMMA InitCount == Init => CountInv
  BY LedgerAssumption DEF Init, CountInv, StoreBounds, CallBounds, Idle, Call, Paths

\* Types of row, provider, orphan intents and calls: fences and uploads are
\* counted, an orphan's lease names an upload exactly while it is worked on,
\* and a process is at a pathname exactly while it is in a call.
THEOREM LedgerTypes == Spec => []TypeOK
<1>1. LedgerInv /\ CountInv => TypeOK
  <2> SUFFICES ASSUME LedgerInv, CountInv PROVE TypeOK
    OBVIOUS
  <2>1. MaxUploads \in Nat /\ MaxGeneration \in Nat
    BY LedgerAssumption
  <2>2. RowShape /\ StoreShape /\ call \in [Actors -> CallRec]
    BY DEF LedgerInv, Shape
  <2>3. /\ row \in [gen : 0..MaxGeneration, fence : Nat,
                    state : {"none", "intent", "available", "deleting", "deleted"}]
        /\ row.gen = 0 <=> row.state = "none"
    BY <2>2 DEF RowShape
  <2>4. \A g \in Paths : /\ blob[g] \in Nat /\ uploads[g] \in Nat
                         /\ blob[g] <= uploads[g] /\ uploads[g] <= MaxUploads
    BY <2>2 DEF StoreShape, CountInv, StoreBounds
  <2>5. blob \in [Paths -> 0..MaxUploads] /\ uploads \in [Paths -> 0..MaxUploads]
    <3>1. \A g \in Paths : blob[g] \in 0..MaxUploads /\ uploads[g] \in 0..MaxUploads
      BY <2>1, <2>4
    <3> QED BY <2>2, <3>1 DEF StoreShape
  <2>6. orphan \in [Paths -> [state : {"none", "deleting", "deleted"}, fence : Nat,
                              upload : 0..MaxUploads]]
    <3>1. \A g \in Paths : orphan[g].upload <= MaxUploads
      BY DEF CountInv, StoreBounds
    <3>2. orphan \in [Paths -> [state : {"none", "deleting", "deleted"}, fence : Nat, upload : Nat]]
      BY <2>2 DEF StoreShape
    <3>3. \A g \in Paths : orphan[g] \in [state : {"none", "deleting", "deleted"}, fence : Nat,
                                          upload : 0..MaxUploads]
      BY <2>1, <3>1, <3>2
    <3> QED BY <3>2, <3>3
  <2>7. \A a \in Actors : call[a].pc = "idle" <=> call[a].gen = 0
    <3>1. \A a \in Actors : call[a].pc # "idle" => call[a].gen # 0
      BY CallFacts DEF Paths
    <3>2. \A a \in Actors : call[a].pc = "idle" => call[a].gen = 0
      BY DEF CountInv, CallBounds
    <3> QED BY <3>1, <3>2
  <2>8. call \in [Actors -> [pc : {"idle", "read", "upload", "verify", "mark", "head", "orphan",
                                   "del", "attest", "delorphan", "attestorphan"},
                             gen : 0..MaxGeneration, fence : Nat, avail : BOOLEAN,
                             upload : 0..MaxUploads, intent : Nat, stale : BOOLEAN]]
    <3>1. \A a \in Actors : call[a] \in CallRec /\ call[a].upload <= MaxUploads
      BY <2>2 DEF CountInv, CallBounds
    <3>2. \A a \in Actors : call[a].upload \in 0..MaxUploads
      BY <2>1, <3>1 DEF CallRec
    <3>3. \A a \in Actors :
            call[a] \in [pc : {"idle", "read", "upload", "verify", "mark", "head", "orphan",
                               "del", "attest", "delorphan", "attestorphan"},
                         gen : 0..MaxGeneration, fence : Nat, avail : BOOLEAN,
                         upload : 0..MaxUploads, intent : Nat, stale : BOOLEAN]
      BY <3>1, <3>2 DEF CallRec, Writers, Removers
    <3> QED BY <2>2, <3>3
  <2>9. \A g \in Paths : orphan[g].state = "deleting" <=> orphan[g].upload # 0
    BY DEF CountInv, StoreBounds
  <2> QED BY <2>3, <2>4, <2>5, <2>6, <2>7, <2>8, <2>9 DEF TypeOK
<1> QED BY <1>1, InitLedger, NextKeepsLedger, InitCount, NextKeepsCount, PTL DEF Spec
=============================================================================
