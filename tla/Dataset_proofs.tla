----------------------------- MODULE Dataset_proofs -----------------------------
(***************************************************************************)
(* A job runs only on the dataset its receipt names, for any number of      *)
(* calls, sheets, mappings and receipts.  The argument: what a call still   *)
(* has to do carries the receipt it was given, a match is on the job's own  *)
(* receipt, and the receipt of a job is written once.                       *)
(***************************************************************************)
EXTENDS DatasetSessions, FiniteSetTheorems, TLAPS

Things == Sheets \cup {Source, None} \cup Ids \cup Mappings \cup Bytes \cup Receipts

Bound(j) == j.st # "none"

\* What a call may still have to do while the job is j.
StepsFor(j) ==
  [do : {"put"}, on : Bytes]
    \cup [do : {"store", "keep"}, on : Sheets]
    \cup [do : {"swap"}, on : Ids]
    \cup [do : {"bind"}, on : Receipts]
    \cup [do : {"match"}, on : {i \in {j.receipt.id} : Bound(j)}]
    \cup [do : {"patch"}, on : {i \in {None} : Bound(j)}]
    \cup [do : Kinds \ {"put", "store", "keep", "swap", "bind", "match", "patch"}, on : Things]

Ops == Requests \cup {"none", "delete", "clear"}

CallsFor(j) ==
  [op : Ops, todo : Seq(StepsFor(j)), fresh : BOOLEAN, arg : Things, seen : Things]

CallOK(c, j) ==
  /\ c \in CallsFor(j)
  /\ c.op = "none" <=> c.todo = <<>>
  /\ c.op = "clear" => Bound(j)
  /\ c.fresh => c.op \in Saving

\* What a call will store was allowed for the control state k and n receipts.
ArgOK(c, k, n) ==
  /\ c.op = "select" => c.arg \in Sheets
  /\ c.op = "map" => k.parsed # None /\ c.arg \in Mappings
  /\ c.op = "preview" => k.mapping # None
  /\ c.op = "activate" => k.prepared # None /\ n < MaxReceipts

ControlOK(k) ==
  /\ k \in Control
  /\ k.mapping # None => k.parsed # None
  /\ k.prepared # None => k.prepared = <<k.parsed, k.mapping>> /\ k.mapping # None
  /\ k.activation # None => k.activation.id = k.prepared /\ k.prepared # None

JobOK(j) ==
  /\ j \in [receipt : Receipts \cup {None}, input : Ids \cup {None},
            st : {"none", "bound", "ended", "cleared"}]
  /\ Bound(j) => j.receipt \in Receipts
  /\ ~Bound(j) => j.input = None
  /\ j.input # None => j.input = j.receipt.id

Data ==
  /\ row \in [deleted : BOOLEAN, expired : BOOLEAN, active : Ids \cup {None}]
  /\ source \in Bytes \cup {None}
  /\ parsed \subseteq Sheets
  /\ artifacts \subseteq {Source} \cup Sheets
  /\ receipts \in 0..MaxReceipts
  /\ row.deleted => control = Empty /\ row.active = None

CallsOK ==
  /\ call \in [Calls -> CallsFor(job)]
  /\ \A a \in Calls : CallOK(call[a], job)
  /\ \A a \in Calls : Live /\ call[a].fresh => ArgOK(call[a], control, receipts)

DatasetInv == Data /\ ControlOK(control) /\ JobOK(job) /\ CallsOK

-----------------------------------------------------------------------------
(* The lists of steps *)

LEMMA SheetSequence ==
  ASSUME NEW S \in SUBSET Sheets PROVE SetToSeq(S) \in Seq(S)
<1>1. IsFiniteSet(S)
  BY FS_Subset, DatasetAssumption DEF DatasetAssumption
<1>2. Cardinality(S) \in Nat /\ ExistsBijection(1..Cardinality(S), S)
  BY <1>1, FS_CardinalityType
<1>3. \E f \in [1..Cardinality(S) -> S] : IsInjective(f)
  BY <1>2 DEF ExistsBijection, Bijection, Injection, IsInjective
<1>4. SetToSeq(S) \in [1..Cardinality(S) -> S]
  BY <1>3 DEF SetToSeq
<1> QED BY <1>2, <1>4

LEMMA FunctionIsSequence ==
  ASSUME NEW S, NEW n \in Nat, NEW f \in [1..n -> S] PROVE f \in Seq(S)
OBVIOUS

LEMMA EraseStepsType ==
  ASSUME NEW j, NEW q \in Seq(Things) PROVE EraseSteps(q) \in Seq(StepsFor(j))
<1> DEFINE N == Len(q)
           f == [i \in 1..(2 * N) |->
                  IF i % 2 = 1 THEN Step("erase", q[(i + 1) \div 2]) ELSE Step("probe", q[i \div 2])]
<1>1. N \in Nat /\ 2 * N \in Nat
  OBVIOUS
<1>2. ASSUME NEW i \in 1..(2 * N) PROVE f[i] \in StepsFor(j)
  <2>1. CASE i % 2 = 1
    <3>1. (i + 1) \div 2 \in 1..N
      BY <1>1, <2>1
    <3>2. q[(i + 1) \div 2] \in Things
      BY <3>1
    <3> QED BY <2>1, <3>2 DEF StepsFor, Kinds, Step
  <2>2. CASE i % 2 # 1
    <3>1. i \div 2 \in 1..N
      BY <1>1, <2>2
    <3>2. q[i \div 2] \in Things
      BY <3>1
    <3> QED BY <2>2, <3>2 DEF StepsFor, Kinds, Step
  <2> QED BY <2>1, <2>2
<1>3. f \in [1..(2 * N) -> StepsFor(j)]
  BY <1>2
<1>4. f \in Seq(StepsFor(j))
  BY <1>1, <1>3, FunctionIsSequence
<1> QED BY <1>4 DEF EraseSteps

LEMMA OneStep ==
  ASSUME NEW S, NEW s \in S PROVE <<s>> \in Seq(S)
OBVIOUS

LEMMA Joined ==
  ASSUME NEW S, NEW p \in Seq(S), NEW q \in Seq(S)
  PROVE  p \o q \in Seq(S) /\ (p # <<>> => p \o q # <<>>) /\ (q # <<>> => p \o q # <<>>)
<1>1. p \o q \in Seq(S) /\ Len(p \o q) = Len(p) + Len(q) /\ Len(p) \in Nat /\ Len(q) \in Nat
  OBVIOUS
<1>2. p # <<>> => Len(p) # 0
  OBVIOUS
<1>3. q # <<>> => Len(q) # 0
  OBVIOUS
<1>4. p \o q = <<>> => Len(p \o q) = 0
  OBVIOUS
<1> QED BY <1>1, <1>2, <1>3, <1>4

LEMMA PlanType ==
  ASSUME ControlOK(control), JobOK(job), NEW op \in Requests, NEW arg \in Asks(op, control)
  PROVE  Plan(op, arg, control) \in Seq(StepsFor(job)) /\ Plan(op, arg, control) # <<>>
<1> DEFINE S == StepsFor(job)
<1> HIDE DEF S
<1>1. \A d \in {"stage", "read", "confirm", "save", "see", "verify"}, x \in Things : Step(d, x) \in S
  BY DEF S, StepsFor, Step, Kinds
<1>2. \A s \in Sheets : Step("store", s) \in S /\ Step("keep", s) \in S
  BY DEF S, StepsFor, Step
<1>3. Source \in Things /\ None \in Things /\ Sheets \subseteq Things /\ Ids \subseteq Things
      /\ Receipts \subseteq Things
  BY DEF Things
<1>4. Stage \in Seq(S) /\ Stage # <<>>
  BY <1>1, <1>3 DEF Stage
<1>5. \A s \in Sheets \cup {None} : Parse(s) \in Seq(S)
  BY <1>1, <1>2, <1>3 DEF Parse
<1>6. control.parsed \in Sheets \cup {None}
  BY DEF ControlOK, Control
<1>7. Rehydrate(control) \in Seq(S)
  BY <1>4, <1>5, <1>6, Joined DEF Rehydrate
<1>8. <<Step("save", None)>> \in Seq(S)
  BY <1>1, <1>3
<1>9. CASE op = "upload"
  <2>1. <<Step("put", arg)>> \in Seq(S)
    BY <1>9 DEF S, StepsFor, Step, Asks
  <2>2. Plan(op, arg, control) = <<Step("put", arg)>> \o Stage \o <<Step("save", None)>>
    BY <1>9 DEF Plan
  <2> QED BY <2>1, <2>2, <1>4, <1>8, Joined DEF S
<1>10. CASE op = "select"
  <2>1. Parse(arg) \in Seq(S)
    BY <1>5, <1>10 DEF Asks
  <2>2. Plan(op, arg, control) = Rehydrate(control) \o Parse(arg) \o <<Step("save", None)>>
    BY <1>10 DEF Plan
  <2> QED BY <2>1, <2>2, <1>7, <1>8, Joined DEF S
<1>11. CASE op = "map"
  <2>1. Plan(op, arg, control) = <<Step("save", None)>>
    BY <1>11 DEF Plan
  <2> QED BY <2>1, <1>8 DEF S
<1>12. CASE op = "preview"
  <2>1. <<Step("read", control.parsed), Step("save", None)>> \in Seq(S)
    BY <1>1, <1>3, <1>6
  <2>2. Plan(op, arg, control) =
          Rehydrate(control) \o <<Step("read", control.parsed), Step("save", None)>>
    BY <1>12 DEF Plan
  <2> QED BY <2>1, <2>2, <1>7, Joined DEF S
<1>13. CASE op = "activate"
  <2>1. control.prepared \in Ids
    BY <1>13 DEF Asks, ControlOK, Control
  <2>2. Step("swap", control.prepared) \in S
    BY <2>1 DEF S, StepsFor, Step
  <2> DEFINE q == <<Step("read", control.parsed), Step("swap", control.prepared),
                    Step("confirm", control.prepared), Step("save", None)>>
  <2>3. q \in Seq(S) /\ q # <<>>
    BY <2>1, <2>2, <1>1, <1>3, <1>6
  <2>4. Plan(op, arg, control) = Rehydrate(control) \o q
    BY <1>13 DEF Plan
  <2> HIDE DEF q
  <2> QED BY <2>3, <2>4, <1>7, Joined DEF S
<1>14. CASE op = "create"
  <2>1. control.activation \in Receipts
    BY <1>14 DEF Asks, ControlOK, Control
  <2>2. Step("bind", control.activation) \in S
    BY <2>1 DEF S, StepsFor, Step
  <2>3. Plan(op, arg, control) = <<Step("see", None), Step("verify", control.activation),
                                   Step("bind", control.activation)>>
    BY <1>14 DEF Plan
  <2> QED BY <2>1, <2>2, <2>3, <1>1, <1>3 DEF S
<1>15. CASE op = "execute"
  <2>1. Bound(job) /\ control.activation = job.receipt
    BY <1>15 DEF Asks, Bound
  <2>2. Step("match", control.activation.id) \in S
    BY <2>1 DEF S, StepsFor, Step
  <2>3. Plan(op, arg, control) = <<Step("see", None), Step("match", control.activation.id)>>
    BY <1>15 DEF Plan
  <2> QED BY <2>2, <2>3, <1>1, <1>3 DEF S
<1> QED BY <1>9, <1>10, <1>11, <1>12, <1>13, <1>14, <1>15 DEF Requests

-----------------------------------------------------------------------------
(* What a step does to the calls *)

\* The job keeps its receipt.
JobGoesOn == JobOK(job') /\ (Bound(job) => Bound(job') /\ job'.receipt = job.receipt)

\* What the calls rely on stays, or no call can save any more.
LoadedStays == Live' => Live /\ UNCHANGED <<control, receipts>>

LEMMA StepsGrow ==
  ASSUME JobGoesOn
  PROVE  /\ StepsFor(job) \subseteq StepsFor(job')
         /\ CallsFor(job) \subseteq CallsFor(job')
         /\ \A c : CallOK(c, job) => CallOK(c, job')
<1>1. StepsFor(job) \subseteq StepsFor(job')
  <2>1. [do : {"match"}, on : {i \in {job.receipt.id} : Bound(job)}]
          \subseteq [do : {"match"}, on : {i \in {job'.receipt.id} : Bound(job')}]
    BY DEF JobGoesOn
  <2>2. [do : {"patch"}, on : {i \in {None} : Bound(job)}]
          \subseteq [do : {"patch"}, on : {i \in {None} : Bound(job')}]
    BY DEF JobGoesOn
  <2> QED BY <2>1, <2>2 DEF StepsFor
<1>2. Seq(StepsFor(job)) \subseteq Seq(StepsFor(job'))
  BY <1>1
<1>3. CallsFor(job) \subseteq CallsFor(job')
  BY <1>2 DEF CallsFor
<1> QED BY <1>1, <1>3 DEF CallOK, JobGoesOn

\* Idle is good in any state, and what is left of a call is a good call.
LEMMA IdleOK == ASSUME NEW j PROVE CallOK(Idle, j) /\ Idle.fresh = FALSE
<1>1. None \in Things /\ <<>> \in Seq(StepsFor(j))
  BY DEF Things
<1> QED BY <1>1 DEF Idle, CallOK, CallsFor, Ops

LEMMA MovedOK ==
  ASSUME NEW a \in Calls, NEW j, CallOK(call[a], j), call[a].todo # <<>>
  PROVE  /\ CallOK(Moved(a), j)
         /\ Moved(a).fresh => /\ call[a].fresh /\ Moved(a).op = call[a].op
                              /\ Moved(a).arg = call[a].arg
         /\ Moved(a).op = "none" \/ Moved(a).op = call[a].op
<1>1. CASE Len(call[a].todo) = 1
  BY <1>1, IdleOK DEF Moved, Idle
<1>2. CASE Len(call[a].todo) # 1
  <2> DEFINE q == call[a].todo
  <2>1. q \in Seq(StepsFor(j)) /\ Len(q) \in Nat /\ Len(q) # 0
    BY DEF CallOK, CallsFor
  <2>2. Tail(q) \in Seq(StepsFor(j)) /\ Len(Tail(q)) = Len(q) - 1
    BY <2>1
  <2>3. Tail(q) # <<>>
    <3>1. Len(Tail(q)) # 0
      BY <1>2, <2>1, <2>2
    <3>2. Len(<<>>) = 0
      OBVIOUS
    <3> HIDE DEF q
    <3> QED BY <3>1, <3>2
  <2>4. Moved(a) = [call[a] EXCEPT !.todo = Tail(q)]
    BY <1>2 DEF Moved
  <2> QED BY <2>2, <2>3, <2>4 DEF CallOK, CallsFor
<1> QED BY <1>1, <1>2

\* One call becomes c, the others stay as they are.
LEMMA OneCallChanges ==
  ASSUME DatasetInv, JobGoesOn, LoadedStays, NEW a \in Calls, NEW c,
         call' = [call EXCEPT ![a] = c], CallOK(c, job'),
         Live' /\ c.fresh => ArgOK(c, control', receipts')
  PROVE  CallsOK'
<1>1. call' \in [Calls -> CallsFor(job')]
  <2>1. call \in [Calls -> CallsFor(job')]
    BY StepsGrow DEF DatasetInv, CallsOK
  <2> QED BY <2>1 DEF CallOK
<1>2. ASSUME NEW b \in Calls PROVE CallOK(call'[b], job')
  BY <1>2, StepsGrow DEF DatasetInv, CallsOK
<1>3. ASSUME NEW b \in Calls, Live', call'[b].fresh
      PROVE  ArgOK(call'[b], control', receipts')
  <2>1. CASE b = a
    BY <1>3, <2>1 DEF DatasetInv, CallsOK
  <2>2. CASE b # a
    <3>1. call'[b] = call[b] /\ Live /\ control' = control /\ receipts' = receipts
      BY <1>3, <2>2 DEF DatasetInv, CallsOK, LoadedStays
    <3> QED BY <1>3, <3>1 DEF DatasetInv, CallsOK
  <2> QED BY <2>1, <2>2
<1> QED BY <1>1, <1>2, <1>3 DEF CallsOK

\* A call fails, or goes on with the next step.
LEMMA CallMoves ==
  ASSUME DatasetInv, JobGoesOn, LoadedStays, NEW a \in Calls,
         Fail(a) \/ (Advance(a) /\ call[a].todo # <<>>)
  PROVE  CallsOK'
<1>1. CASE Fail(a)
  <2>1. CallOK(Idle, job') /\ Idle.fresh = FALSE
    BY IdleOK
  <2> QED BY <1>1, <2>1, OneCallChanges DEF Fail
<1>2. CASE Advance(a) /\ call[a].todo # <<>>
  <2>1. CallOK(call[a], job')
    BY StepsGrow DEF DatasetInv, CallsOK
  <2>2. CallOK(Moved(a), job')
    BY <1>2, <2>1, MovedOK
  <2>3. Live' /\ Moved(a).fresh => ArgOK(Moved(a), control', receipts')
    <3> SUFFICES ASSUME Live', Moved(a).fresh PROVE ArgOK(Moved(a), control', receipts')
      OBVIOUS
    <3>1. call[a].fresh /\ Moved(a).op = call[a].op /\ Moved(a).arg = call[a].arg
      BY <1>2, <2>1, MovedOK
    <3>2. ArgOK(call[a], control, receipts) /\ control' = control /\ receipts' = receipts
      BY <3>1 DEF DatasetInv, CallsOK, LoadedStays
    <3> QED BY <3>1, <3>2 DEF ArgOK
  <2> QED BY <1>2, <2>2, <2>3, OneCallChanges DEF Advance
<1> QED BY <1>1, <1>2

\* No call may save what it has loaded any more.
LEMMA AllRevised ==
  ASSUME DatasetInv, JobGoesOn, NEW a \in Calls, NEW c, CallOK(c, job'),
         call' = [b \in Calls |-> IF b = a THEN c ELSE [call[b] EXCEPT !.fresh = FALSE]],
         c.fresh = FALSE \/ ~Live'
  PROVE  CallsOK'
<1>1. ASSUME NEW b \in Calls PROVE CallOK([call[b] EXCEPT !.fresh = FALSE], job')
  <2>1. CallOK(call[b], job')
    BY StepsGrow DEF DatasetInv, CallsOK
  <2> QED BY <2>1 DEF CallOK, CallsFor
<1>2. ASSUME NEW b \in Calls PROVE CallOK(call'[b], job')
  BY <1>1
<1>3. call' \in [Calls -> CallsFor(job')]
  BY <1>2 DEF CallOK
<1>4. ASSUME NEW b \in Calls, Live', call'[b].fresh
      PROVE  ArgOK(call'[b], control', receipts')
  <2>1. CASE b = a
    BY <1>4, <2>1
  <2>2. CASE b # a
    <3>1. CallOK(call[b], job)
      BY DEF DatasetInv, CallsOK
    <3>2. call'[b].fresh = FALSE
      BY <2>2, <3>1 DEF CallOK, CallsFor
    <3> QED BY <1>4, <3>2
  <2> QED BY <2>1, <2>2
<1> QED BY <1>2, <1>3, <1>4 DEF CallsOK

\* What a step is on.
LEMMA OnTypes ==
  ASSUME DatasetInv, NEW a \in Calls, call[a].todo # <<>>
  PROVE  /\ At(a, "put") => On(a) \in Bytes
         /\ At(a, "store") => On(a) \in Sheets
         /\ At(a, "keep") => On(a) \in Sheets
         /\ At(a, "swap") => On(a) \in Ids
         /\ At(a, "bind") => On(a) \in Receipts
         /\ At(a, "match") => Bound(job) /\ On(a) = job.receipt.id
         /\ At(a, "patch") => Bound(job)
<1>1. Head(call[a].todo) \in StepsFor(job)
  BY DEF DatasetInv, CallsOK, CallOK, CallsFor
<1> DEFINE s == Head(call[a].todo)
<1>2. s \in StepsFor(job)
  BY <1>1
<1> HIDE DEF s
<1>3. /\ s.do = "put" => s.on \in Bytes
      /\ s.do = "store" => s.on \in Sheets
      /\ s.do = "keep" => s.on \in Sheets
      /\ s.do = "swap" => s.on \in Ids
      /\ s.do = "bind" => s.on \in Receipts
      /\ s.do = "match" => Bound(job) /\ s.on = job.receipt.id
      /\ s.do = "patch" => Bound(job)
  BY <1>2 DEF StepsFor
<1> QED BY <1>3 DEF At, On, s

-----------------------------------------------------------------------------
(* Each action keeps the invariant *)

LEMMA BeginKeeps ==
  ASSUME DatasetInv, NEW a \in Calls, NEW op \in Requests, NEW arg \in Asks(op, control),
         Begin(a, op, arg)
  PROVE  DatasetInv'
<1> DEFINE c == [op |-> op, todo |-> Plan(op, arg, control), fresh |-> op \in Saving,
                 arg |-> IF op \in {"select", "map", "activate"} THEN arg ELSE None,
                 seen |-> None]
<1>1. UNCHANGED <<row, control, source, parsed, artifacts, receipts, job>>
  BY DEF Begin
<1>2. c.todo \in Seq(StepsFor(job)) /\ c.todo # <<>>
  BY PlanType DEF DatasetInv
<1>3. op = "activate" => arg \in Ids \cup {None}
  BY DEF Asks, DatasetInv, Data
<1>4. op = "select" => arg \in Sheets
  BY DEF Asks
<1>5. op = "map" => arg \in Mappings /\ control.parsed # None
  BY DEF Asks
<1>6. c.arg \in Things /\ c.seen \in Things
  BY <1>3, <1>4, <1>5 DEF Things
<1>7. CallOK(c, job)
  <2>1. c.op # "none" /\ c.op # "clear" /\ c.op \in Ops /\ c.fresh \in BOOLEAN
    BY DEF Requests, Ops
  <2>2. c \in CallsFor(job)
    BY <2>1, <1>2, <1>6 DEF CallsFor
  <2> QED BY <2>1, <2>2, <1>2 DEF CallOK
<1>8. ArgOK(c, control, receipts)
  <2>1. op = "preview" => control.mapping # None
    BY DEF Asks
  <2>2. op = "activate" => control.prepared # None /\ receipts < MaxReceipts
    BY DEF Asks
  <2> QED BY <2>1, <2>2, <1>4, <1>5 DEF ArgOK
<1>9. call' = [call EXCEPT ![a] = c]
  BY DEF Begin
<1> HIDE DEF c
<1>10. JobGoesOn /\ LoadedStays
  BY <1>1 DEF JobGoesOn, LoadedStays, DatasetInv, JobOK, Bound, Live
<1>11. CallsOK'
  BY <1>1, <1>7, <1>8, <1>9, <1>10, OneCallChanges
<1> QED BY <1>1, <1>11 DEF DatasetInv, Data, ControlOK, JobOK, Bound

\* A DELETE, or the deletion of an ended job's input.
LEMMA RemovalBegins ==
  ASSUME DatasetInv, NEW a \in Calls, Delete(a) \/ Clear(a)
  PROVE  DatasetInv'
<1>1. UNCHANGED <<row, control, source, parsed, artifacts, receipts, job>>
  BY DEF Delete, Clear
<1>2. PICK op \in {"delete", "clear"}, s \in {Step("list", None), Step("patch", None)} :
        /\ s = Step("patch", None) \/ op = "clear" => Bound(job)
        /\ call' = [call EXCEPT ![a] = [Idle EXCEPT !.op = op, !.todo = <<s>>]]
  BY DEF Delete, Clear, Clearing, Bound, Step
<1> DEFINE c == [Idle EXCEPT !.op = op, !.todo = <<s>>]
<1>3. CallOK(c, job)
  <2>1. s \in StepsFor(job)
    BY <1>2 DEF StepsFor, Step, Kinds, Things
  <2>2. <<s>> \in Seq(StepsFor(job)) /\ <<s>> # <<>>
    BY <2>1
  <2>3. None \in Things
    BY DEF Things
  <2> QED BY <1>2, <2>2, <2>3 DEF CallOK, CallsFor, Idle, Ops
<1>4. c.fresh = FALSE
  BY DEF Idle
<1>5. call' = [call EXCEPT ![a] = c]
  BY <1>2
<1> HIDE DEF c
<1>6. JobGoesOn /\ LoadedStays
  BY <1>1 DEF JobGoesOn, LoadedStays, DatasetInv, JobOK, Bound, Live
<1>7. CallsOK'
  BY <1>1, <1>3, <1>4, <1>5, <1>6, OneCallChanges
<1> QED BY <1>1, <1>7 DEF DatasetInv, Data, ControlOK, JobOK, Bound

LEMMA AtHasStep == ASSUME NEW a, NEW d, At(a, d) PROVE call[a].todo # <<>>
BY DEF At

\* The steps on objects and artifact rows.
LEMMA ObjectStepKeeps ==
  ASSUME DatasetInv, NEW a \in Calls,
         \/ PutSource(a) \/ StageUpload(a) \/ KeepArtifact(a) \/ ReadArtifact(a)
         \/ StoreParsed(a) \/ EraseOwned(a) \/ ProbeOwned(a)
  PROVE  DatasetInv'
<1>1. UNCHANGED <<row, control, receipts, job>>
  BY DEF PutSource, StageUpload, KeepArtifact, ReadArtifact, StoreParsed, EraseOwned, ProbeOwned
<1>2. call[a].todo # <<>> /\ (Fail(a) \/ Advance(a))
  BY DEF PutSource, StageUpload, KeepArtifact, ReadArtifact, StoreParsed, EraseOwned, ProbeOwned,
         Check, At
<1>3. JobGoesOn /\ LoadedStays
  BY <1>1 DEF JobGoesOn, LoadedStays, DatasetInv, JobOK, Bound, Live
<1>4. CallsOK'
  BY <1>2, <1>3, CallMoves
<1>5. source' \in Bytes \cup {None}
  BY <1>2, OnTypes DEF DatasetInv, Data, PutSource, StageUpload, KeepArtifact, ReadArtifact,
     StoreParsed, EraseOwned, ProbeOwned, EraseObject
<1>6. parsed' \subseteq Sheets
  BY <1>2, OnTypes DEF DatasetInv, Data, PutSource, StageUpload, KeepArtifact, ReadArtifact,
     StoreParsed, EraseOwned, ProbeOwned, EraseObject
<1>7. artifacts' \subseteq {Source} \cup Sheets
  BY <1>2, OnTypes DEF DatasetInv, Data, PutSource, StageUpload, KeepArtifact, ReadArtifact,
     StoreParsed, EraseOwned, ProbeOwned
<1> QED BY <1>1, <1>4, <1>5, <1>6, <1>7 DEF DatasetInv, Data, ControlOK, JobOK, Bound

LEMMA ActivateAtomicKeeps ==
  ASSUME DatasetInv, NEW a \in Calls, ActivateAtomic(a) PROVE DatasetInv'
<1>1. UNCHANGED <<control, source, parsed, artifacts, receipts, job>>
  BY DEF ActivateAtomic
<1>2. call[a].todo # <<>> /\ (Fail(a) \/ Advance(a))
  BY DEF ActivateAtomic, Check, At
<1>3. On(a) \in Ids
  BY <1>2, OnTypes DEF ActivateAtomic
<1>4. row' = row \/ (Live /\ row' = [row EXCEPT !.active = On(a)])
  BY DEF ActivateAtomic
<1>5. row' \in [deleted : BOOLEAN, expired : BOOLEAN, active : Ids \cup {None}]
      /\ row'.deleted = row.deleted /\ row'.expired = row.expired
  BY <1>3, <1>4 DEF DatasetInv, Data
<1>6. row'.deleted => row' = row
  BY <1>4, <1>5 DEF Live
<1>7. JobGoesOn /\ LoadedStays
  BY <1>1, <1>5 DEF JobGoesOn, LoadedStays, DatasetInv, JobOK, Bound, Live
<1>8. CallsOK'
  BY <1>2, <1>7, CallMoves
<1> QED BY <1>1, <1>5, <1>6, <1>8 DEF DatasetInv, Data, ControlOK, JobOK, Bound

LEMMA CheckStepKeeps ==
  ASSUME DatasetInv, NEW a \in Calls, ConfirmActive(a) \/ VerifyReceipt(a) PROVE DatasetInv'
<1>1. UNCHANGED <<row, control, source, parsed, artifacts, receipts, job>>
  BY DEF ConfirmActive, VerifyReceipt
<1>2. call[a].todo # <<>> /\ (Fail(a) \/ Advance(a))
  BY DEF ConfirmActive, VerifyReceipt, Check, At
<1>3. JobGoesOn /\ LoadedStays
  BY <1>1 DEF JobGoesOn, LoadedStays, DatasetInv, JobOK, Bound, Live
<1>4. CallsOK'
  BY <1>2, <1>3, CallMoves
<1> QED BY <1>1, <1>4 DEF DatasetInv, Data, ControlOK, JobOK, Bound

\* The control state a call stores is a good one, and keeps what it builds on.
LEMMA SavedOK ==
  ASSUME DatasetInv, NEW a \in Calls, Live, call[a].fresh,
         call[a].op = "activate" => receipts + 1 \in 1..MaxReceipts
  PROVE  ControlOK(Saved(call[a].op, call[a].arg))
<1> DEFINE op == call[a].op
           arg == call[a].arg
<1>1. ArgOK(call[a], control, receipts) /\ ControlOK(control)
  BY DEF DatasetInv, CallsOK
<1>2. control \in Control
  BY <1>1 DEF ControlOK
<1>3. CASE op = "upload"
  BY <1>3 DEF Saved, ControlOK, Control, Empty
<1>4. CASE op = "select"
  <2>1. arg \in Sheets
    BY <1>1, <1>4 DEF ArgOK
  <2> QED BY <1>2, <1>4, <2>1 DEF Saved, ControlOK, Control
<1>5. CASE op = "map"
  <2>1. arg \in Mappings /\ control.parsed # None
    BY <1>1, <1>5 DEF ArgOK
  <2> QED BY <1>2, <1>5, <2>1 DEF Saved, ControlOK, Control
<1>6. CASE op = "preview"
  <2>1. control.mapping # None /\ control.parsed # None
    BY <1>1, <1>6 DEF ArgOK, ControlOK
  <2>2. <<control.parsed, control.mapping>> \in Ids
    BY <1>2, <2>1 DEF Control, Ids
  <2>3. Saved(op, arg) = [control EXCEPT !.prepared = <<control.parsed, control.mapping>>]
    BY <1>6 DEF Saved
  <2> QED BY <1>1, <1>2, <2>1, <2>2, <2>3 DEF ControlOK, Control
<1>7. CASE op = "activate"
  <2>1. control.prepared # None /\ control.prepared \in Ids
    BY <1>1, <1>2, <1>7 DEF ArgOK, Control
  <2> DEFINE r == [id |-> control.prepared, n |-> receipts + 1]
  <2>2. r \in Receipts
    BY <1>7, <2>1 DEF Receipts
  <2>3. Saved(op, arg) = [control EXCEPT !.activation = r]
    BY <1>7 DEF Saved
  <2>4. r.id = control.prepared
    OBVIOUS
  <2> HIDE DEF r
  <2> QED BY <1>1, <1>2, <2>1, <2>2, <2>3, <2>4 DEF ControlOK, Control
<1>8. op \in Saving
  BY DEF DatasetInv, CallsOK, CallOK
<1> QED BY <1>3, <1>4, <1>5, <1>6, <1>7, <1>8 DEF Saving

LEMMA SaveKeeps ==
  ASSUME DatasetInv, NEW a \in Calls, Save(a) PROVE DatasetInv'
<1>1. UNCHANGED <<row, source, parsed, artifacts, job>> /\ call[a].todo # <<>>
  BY DEF Save, At
<1>2. JobGoesOn
  BY <1>1 DEF JobGoesOn, DatasetInv, JobOK, Bound
<1>3. CASE ~(Live /\ call[a].fresh)
  <2>1. UNCHANGED <<control, receipts>> /\ Fail(a)
    BY <1>3 DEF Save
  <2>2. LoadedStays
    BY <1>1, <2>1 DEF LoadedStays, Live
  <2>3. CallsOK'
    BY <1>2, <2>1, <2>2, CallMoves
  <2> QED BY <1>1, <2>1, <2>3 DEF DatasetInv, Data, ControlOK, JobOK, Bound
<1>4. CASE Live /\ call[a].fresh
  <2>1. /\ control' = Saved(call[a].op, call[a].arg)
        /\ receipts' = IF call[a].op = "activate" THEN receipts + 1 ELSE receipts
        /\ Revised(a)
    BY <1>4 DEF Save
  <2>2. ArgOK(call[a], control, receipts) /\ CallOK(call[a], job) /\ receipts \in 0..MaxReceipts
    BY <1>4 DEF DatasetInv, CallsOK, Data
  <2>3. MaxReceipts \in Nat
    BY DatasetAssumption DEF DatasetAssumption
  <2>4. receipts' \in 0..MaxReceipts
        /\ (call[a].op = "activate" => receipts + 1 \in 1..MaxReceipts)
    BY <2>1, <2>2, <2>3 DEF ArgOK
  <2>5. ControlOK(control')
    BY <1>4, <2>1, <2>2, <2>4, SavedOK DEF CallOK
  <2>6. CallOK(Idle, job') /\ Idle.fresh = FALSE
    BY IdleOK
  <2>7. CallsOK'
    BY <1>2, <2>1, <2>6, AllRevised DEF Revised
  <2>8. ~row.deleted
    BY <1>4 DEF Live
  <2> QED BY <1>1, <2>4, <2>5, <2>7, <2>8 DEF DatasetInv, Data, ControlOK, JobOK, Bound
<1> QED BY <1>3, <1>4

LEMMA SeeActiveKeeps ==
  ASSUME DatasetInv, NEW a \in Calls, SeeActive(a) PROVE DatasetInv'
<1>1. UNCHANGED <<row, control, source, parsed, artifacts, receipts, job>>
      /\ call[a].todo # <<>>
  BY DEF SeeActive, At
<1>2. JobGoesOn /\ LoadedStays
  BY <1>1 DEF JobGoesOn, LoadedStays, DatasetInv, JobOK, Bound, Live
<1>3. CASE Fail(a)
  <2>1. CallsOK'
    BY <1>2, <1>3, CallMoves
  <2> QED BY <1>1, <2>1 DEF DatasetInv, Data, ControlOK, JobOK, Bound
<1>4. CASE call' = [call EXCEPT ![a] = [Moved(a) EXCEPT !.seen = row.active]]
  <2> DEFINE c == [Moved(a) EXCEPT !.seen = row.active]
  <2>1. CallOK(call[a], job)
    BY DEF DatasetInv, CallsOK
  <2>2. CallOK(Moved(a), job) /\ CallOK(Moved(a), job')
    BY <1>1, <2>1, MovedOK
  <2>3. row.active \in Things
    BY DEF DatasetInv, Data, Things
  <2>4. CallOK(c, job')
    BY <2>2, <2>3 DEF CallOK, CallsFor
  <2>5. c.op = Moved(a).op /\ c.arg = Moved(a).arg /\ c.fresh = Moved(a).fresh
    BY <2>2 DEF CallOK, CallsFor
  <2>6. Live' /\ c.fresh => ArgOK(c, control', receipts')
    <3> SUFFICES ASSUME Live', c.fresh PROVE ArgOK(c, control', receipts')
      OBVIOUS
    <3>1. call[a].fresh /\ c.op = call[a].op /\ c.arg = call[a].arg
      BY <1>1, <2>1, <2>5, MovedOK
    <3>2. ArgOK(call[a], control, receipts)
      BY <1>1, <3>1 DEF DatasetInv, CallsOK, Live
    <3> QED BY <1>1, <3>1, <3>2 DEF ArgOK
  <2>7. call' = [call EXCEPT ![a] = c]
    BY <1>4
  <2> HIDE DEF c
  <2>8. CallsOK'
    BY <1>2, <2>4, <2>6, <2>7, OneCallChanges
  <2> QED BY <1>1, <2>8 DEF DatasetInv, Data, ControlOK, JobOK, Bound
<1> QED BY <1>3, <1>4 DEF SeeActive

\* The steps on the job: its receipt is written once, its input by a match on
\* that receipt.
LEMMA JobStepKeeps ==
  ASSUME DatasetInv, NEW a \in Calls, BindJob(a) \/ MatchExecution(a) \/ PatchJob(a)
  PROVE  DatasetInv'
<1>1. UNCHANGED <<row, control, source, parsed, artifacts, receipts>> /\ Advance(a)
      /\ call[a].todo # <<>>
  BY DEF BindJob, MatchExecution, PatchJob, At
<1>2. JobOK(job)
  BY DEF DatasetInv
<1>3. JobGoesOn
  <2>1. CASE BindJob(a)
    <3>1. On(a) \in Receipts
      BY <1>1, <2>1, OnTypes DEF BindJob
    <3>2. job' = job \/ (job.st = "none" /\ job' = [job EXCEPT !.receipt = On(a), !.st = "bound"])
      BY <2>1 DEF BindJob
    <3> QED BY <1>2, <3>1, <3>2 DEF JobGoesOn, JobOK, Bound
  <2>2. CASE MatchExecution(a)
    <3>1. Bound(job) /\ On(a) = job.receipt.id
      BY <1>1, <2>2, OnTypes DEF MatchExecution
    <3>2. job' = job \/ job' = [job EXCEPT !.input = On(a)]
      BY <2>2 DEF MatchExecution
    <3>3. On(a) \in Ids
      BY <1>2, <3>1 DEF JobOK, Receipts
    <3> QED BY <1>2, <3>1, <3>2, <3>3 DEF JobGoesOn, JobOK, Bound
  <2>3. CASE PatchJob(a)
    <3>1. Bound(job)
      BY <1>1, <2>3, OnTypes DEF PatchJob
    <3>2. job' = [job EXCEPT !.st = "cleared"]
      BY <2>3 DEF PatchJob
    <3> QED BY <1>2, <3>1, <3>2 DEF JobGoesOn, JobOK, Bound
  <2> QED BY <2>1, <2>2, <2>3
<1>4. LoadedStays
  BY <1>1 DEF LoadedStays, Live
<1>5. CallsOK'
  BY <1>1, <1>3, <1>4, CallMoves
<1> QED BY <1>1, <1>3, <1>5 DEF DatasetInv, Data, ControlOK, JobGoesOn

LEMMA ListOwnedKeeps ==
  ASSUME DatasetInv, NEW a \in Calls, ListOwned(a) PROVE DatasetInv'
<1> DEFINE S == StepsFor(job)
           erase == EraseSteps(<<Source>> \o SetToSeq(artifacts \cap Sheets))
           patch == IF call[a].op = "clear" THEN <<Step("patch", None)>> ELSE <<>>
           q == erase \o <<Step("mark", None)>> \o patch
           c == [call[a] EXCEPT !.todo = q]
<1>1. UNCHANGED <<row, control, source, parsed, artifacts, receipts, job>>
      /\ call[a].todo # <<>>
  BY DEF ListOwned, At
<1>2. CallOK(call[a], job)
  BY DEF DatasetInv, CallsOK
<1>3. erase \in Seq(S)
  <2>1. SetToSeq(artifacts \cap Sheets) \in Seq(Things)
    <3>1. SetToSeq(artifacts \cap Sheets) \in Seq(artifacts \cap Sheets)
      BY SheetSequence
    <3>2. artifacts \cap Sheets \subseteq Things
      BY DEF Things
    <3> QED BY <3>1, <3>2
  <2>2. <<Source>> \in Seq(Things)
    BY DEF Things
  <2>3. <<Source>> \o SetToSeq(artifacts \cap Sheets) \in Seq(Things)
    BY <2>1, <2>2, Joined
  <2> QED BY <2>3, EraseStepsType
<1>4. patch \in Seq(S)
  <2>1. CASE call[a].op = "clear"
    <3>1. Step("patch", None) \in S
      BY <1>2, <2>1 DEF CallOK, StepsFor, Step
    <3> QED BY <2>1, <3>1
  <2>2. CASE call[a].op # "clear"
    BY <2>2
  <2> QED BY <2>1, <2>2
<1>5. <<Step("mark", None)>> \in Seq(S) /\ <<Step("mark", None)>> # <<>>
  <2>1. Step("mark", None) \in S
    BY DEF StepsFor, Step, Kinds, Things
  <2> QED BY <2>1
<1> HIDE DEF S, erase, patch
<1>6. q \in Seq(S) /\ q # <<>>
  BY <1>3, <1>4, <1>5, Joined
<1>7. call' = [call EXCEPT ![a] = c]
  BY DEF ListOwned, erase, patch, DatasetInv, CallsOK
<1> HIDE DEF q
<1>8. CallOK(c, job')
  BY <1>1, <1>2, <1>6 DEF CallOK, CallsFor, S
<1>9. c.fresh = call[a].fresh /\ c.op = call[a].op /\ c.arg = call[a].arg
  BY <1>2 DEF CallOK, CallsFor
<1> HIDE DEF c
<1>10. JobGoesOn /\ LoadedStays
  BY <1>1 DEF JobGoesOn, LoadedStays, DatasetInv, JobOK, Bound, Live
<1>11. Live' /\ c.fresh => ArgOK(c, control', receipts')
  BY <1>1, <1>9 DEF DatasetInv, CallsOK, ArgOK, Live
<1>12. CallsOK'
  BY <1>7, <1>8, <1>10, <1>11, OneCallChanges
<1> QED BY <1>1, <1>12 DEF DatasetInv, Data, ControlOK, JobOK, Bound

LEMMA EmptyOK == ControlOK(Empty)
BY DEF ControlOK, Empty, Control

LEMMA MarkDeletedKeeps ==
  ASSUME DatasetInv, NEW a \in Calls, MarkDeleted(a) PROVE DatasetInv'
<1>1. UNCHANGED <<source, parsed, receipts, job>> /\ call[a].todo # <<>>
      /\ artifacts' = {} /\ control' = Empty
      /\ row' = [row EXCEPT !.deleted = TRUE, !.active = None]
  BY DEF MarkDeleted, At
<1>2. row' \in [deleted : BOOLEAN, expired : BOOLEAN, active : Ids \cup {None}]
      /\ row'.deleted /\ row'.active = None
  BY <1>1 DEF DatasetInv, Data
<1>3. JobGoesOn
  BY <1>1 DEF JobGoesOn, DatasetInv, JobOK, Bound
<1>4. CallOK(Moved(a), job')
  BY <1>1, MovedOK DEF DatasetInv, CallsOK
<1>5. ~Live'
  BY <1>2 DEF Live
<1>6. CallsOK'
  BY <1>3, <1>4, <1>5, AllRevised DEF MarkDeleted
<1> QED BY <1>1, <1>2, <1>3, <1>6, EmptyOK DEF DatasetInv, Data, JobGoesOn

LEMMA EnvironmentKeeps ==
  ASSUME DatasetInv,
         \/ Expire \/ JobEnds \/ \E o \in {Source} \cup Sheets : Retain(o)
         \/ \E a \in Calls : Abandon(a)
  PROVE  DatasetInv'
<1>1. CASE Expire
  <2>1. row' \in [deleted : BOOLEAN, expired : BOOLEAN, active : Ids \cup {None}]
        /\ row'.expired /\ row'.active = None
    BY <1>1 DEF Expire, DatasetInv, Data
  <2>2. UNCHANGED <<source, parsed, artifacts, receipts, call>> /\ control' = Empty
    BY <1>1 DEF Expire
  <2>3. job' = job \/ (job' = [job EXCEPT !.st = "ended"] /\ Bound(job))
    BY <1>1 DEF Expire, Bound
  <2>4. JobGoesOn
    BY <2>3 DEF JobGoesOn, DatasetInv, JobOK, Bound
  <2>5. ~Live'
    BY <2>1 DEF Live
  <2>6. CallsOK'
    BY <2>2, <2>4, <2>5, StepsGrow DEF DatasetInv, CallsOK
  <2> QED BY <2>1, <2>2, <2>4, <2>6, EmptyOK DEF DatasetInv, Data, JobGoesOn
<1>2. CASE JobEnds
  <2>1. UNCHANGED <<row, control, source, parsed, artifacts, receipts, call>>
        /\ job' = [job EXCEPT !.st = "ended"] /\ Bound(job)
    BY <1>2 DEF JobEnds, Bound
  <2>2. JobGoesOn
    BY <2>1 DEF JobGoesOn, DatasetInv, JobOK, Bound
  <2>3. CallsOK'
    BY <2>1, <2>2, StepsGrow DEF DatasetInv, CallsOK, Live
  <2> QED BY <2>1, <2>2, <2>3 DEF DatasetInv, Data, ControlOK, JobGoesOn
<1>3. ASSUME NEW o \in {Source} \cup Sheets, Retain(o) PROVE DatasetInv'
  <2>1. UNCHANGED <<row, control, artifacts, receipts, job, call>>
    BY <1>3 DEF Retain
  <2>2. source' \in Bytes \cup {None} /\ parsed' \subseteq Sheets
    BY <1>3 DEF Retain, EraseObject, DatasetInv, Data
  <2> QED BY <2>1, <2>2 DEF DatasetInv, Data, ControlOK, JobOK, Bound, CallsOK, Live, CallOK
<1>4. ASSUME NEW a \in Calls, Abandon(a) PROVE DatasetInv'
  <2>1. UNCHANGED <<row, control, source, parsed, artifacts, receipts, job>> /\ Fail(a)
    BY <1>4 DEF Abandon
  <2>2. JobGoesOn /\ LoadedStays
    BY <2>1 DEF JobGoesOn, LoadedStays, DatasetInv, JobOK, Bound, Live
  <2>3. CallsOK'
    BY <2>1, <2>2, CallMoves
  <2> QED BY <2>1, <2>3 DEF DatasetInv, Data, ControlOK, JobOK, Bound
<1> QED BY <1>1, <1>2, <1>3, <1>4

LEMMA WorkKeeps ==
  ASSUME DatasetInv, NEW a \in Calls, Work(a) PROVE DatasetInv'
BY ObjectStepKeeps, ActivateAtomicKeeps, CheckStepKeeps, SaveKeeps, SeeActiveKeeps, JobStepKeeps,
   ListOwnedKeeps, MarkDeletedKeeps DEF Work

-----------------------------------------------------------------------------
(* The theorems *)

LEMMA DatasetInvariant == Spec => []DatasetInv
<1>1. Init => DatasetInv
  <2> SUFFICES ASSUME Init PROVE DatasetInv
    OBVIOUS
  <2>1. Data
    BY DatasetAssumption DEF Init, Data, DatasetAssumption
  <2>2. ControlOK(control)
    BY EmptyOK DEF Init
  <2>3. JobOK(job)
    BY DEF Init, JobOK, Bound
  <2>4. CallOK(Idle, job) /\ Idle.fresh = FALSE
    BY IdleOK
  <2>5. CallsOK
    BY <2>4 DEF Init, CallsOK, CallOK
  <2> QED BY <2>1, <2>2, <2>3, <2>5 DEF DatasetInv
<1>2. DatasetInv /\ [Next]_vars => DatasetInv'
  <2> SUFFICES ASSUME DatasetInv, [Next]_vars PROVE DatasetInv'
    OBVIOUS
  <2>1. ASSUME NEW a \in Calls, NEW op \in Offered(a), NEW arg \in Asks(op, control),
               Begin(a, op, arg)
        PROVE  DatasetInv'
    <3>1. op \in Requests \/ Asks(op, control) = {}
      BY DEF Asks, Requests
    <3> QED BY <2>1, <3>1, BeginKeeps
  <2>2. ASSUME NEW a \in Calls, Delete(a) \/ Clear(a) PROVE DatasetInv'
    BY <2>2, RemovalBegins
  <2>3. ASSUME NEW a \in Calls, Work(a) PROVE DatasetInv'
    BY <2>3, WorkKeeps
  <2>4. ASSUME \/ Expire \/ JobEnds \/ \E o \in {Source} \cup Sheets : Retain(o)
               \/ \E a \in Calls : Abandon(a)
        PROVE  DatasetInv'
    BY <2>4, EnvironmentKeeps
  <2>5. CASE UNCHANGED vars
    BY <2>5 DEF vars, DatasetInv, Data, ControlOK, JobOK, Bound, CallsOK, CallOK, Live
  <2>6. Steady \subseteq Calls
    BY DatasetAssumption DEF DatasetAssumption
  <2> QED BY <2>1, <2>2, <2>3, <2>4, <2>5, <2>6 DEF Next
<1> QED BY <1>1, <1>2, PTL DEF Spec

\* Types of rows, objects, receipts and calls; an activation that is stored is
\* always that of the prepared dataset, which is the mapped one, whatever call
\* was overtaken.
THEOREM DatasetTypes == Spec => []TypeOK
<1>1. DatasetInv => TypeOK
  <2> SUFFICES ASSUME DatasetInv PROVE TypeOK
    OBVIOUS
  <2>1. ASSUME NEW a \in Calls
        PROVE  /\ \A i \in 1..Len(call[a].todo) : call[a].todo[i].do \in Kinds
               /\ call[a].op = "none" <=> call[a].todo = <<>>
    <3>1. CallOK(call[a], job)
      BY DEF DatasetInv, CallsOK
    <3>2. call[a].todo \in Seq(StepsFor(job))
      BY <3>1 DEF CallOK, CallsFor
    <3>3. \A s \in StepsFor(job) : s.do \in Kinds
      BY DEF StepsFor, Kinds
    <3>4. \A i \in 1..Len(call[a].todo) : call[a].todo[i] \in StepsFor(job)
      BY <3>2
    <3> QED BY <3>1, <3>3, <3>4 DEF CallOK
  <2> QED BY <2>1 DEF DatasetInv, Data, ControlOK, JobOK, TypeOK
<1> QED BY <1>1, DatasetInvariant, PTL

\* A job runs only on the dataset its receipt names, however many calls replace
\* the active record, the mapping or the session between the reads.
THEOREM JobsRunOnTheirReceipt == Spec => []ExecutionUsesItsReceipt
<1>1. DatasetInv => ExecutionUsesItsReceipt
  BY DEF DatasetInv, JobOK, ExecutionUsesItsReceipt
<1> QED BY <1>1, DatasetInvariant, PTL
=============================================================================
