------------------------ MODULE RequestObjects_proofs ------------------------
(***************************************************************************)
(* The registered request object survives every losing create and is the   *)
(* only one left, for any number of callers and requests.  The argument: a *)
(* registration is never replaced by another one, so whoever is about to   *)
(* remove a candidate removes one that can never be registered; and every  *)
(* other object has a caller that still has to decide about it.            *)
(***************************************************************************)
EXTENDS RequestObjects, TLAPS

\* The row is written once; only a registered task is deleted.
RowInv ==
  /\ row.state = "none" <=> row.req = NoRequest
  /\ erase # "idle" => row.state = "deleting"

\* Until some request is registered each candidate is stored; one that has
\* lost against a registration has another key.
CallerInv(c) ==
  /\ caller[c].pc # "idle" => caller[c].req \in Requests
  /\ caller[c].pc = "insert" /\ row.state = "none" => caller[c].req \in objects
  /\ caller[c].pc \in {"reread", "remove"} =>
       row.state # "none" /\ row.req # caller[c].req

Undecided(c, q) ==
  caller[c].req = q /\ caller[c].pc \in {"insert", "reread", "remove"}

ObjectsInv ==
  ~died => \A q \in objects : q = row.req \/ \E c \in Callers : Undecided(c, q)

RequestInv ==
  /\ TypeOK /\ RowInv
  /\ \A c \in Callers : CallerInv(c)
  /\ ObjectsInv
  /\ RegisteredRequestPresent

-----------------------------------------------------------------------------

LEMMA InitRequest == Init => RequestInv
<1> SUFFICES ASSUME Init PROVE RequestInv
  OBVIOUS
<1> USE RequestAssumption DEF Init, NoRow, IdleCaller
<1>1. TypeOK
  BY DEF TypeOK
<1>2. RowInv /\ ObjectsInv /\ RegisteredRequestPresent
  BY DEF RowInv, ObjectsInv, RegisteredRequestPresent
<1>3. \A c \in Callers : CallerInv(c)
  BY DEF CallerInv
<1> QED BY <1>1, <1>2, <1>3 DEF RequestInv

LEMMA NoRowIsUnregistered ==
  ASSUME TypeOK, RowInv PROVE row = NoRow <=> row.state = "none"
  BY DEF TypeOK, RowInv, NoRow

CallerStep(c) ==
  \/ \E q \in Requests : Lookup(c, q)
  \/ Put(c) \/ Register(c) \/ Replay(c) \/ Lose(c) \/ Reread(c) \/ Remove(c) \/ Die(c)

DeletionStep == Delete \/ EraseRequest \/ CompleteDeletion

\* A caller's step keeps the type, the row's shape and the other callers.
LEMMA CallerKeepsType ==
  ASSUME RequestInv, NEW c \in Callers, CallerStep(c)
  PROVE  TypeOK'
<1> USE RequestAssumption DEF RequestInv, TypeOK, CallerInv, IdleCaller
<1>1. ASSUME NEW q \in Requests, Lookup(c, q) PROVE TypeOK'
  BY <1>1 DEF Lookup
<1>2. CASE Put(c)
  <2>1. caller[c].req \in Requests /\ caller[c] \in [pc : {"idle", "put", "insert", "reread", "remove"},
                                                   req : Requests \cup {NoRequest}, created : BOOLEAN]
    BY <1>2 DEF Put
  <2> QED BY <1>2, <2>1 DEF Put
<1>3. CASE Register(c)
  BY <1>3 DEF Register, NoRow
<1>4. CASE Replay(c)
  BY <1>4 DEF Replay
<1>5. CASE Lose(c)
  BY <1>5 DEF Lose
<1>6. CASE Reread(c)
  BY <1>6 DEF Reread
<1>7. CASE Remove(c)
  BY <1>7 DEF Remove
<1>8. CASE Die(c)
  BY <1>8 DEF Die
<1> QED BY <1>1, <1>2, <1>3, <1>4, <1>5, <1>6, <1>7, <1>8 DEF CallerStep

LEMMA CallerKeepsRest ==
  ASSUME RequestInv, NEW c \in Callers, CallerStep(c)
  PROVE  /\ RowInv' /\ RegisteredRequestPresent' /\ ObjectsInv'
         /\ \A d \in Callers : CallerInv(d)'
<1> USE RequestAssumption, NoRowIsUnregistered
    DEF RequestInv, TypeOK, RowInv, CallerInv, RegisteredRequestPresent, ObjectsInv,
        Undecided, IdleCaller
<1>1. ASSUME NEW q \in Requests, Lookup(c, q)
      PROVE  RowInv' /\ RegisteredRequestPresent' /\ ObjectsInv' /\ \A d \in Callers : CallerInv(d)'
  BY <1>1 DEF Lookup
<1>2. CASE Put(c)
  BY <1>2 DEF Put
<1>3. CASE Register(c)
  BY <1>3 DEF Register, NoRow
<1>4. CASE Replay(c)
  BY <1>4 DEF Replay
<1>5. CASE Lose(c)
  BY <1>5 DEF Lose
<1>6. CASE Reread(c)
  BY <1>6 DEF Reread
<1>7. CASE Remove(c)
  BY <1>7 DEF Remove
<1>8. CASE Die(c)
  BY <1>8 DEF Die
<1> QED BY <1>1, <1>2, <1>3, <1>4, <1>5, <1>6, <1>7, <1>8 DEF CallerStep

LEMMA DeletionKeepsRequest ==
  ASSUME RequestInv, DeletionStep PROVE RequestInv'
<1> USE RequestAssumption
    DEF RequestInv, TypeOK, RowInv, CallerInv, RegisteredRequestPresent, ObjectsInv,
        Undecided
<1>1. CASE Delete
  BY <1>1 DEF Delete
<1>2. CASE EraseRequest
  BY <1>2 DEF EraseRequest
<1>3. CASE CompleteDeletion
  BY <1>3 DEF CompleteDeletion
<1> QED BY <1>1, <1>2, <1>3 DEF DeletionStep

LEMMA NextKeepsRequest == RequestInv /\ [Next]_vars => RequestInv'
<1> SUFFICES ASSUME RequestInv, [Next]_vars PROVE RequestInv'
  OBVIOUS
<1>1. ASSUME NEW c \in Callers, CallerStep(c) PROVE RequestInv'
  BY <1>1, CallerKeepsType, CallerKeepsRest DEF RequestInv
<1>2. CASE DeletionStep
  BY <1>2, DeletionKeepsRequest
<1>3. CASE UNCHANGED vars
  BY <1>3 DEF vars, RequestInv, TypeOK, RowInv, CallerInv, ObjectsInv, Undecided,
     RegisteredRequestPresent
<1> QED BY <1>1, <1>2, <1>3 DEF Next, CallerStep, DeletionStep

LEMMA RequestInvariant == Spec => []RequestInv
  BY InitRequest, NextKeepsRequest, PTL DEF Spec

\* The row, the callers and the deletion keep their types.
THEOREM RequestTypes == Spec => []TypeOK
<1>1. RequestInv => TypeOK
  BY DEF RequestInv
<1> QED BY <1>1, RequestInvariant, PTL

\* The request object of a registered task stays until its deletion, however
\* many creates of however many requests lose against it.
THEOREM RegisteredStays == Spec => []RegisteredRequestPresent
<1>1. RequestInv => RegisteredRequestPresent
  BY DEF RequestInv
<1> QED BY <1>1, RequestInvariant, PTL

\* Once every create has returned, no object but the registered one is left.
THEOREM OnlyRegisteredLeft == Spec => []OnlyAuthoritativeRequestKept
<1>1. RequestInv => OnlyAuthoritativeRequestKept
  BY DEF RequestInv, ObjectsInv, Undecided, OnlyAuthoritativeRequestKept
<1> QED BY <1>1, RequestInvariant, PTL
=============================================================================
