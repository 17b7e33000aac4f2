--------------------------- MODULE RequestObjects ---------------------------
(***************************************************************************)
(* The request object of one task identifier: createTask writes it before  *)
(* it registers the task row, a create that loses the row to a different   *)
(* request removes the object it wrote (#deleteUnregisteredRequestObject), *)
(* and #completeDeletion removes the registered one.  Callers, requests    *)
(* and the deletion interleave at every await.  Everything else a task     *)
(* does between its creation and its deletion is module ComputeServiceCore; *)
(* here the row is live until deletion.                                    *)
(***************************************************************************)
EXTENDS FiniteSets

CONSTANTS
  Callers,    \* concurrent createTask calls
  Requests,   \* distinct requests for the identifier, one object key each
  NoRequest,  \* stands for the absence of a request
  Deaths      \* may a caller die between two steps?

ASSUME RequestAssumption == NoRequest \notin Requests /\ Deaths \in BOOLEAN

VARIABLES
  row,      \* the registered request and the stage of its life
  objects,  \* request objects in the store
  caller,   \* each caller's progress
  erase,    \* the progress of #completeDeletion
  died      \* a caller died with its work half done

vars == <<row, objects, caller, erase, died>>

NoRow == [req |-> NoRequest, state |-> "none"]
IdleCaller == [pc |-> "idle", req |-> NoRequest, created |-> FALSE]

TypeOK ==
  /\ row \in [req : Requests \cup {NoRequest},
              state : {"none", "live", "deleting", "deleted"}]
  /\ objects \in SUBSET Requests
  /\ caller \in [Callers -> [pc : {"idle", "put", "insert", "reread", "remove"},
                             req : Requests \cup {NoRequest},
                             created : BOOLEAN]]
  /\ erase \in {"idle", "erasing", "verifying"}
  /\ died \in BOOLEAN

Init ==
  /\ row = NoRow
  /\ objects = {}
  /\ caller = [c \in Callers |-> IdleCaller]
  /\ erase = "idle"
  /\ died = FALSE

\* The first read: an unused identifier goes on, a replay returns the row and
\* another request is a conflict; neither changes anything.
Lookup(c, q) ==
  /\ caller[c].pc = "idle"
  /\ row = NoRow
  /\ caller' = [caller EXCEPT ![c] = [pc |-> "put", req |-> q, created |-> FALSE]]
  /\ UNCHANGED <<row, objects, erase, died>>

\* Mutant: the request of the row that was read is written.
Put_OfRow(c) ==
  /\ caller[c].pc = "put"
  /\ objects' = objects \cup {row.req}
  /\ caller' = [caller EXCEPT ![c].pc = "insert",
                              ![c].created = row.req \notin objects]
  /\ UNCHANGED <<row, erase, died>>

\* putImmutable; `created' says whether the object was there before.
Put(c) ==
  /\ caller[c].pc = "put"
  /\ objects' = objects \cup {caller[c].req}
  /\ caller' = [caller EXCEPT ![c].pc = "insert",
                              ![c].created = caller[c].req \notin objects]
  /\ UNCHANGED <<row, erase, died>>

\* createIfAbsent finds no row.
Register(c) ==
  /\ caller[c].pc = "insert"
  /\ row = NoRow
  /\ row' = [req |-> caller[c].req, state |-> "live"]
  /\ caller' = [caller EXCEPT ![c] = IdleCaller]
  /\ UNCHANGED <<objects, erase, died>>

\* createIfAbsent finds the row of the same request: a replay.
Replay(c) ==
  /\ caller[c].pc = "insert"
  /\ row.req = caller[c].req
  /\ caller' = [caller EXCEPT ![c] = IdleCaller]
  /\ UNCHANGED <<row, objects, erase, died>>

\* Mutant: every create that was not first cleans up, replays included.
Lose_Replays(c) ==
  /\ caller[c].pc = "insert"
  /\ row # NoRow
  /\ caller' = [caller EXCEPT ![c].pc =
                  IF caller[c].created THEN "remove" ELSE "reread"]
  /\ UNCHANGED <<row, objects, erase, died>>

\* Mutant: the conflict is reported without any clean-up.
Lose_KeepsObject(c) ==
  /\ caller[c].pc = "insert"
  /\ row # NoRow /\ row.req # caller[c].req
  /\ caller' = [caller EXCEPT ![c] = IdleCaller]
  /\ UNCHANGED <<row, objects, erase, died>>

\* createIfAbsent finds another request: the candidate has to go, after a
\* second look at the row if the object may be shared.
Lose(c) ==
  /\ caller[c].pc = "insert"
  /\ row # NoRow /\ row.req # caller[c].req
  /\ caller' = [caller EXCEPT ![c].pc =
                  IF caller[c].created THEN "remove" ELSE "reread"]
  /\ UNCHANGED <<row, objects, erase, died>>

\* The row is read again; the candidate stays if it is the registered one.
Reread(c) ==
  /\ caller[c].pc = "reread"
  /\ caller' = [caller EXCEPT ![c] =
                  IF row = NoRow \/ row.req = caller[c].req
                  THEN IdleCaller ELSE [@ EXCEPT !.pc = "remove"]]
  /\ UNCHANGED <<row, objects, erase, died>>

Remove(c) ==
  /\ caller[c].pc = "remove"
  /\ objects' = objects \ {caller[c].req}
  /\ caller' = [caller EXCEPT ![c] = IdleCaller]
  /\ UNCHANGED <<row, erase, died>>

\* The caller's process dies, or an adapter call of it is rejected.
Die(c) ==
  /\ Deaths
  /\ caller[c].pc # "idle"
  /\ caller' = [caller EXCEPT ![c] = IdleCaller]
  /\ died' = TRUE
  /\ UNCHANGED <<row, objects, erase>>

\* deleteTask, again on a job that is already deleting.
Delete ==
  /\ row.state \in {"live", "deleting"}
  /\ erase = "idle"
  /\ row' = [row EXCEPT !.state = "deleting"]
  /\ erase' = "erasing"
  /\ UNCHANGED <<objects, caller, died>>

EraseRequest ==
  /\ erase = "erasing"
  /\ objects' = objects \ {row.req}
  /\ erase' = "verifying"
  /\ UNCHANGED <<row, caller, died>>

\* Absence is verified and the tombstone written, or the deletion fails.
CompleteDeletion ==
  /\ erase = "verifying"
  /\ row' = IF row.req \in objects THEN row ELSE [row EXCEPT !.state = "deleted"]
  /\ erase' = "idle"
  /\ UNCHANGED <<objects, caller, died>>

Next ==
  \/ \E c \in Callers : \/ \E q \in Requests : Lookup(c, q)
                        \/ Put(c) \/ Register(c) \/ Replay(c) \/ Lose(c)
                        \/ Reread(c) \/ Remove(c) \/ Die(c)
  \/ Delete \/ EraseRequest \/ CompleteDeletion

Spec == Init /\ [][Next]_vars

-----------------------------------------------------------------------------

\* The registered request object stays until deletion: no losing create
\* removes it, not even when it shares its key with another caller.
RegisteredRequestPresent == row.state = "live" => row.req \in objects

\* README: concurrent conflicting creates retain only the authoritative row's
\* request object.  Once every call has ended, and unless one died half-way,
\* no other object is left.
OnlyAuthoritativeRequestKept ==
  (~died /\ \A c \in Callers : caller[c].pc = "idle") => objects \subseteq {row.req}

=============================================================================
