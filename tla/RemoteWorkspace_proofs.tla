---------------------- MODULE RemoteWorkspace_proofs ----------------------
(***************************************************************************)
(* No remote job is forgotten, for any number of runs, replacements and     *)
(* cancellations.  The argument: the page binds or owns one job at a time,  *)
(* so no assignment to the active job or to the source covers up another    *)
(* one; a job leaves the page's hands only when its deletion was seen; and  *)
(* leaving the page asks for the deletion of all that is left.              *)
(***************************************************************************)
EXTENDS RemoteWorkspace, TLAPS

\* The shape of the mutex, as TypeOK states it of ws; m stands for mounted.  A
\* source session that is being ended still has its source, which no activation
\* takes away.
MutexShape(w, m) ==
  /\ w.attempt # None => w.stage = "binding" /\ w.active = None
  /\ m /\ w.active # None => w.stage = "bound"
  /\ m => w.lock = (w.attempt # None \/ w.active # None)
  /\ m => w.pending = (w.active # None \/ w.deferred # <<>>)
  /\ w.lock = FALSE => w.stage = "idle"
  /\ w.ending # "no" => w.source # None /\ ~w.activating

Good(w, m) == w \in Workspaces /\ MutexShape(w, m)

\* The jobs a page holds.
HeldBy(w) == ToSet(w.deferred) \cup ({w.active, w.source} \ {None})

-----------------------------------------------------------------------------
LEMMA SetOfAppend ==
  ASSUME NEW s \in Seq(Runs), NEW r \in Runs
  PROVE  ToSet(Append(s, r)) = ToSet(s) \cup {r}
<1> DEFINE a == Append(s, r)
<1>1. /\ Len(a) = Len(s) + 1 /\ DOMAIN a = 1..Len(s) + 1 /\ a[Len(s) + 1] = r
      /\ \A i \in 1..Len(s) : a[i] = s[i]
  OBVIOUS
<1>2. DOMAIN s = 1..Len(s) /\ Len(s) \in Nat
  OBVIOUS
<1> QED BY <1>1, <1>2 DEF ToSet

LEMMA SetOfTail ==
  ASSUME NEW s \in Seq(Runs), s # <<>>
  PROVE  /\ Head(s) \in Runs /\ Tail(s) \in Seq(Runs)
         /\ ToSet(s) = {Head(s)} \cup ToSet(Tail(s))
<1>1. /\ Len(s) \in Nat \ {0} /\ DOMAIN s = 1..Len(s) /\ Head(s) = s[1]
      /\ Tail(s) \in Seq(Runs) /\ DOMAIN Tail(s) = 1..Len(s) - 1
      /\ \A i \in 1..Len(s) - 1 : Tail(s)[i] = s[i + 1]
  OBVIOUS
<1>2. \A i \in 1..Len(s) : i = 1 \/ i - 1 \in 1..Len(s) - 1
  BY <1>1
<1>3. \A i \in 2..Len(s) : s[i] = Tail(s)[i - 1]
  BY <1>1
<1>4. ToSet(s) \subseteq {Head(s)} \cup ToSet(Tail(s))
  <2> SUFFICES ASSUME NEW i \in 1..Len(s)
               PROVE  s[i] \in {Head(s)} \cup ToSet(Tail(s))
    BY <1>1 DEF ToSet
  <2>1. CASE i = 1
    BY <2>1, <1>1
  <2>2. CASE i # 1
    <3>1. i - 1 \in DOMAIN Tail(s) /\ s[i] = Tail(s)[i - 1]
      BY <2>2, <1>1, <1>2, <1>3
    <3> QED BY <3>1 DEF ToSet
  <2> QED BY <2>1, <2>2
<1>5. {Head(s)} \cup ToSet(Tail(s)) \subseteq ToSet(s)
  BY <1>1 DEF ToSet
<1> QED BY <1>1, <1>4, <1>5

LEMMA SetOfRuns == ASSUME NEW s \in Seq(Runs) PROVE ToSet(s) \subseteq Runs
  BY DEF ToSet

\* Promotion takes the oldest retained job out of the queue and holds it.
LEMMA PromotionHolds ==
  ASSUME NEW w \in Workspaces, Promotable(w), NEW m,
         w.ending # "no" => w.source # None /\ ~w.activating
  PROVE  /\ Good(Promoted(w), m)
         /\ HeldBy(Promoted(w)) = HeldBy(w)
         /\ Promoted(w).attempt = None /\ Promoted(w).source = w.source
<1> USE DEF Workspaces
<1>1. Head(w.deferred) \in Runs /\ Tail(w.deferred) \in Seq(Runs)
      /\ ToSet(w.deferred) = {Head(w.deferred)} \cup ToSet(Tail(w.deferred))
  BY SetOfTail DEF Promotable
<1>2. Promoted(w) \in Workspaces /\ MutexShape(Promoted(w), m)
  BY <1>1, NoneAssumption DEF Promoted, Promotable, MutexShape, Statuses
<1>3. HeldBy(Promoted(w)) = HeldBy(w)
  BY <1>1, NoneAssumption DEF Promoted, Promotable, HeldBy
<1> QED BY <1>2, <1>3 DEF Good, Promoted, Promotable

\* Releasing the active job forgets no other one.
LEMMA BoundReleaseKeeps ==
  ASSUME NEW m, NEW w, Good(w, m), w.attempt = None
  PROVE  /\ Good(BoundReleased(w), m)
         /\ HeldBy(w) \ {w.active} \subseteq HeldBy(BoundReleased(w))
         /\ HeldBy(BoundReleased(w)) \subseteq HeldBy(w)
         /\ BoundReleased(w).attempt = None /\ BoundReleased(w).source = w.source
<1> DEFINE freed == [w EXCEPT !.active = None]
<1>1. freed \in Workspaces /\ freed.attempt = None /\ freed.source = w.source
      /\ freed.active = None /\ freed.deferred = w.deferred
      /\ (freed.ending # "no" => freed.source # None /\ ~freed.activating)
  BY DEF Good, MutexShape, Workspaces
<1>2. HeldBy(w) \ {w.active} \subseteq HeldBy(freed) /\ HeldBy(freed) \subseteq HeldBy(w)
  BY <1>1 DEF HeldBy
<1>3. CASE Promotable(freed)
  <2>1. BoundReleased(w) = Promoted(freed)
    BY <1>3 DEF BoundReleased
  <2> HIDE DEF freed
  <2> QED BY <1>1, <1>2, <1>3, <2>1, PromotionHolds
<1>4. CASE ~Promotable(freed)
  <2>1. w.deferred = <<>>
    BY <1>1, <1>4 DEF Promotable
  <2>2. BoundReleased(w) = [freed EXCEPT !.pending = FALSE, !.lock = FALSE, !.stage = "idle"]
    BY <1>4 DEF BoundReleased
  <2>3. HeldBy(BoundReleased(w)) = HeldBy(freed)
    BY <1>1, <2>2 DEF HeldBy, Workspaces
  <2> QED BY <1>1, <1>2, <2>1, <2>2, <2>3 DEF Good, MutexShape, Workspaces
<1> QED BY <1>3, <1>4

\* So does giving up the binding attempt, while no job is active.
LEMMA BindingReleaseKeeps ==
  ASSUME NEW m, NEW w, Good(w, m), w.attempt # None
  PROVE  /\ Good(BindingReleased(w), m)
         /\ HeldBy(BindingReleased(w)) = HeldBy(w)
         /\ BindingReleased(w).attempt = None /\ BindingReleased(w).source = w.source
<1> DEFINE freed == [w EXCEPT !.attempt = None]
<1>1. freed \in Workspaces /\ freed.attempt = None /\ freed.source = w.source
      /\ freed.active = None /\ w.active = None /\ freed.deferred = w.deferred
      /\ freed.pending = w.pending
      /\ (freed.ending # "no" => freed.source # None /\ ~freed.activating)
  BY DEF Good, Workspaces, MutexShape
<1>2. HeldBy(w) = HeldBy(freed)
  BY <1>1 DEF HeldBy
<1>3. CASE Promotable(freed)
  <2>1. BindingReleased(w) = Promoted(freed)
    BY <1>3 DEF BindingReleased
  <2> HIDE DEF freed
  <2> QED BY <1>1, <1>2, <1>3, <2>1, PromotionHolds
<1>4. CASE ~Promotable(freed)
  <2>1. w.deferred = <<>>
    BY <1>1, <1>4 DEF Promotable
  <2>2. BindingReleased(w) = [freed EXCEPT !.lock = FALSE, !.stage = "idle"]
    BY <1>4 DEF BindingReleased
  <2>3. HeldBy(BindingReleased(w)) = HeldBy(freed)
    BY <1>1, <2>2 DEF HeldBy, Workspaces
  <2> QED BY <1>1, <1>2, <2>1, <2>2, <2>3 DEF Good, MutexShape, Workspaces
<1> QED BY <1>3, <1>4

\* A binding is recorded where no job is active; a stale capability is retained
\* as the active job or behind it.
LEMMA RecordingKeeps ==
  ASSUME NEW m, NEW w, Good(w, m), NEW r \in Runs, w.attempt = r
  PROVE  /\ Good(Recorded(w, r), m)
         /\ HeldBy(Recorded(w, r)) = HeldBy(w) \cup {r}
         /\ Recorded(w, r).attempt = None /\ Recorded(w, r).active = r
         /\ Recorded(w, r).source = w.source
<1>1. w.active = None /\ w.attempt # None
  BY NoneAssumption DEF Good, MutexShape
<1>2. Good(Recorded(w, r), m)
  BY <1>1, NoneAssumption DEF Good, MutexShape, Recorded, Workspaces
<1>3. HeldBy(Recorded(w, r)) = HeldBy(w) \cup {r}
  BY <1>1, NoneAssumption DEF Good, HeldBy, Recorded, Workspaces
<1> QED BY <1>2, <1>3 DEF Recorded, Good, Workspaces

LEMMA RetainingKeeps ==
  ASSUME NEW w, Good(w, TRUE), NEW r \in Runs
  PROVE  /\ Good(Retained(w, r), TRUE)
         /\ HeldBy(Retained(w, r)) = HeldBy(w) \cup {r}
         /\ Retained(w, r).attempt = w.attempt /\ Retained(w, r).source = w.source
         /\ w.active # None => Retained(w, r).active = w.active
<1>1. w.deferred \in Seq(Runs) /\ Append(w.deferred, r) \in Seq(Runs)
      /\ Append(w.deferred, r) # <<>>
      /\ ToSet(Append(w.deferred, r)) = ToSet(w.deferred) \cup {r}
  BY SetOfAppend DEF Good, Workspaces
<1>2. CASE w.active # None \/ w.attempt # None
  <2>1. Retained(w, r) = [w EXCEPT !.deferred = Append(@, r), !.lock = TRUE, !.pending = TRUE]
    BY <1>2 DEF Retained
  <2>2. HeldBy(Retained(w, r)) = HeldBy(w) \cup {r}
    BY <1>1, <2>1 DEF HeldBy, Good, Workspaces
  <2>3. Good(Retained(w, r), TRUE)
    BY <1>1, <1>2, <2>1 DEF Good, MutexShape, Workspaces
  <2> QED BY <2>1, <2>2, <2>3 DEF Good, Workspaces
<1>3. CASE w.active = None /\ w.attempt = None
  <2>1. Retained(w, r) = [w EXCEPT !.active = r, !.lock = TRUE, !.pending = TRUE,
                                   !.stage = "bound", !.status = "rest"]
    BY <1>3 DEF Retained
  <2>2. HeldBy(Retained(w, r)) = HeldBy(w) \cup {r}
    BY <1>3, <2>1, NoneAssumption DEF HeldBy, Good, Workspaces
  <2>3. Good(Retained(w, r), TRUE)
    BY <1>3, <2>1, NoneAssumption DEF Good, MutexShape, Workspaces, Statuses
  <2> QED BY <1>3, <2>1, <2>2, <2>3 DEF Good, Workspaces
<1> QED BY <1>2, <1>3

LEMMA RestingKeeps ==
  ASSUME NEW m, NEW w, Good(w, m)
  PROVE  /\ Good(Resting(w), m) /\ HeldBy(Resting(w)) = HeldBy(w)
         /\ Resting(w).attempt = w.attempt /\ Resting(w).active = w.active
         /\ Resting(w).source = w.source
  BY DEF Good, MutexShape, HeldBy, Resting, Workspaces, Statuses

-----------------------------------------------------------------------------
\* Everything but the page itself.  An effect cleanup cancels a job once, and
\* there is one for each replacement and one for leaving.
OtherTypes ==
  /\ run \in [Runs -> [pc: Waits, kind: {"source", "derived"}, fresh: BOOLEAN, cancel: BOOLEAN]]
  /\ job \in [Runs -> {"none", "live", "deleted"}]
  /\ asked \in SUBSET Runs
  /\ cancels \in [Runs -> 0..MaxCancels]
  /\ evictions \in [Runs -> Nat]
  /\ mounted \in BOOLEAN /\ swaps \in 0..MaxSwaps
  /\ \A r \in Runs : evictions[r] <= swaps + (IF mounted THEN 0 ELSE 1)

\* A current run owns the page, and finds no source if it is to become one.
\* A job that is held or being cancelled has a run that began, and one that is
\* being cancelled has no current run.
RunInv(r) ==
  /\ run[r].fresh =>
       /\ mounted
       /\ run[r].pc = "binding" => ws.attempt = r
       /\ run[r].pc \in {"observing", "finishing", "cleaning"} => ws.active = r
       /\ run[r].pc \in {"binding", "observing"} /\ run[r].kind = "source" => ws.source = None
  /\ r \in HeldBy(ws) => run[r].pc # "new"
  /\ cancels[r] > 0 \/ evictions[r] > 0 => ~run[r].fresh /\ run[r].pc # "new"

Remembered(r) ==
  job[r] = "live" =>
    IF mounted THEN r \in HeldBy(ws) \/ run[r].pc = "dropping" ELSE r \in asked

PageInv ==
  /\ Good(ws, mounted) /\ OtherTypes
  /\ \A r \in Runs : RunInv(r) /\ Remembered(r)

LEMMA HeldIsHeldBy == ASSUME NEW r \in Runs PROVE Held(r) <=> r \in HeldBy(ws) \/ run[r].pc = "dropping"
  BY NoneAssumption DEF Held, HeldBy

LEMMA PageInvImplies == ASSUME PageInv PROVE TypeOK /\ NoJobForgotten
<1>1. NoJobForgotten
  BY HeldIsHeldBy DEF PageInv, Remembered, NoJobForgotten
<1>2. evictions \in [Runs -> 0..(MaxSwaps + 1)]
  BY BoundsAssumption DEF PageInv, OtherTypes
<1>3. TypeOK
  BY <1>2 DEF PageInv, OtherTypes, Good, MutexShape, RunInv, TypeOK
<1> QED BY <1>1, <1>3

LEMMA InitPage == ASSUME Init PROVE PageInv
<1> USE DEF Init
<1>1. ws.deferred = <<>> /\ ToSet(ws.deferred) = {}
  BY DEF ToSet
<1>2. Good(ws, mounted)
  <2>1. <<>> \in Seq(Runs)
    OBVIOUS
  <2>2. ws \in Workspaces
    BY <2>1 DEF Workspaces, Statuses
  <2> QED BY <2>2 DEF Good, MutexShape
<1>3. OtherTypes
  BY BoundsAssumption DEF OtherTypes, Waits
<1>4. \A r \in Runs : RunInv(r) /\ Remembered(r)
  BY <1>1, NoneAssumption DEF RunInv, Remembered, HeldBy
<1> QED BY <1>2, <1>3, <1>4 DEF PageInv

\* Whoever owns the active job or the binding attempt owns it alone.
LEMMA OneCurrent ==
  ASSUME PageInv, NEW r \in Runs, NEW q \in Runs \ {r},
         ws.active = r \/ ws.attempt = r, run[q].fresh
  PROVE  run[q].pc \notin {"binding", "observing", "finishing", "cleaning"}
  BY NoneAssumption DEF PageInv, RunInv, Good, MutexShape

\* A step of run r, or of a call about its job, that may release, record or
\* retain that job and touches no other one.
Touches(r) ==
  /\ Good(ws', mounted)
  /\ mounted' = mounted /\ swaps' = swaps /\ asked \subseteq asked' /\ asked' \subseteq Runs
  /\ HeldBy(ws) \ {r} \subseteq HeldBy(ws') /\ HeldBy(ws') \subseteq HeldBy(ws) \cup {r}
  /\ \A q \in Runs \ {r} : run'[q] = run[q] /\ job'[q] = job[q]
  /\ \/ ws'.attempt = ws.attempt /\ ws'.active = ws.active /\ ws'.source = ws.source
     \/ ws.active = r \/ ws.attempt = r
     \/ /\ ws.active = None /\ ws'.attempt = ws.attempt /\ ws'.source = ws.source
  /\ OtherTypes'

\* What such a step has to show of r itself.
LEMMA TouchKeeps ==
  ASSUME PageInv, NEW r \in Runs, Touches(r), RunInv(r)', Remembered(r)',
         \A q \in Runs \ {r} : cancels'[q] = cancels[q] /\ evictions'[q] = evictions[q]
  PROVE  PageInv'
<1> SUFFICES ASSUME NEW q \in Runs \ {r} PROVE RunInv(q)' /\ Remembered(q)'
  BY DEF PageInv, Touches
<1>1. run'[q] = run[q] /\ job'[q] = job[q] /\ (q \in HeldBy(ws') <=> q \in HeldBy(ws))
  BY DEF Touches
<1>2. Remembered(q)'
  BY <1>1 DEF Remembered, Touches, PageInv
<1>3. RunInv(q)
  BY DEF PageInv
<1>4. /\ q \in HeldBy(ws') => run'[q].pc # "new"
      /\ cancels'[q] > 0 \/ evictions'[q] > 0 => ~run'[q].fresh /\ run'[q].pc # "new"
  BY <1>1, <1>3 DEF RunInv
<1>5. ASSUME run'[q].fresh
      PROVE  /\ mounted'
             /\ run'[q].pc = "binding" => ws'.attempt = q
             /\ run'[q].pc \in {"observing", "finishing", "cleaning"} => ws'.active = q
             /\ run'[q].pc \in {"binding", "observing"} /\ run'[q].kind = "source" => ws'.source = None
  <2>1. run[q].fresh /\ mounted'
    BY <1>1, <1>3, <1>5 DEF RunInv, Touches
  <2>2. CASE ws.active = r \/ ws.attempt = r
    <3>1. run[q].pc \notin {"binding", "observing", "finishing", "cleaning"}
      BY <2>1, <2>2, OneCurrent
    <3> QED BY <1>1, <2>1, <3>1
  <2>3. CASE ~(ws.active = r \/ ws.attempt = r)
    BY <1>1, <1>3, <2>1, <2>3, NoneAssumption DEF RunInv, Touches
  <2> QED BY <2>2, <2>3
<1>6. RunInv(q)'
  BY <1>4, <1>5 DEF RunInv
<1> QED BY <1>2, <1>6

\* The handler of run r ends and the page lets go of its job at most.
LEMMA DoneKeeps ==
  ASSUME PageInv, NEW r \in Runs, run[r].pc # "new", Goes(r, "done"),
         UNCHANGED <<job, asked, cancels, evictions, mounted, swaps>>,
         Good(ws', mounted),
         HeldBy(ws) \ {r} \subseteq HeldBy(ws'), HeldBy(ws') \subseteq HeldBy(ws) \cup {r},
         \/ ws'.attempt = ws.attempt /\ ws'.active = ws.active /\ ws'.source = ws.source
         \/ ws.active = r \/ ws.attempt = r
         \/ ws.active = None /\ ws'.attempt = ws.attempt /\ ws'.source = ws.source,
         job[r] = "live" /\ mounted => r \in HeldBy(ws')
  PROVE  PageInv'
<1>1. RunInv(r) /\ Remembered(r) /\ OtherTypes /\ run'[r].pc = "done"
      /\ run'[r].fresh = run[r].fresh
  BY DEF PageInv, OtherTypes, Goes
<1>2. OtherTypes' /\ \A q \in Runs \ {r} : run'[q] = run[q]
  BY <1>1 DEF OtherTypes, Goes, Waits
<1>3. RunInv(r)'
  BY <1>1 DEF RunInv
<1>4. Remembered(r)'
  BY <1>1 DEF Remembered
<1>5. Touches(r)
  BY <1>2 DEF Touches, OtherTypes
<1> QED BY <1>3, <1>4, <1>5, TouchKeeps

\* The page releases its active job.
LEMMA ReleaseFacts ==
  ASSUME PageInv, NEW r \in Runs, ws.active = r, NEW w,
         w = BoundReleased(ws) \/ w = Resting(BoundReleased(ws))
  PROVE  /\ Good(w, mounted) /\ HeldBy(ws) \ {r} \subseteq HeldBy(w)
         /\ HeldBy(w) \subseteq HeldBy(ws)
<1>1. Good(ws, mounted) /\ ws.attempt = None
  BY NoneAssumption DEF PageInv, Good, MutexShape
<1>2. /\ Good(BoundReleased(ws), mounted)
      /\ HeldBy(ws) \ {r} \subseteq HeldBy(BoundReleased(ws))
      /\ HeldBy(BoundReleased(ws)) \subseteq HeldBy(ws)
  BY <1>1, BoundReleaseKeeps
<1> QED BY <1>2, RestingKeeps

\* A deletion that failed leaves the job active and its deletion pending.
LEMMA PendingFacts ==
  ASSUME PageInv, NEW r \in Runs, ws.active = r, NEW w, w = Resting([ws EXCEPT !.pending = TRUE])
  PROVE  /\ Good(w, mounted) /\ HeldBy(w) = HeldBy(ws)
         /\ w.attempt = ws.attempt /\ w.active = ws.active /\ w.source = ws.source
  BY NoneAssumption DEF PageInv, Good, MutexShape, HeldBy, Resting, Workspaces, Statuses

LEMMA CurrentIsActive ==
  ASSUME PageInv, NEW r \in Runs, run[r].fresh,
         run[r].pc \in {"observing", "finishing", "cleaning"}
  PROVE  ws.active = r
  BY DEF PageInv, RunInv

LEMMA WaitingIsHeld ==
  ASSUME PageInv, NEW r \in Runs, job[r] = "live", mounted, run[r].pc # "dropping"
  PROVE  r \in HeldBy(ws)
  BY DEF PageInv, Remembered

LEMMA CleanReplyKeeps ==
  ASSUME PageInv, NEW r \in Runs, CleanReply(r)
  PROVE  PageInv'
<1> USE DEF CleanReply
<1>1. Good(ws, mounted)
  BY DEF PageInv
<1>2. CASE ws' = ws
  BY <1>1, <1>2, WaitingIsHeld, DoneKeeps
<1>3. CASE run[r].fresh /\ Deleted(r) /\ ws' = Resting(BoundReleased(ws))
  BY <1>3, CurrentIsActive, ReleaseFacts, DoneKeeps DEF Deleted
<1>4. CASE run[r].fresh /\ ws' = Resting([ws EXCEPT !.pending = TRUE])
  <2>1. ws.active = r
    BY <1>4, CurrentIsActive
  <2>2. Good(ws', mounted) /\ HeldBy(ws') = HeldBy(ws)
    BY <1>4, <2>1, PendingFacts
  <2> QED BY <2>1, <2>2, WaitingIsHeld, DoneKeeps
<1> QED BY <1>2, <1>3, <1>4

LEMMA EraseReplyKeeps ==
  ASSUME PageInv, NEW r \in Runs, EraseReply(r)
  PROVE  PageInv'
<1> USE DEF EraseReply
<1>1. Good(ws, mounted)
  BY DEF PageInv
<1>2. CASE ws' = ws
  BY <1>1, <1>2, WaitingIsHeld, DoneKeeps
<1>3. CASE ws.active = r /\ Deleted(r)
           /\ (ws' = BoundReleased(ws) \/ ws' = Resting(BoundReleased(ws)))
  BY <1>3, ReleaseFacts, DoneKeeps DEF Deleted
<1>4. CASE ws.active = r /\ ws' = Resting([ws EXCEPT !.pending = TRUE])
  <2>1. Good(ws', mounted) /\ HeldBy(ws') = HeldBy(ws)
    BY <1>4, PendingFacts
  <2> QED BY <1>4, <2>1, WaitingIsHeld, DoneKeeps
<1> QED BY <1>2, <1>3, <1>4

LEMMA DropReplyKeeps ==
  ASSUME PageInv, NEW r \in Runs, DropReply(r)
  PROVE  PageInv'
<1> USE DEF DropReply
<1>1. Good(ws, mounted)
  BY DEF PageInv
<1>2. CASE ws' = ws /\ (Deleted(r) \/ ~mounted)
  BY <1>1, <1>2, DoneKeeps DEF Deleted
<1>3. CASE mounted /\ ws' = Retained(ws, r)
  <2>1. Good(ws, TRUE) /\ mounted = TRUE
    BY <1>1, <1>3 DEF PageInv, OtherTypes
  <2>2. /\ Good(ws', TRUE) /\ HeldBy(ws') = HeldBy(ws) \cup {r}
        /\ ws'.attempt = ws.attempt /\ ws'.source = ws.source
        /\ ws.active # None => ws'.active = ws.active
    BY <1>3, <2>1, RetainingKeeps
  <2> QED BY <2>1, <2>2, DoneKeeps
<1> QED BY <1>2, <1>3

LEMMA BindRejectsKeeps ==
  ASSUME PageInv, NEW r \in Runs, BindRejects(r)
  PROVE  PageInv'
<1> USE DEF BindRejects
<1> DEFINE released == BindingReleased(ws)
<1>1. Good(ws, mounted)
  BY DEF PageInv
<1>2. CASE ws.attempt # r
  BY <1>1, <1>2, WaitingIsHeld, DoneKeeps
<1>3. CASE ws.attempt = r
  <2>1. Good(released, mounted) /\ HeldBy(released) = HeldBy(ws)
    BY <1>1, <1>3, NoneAssumption, BindingReleaseKeeps
  <2>2. Good(Resting(released), mounted) /\ HeldBy(Resting(released)) = HeldBy(ws)
    BY <2>1, RestingKeeps
  <2>3. ASSUME released.stage # "bound"
        PROVE  /\ Good([Resting(released) EXCEPT !.pending = FALSE], mounted)
               /\ HeldBy([Resting(released) EXCEPT !.pending = FALSE]) = HeldBy(ws)
    <3>1. released = [ws EXCEPT !.attempt = None, !.lock = FALSE, !.stage = "idle"]
          /\ ~Promotable([ws EXCEPT !.attempt = None])
      BY <2>3 DEF BindingReleased, Promoted, Good, Workspaces
    <3>2. ws.active = None /\ ws.deferred = <<>>
      BY <3>1, <1>1, <1>3, NoneAssumption DEF Promotable, Good, MutexShape, Workspaces
    <3> QED BY <3>1, <3>2, <2>2 DEF Good, MutexShape, HeldBy, Resting, Workspaces
  <2>4. Good(ws', mounted) /\ HeldBy(ws') = HeldBy(ws)
    BY <1>3, <2>1, <2>2, <2>3
  <2> QED BY <1>3, <2>4, WaitingIsHeld, DoneKeeps
<1> QED BY <1>2, <1>3

\* The handler asks for the deletion of its own job and waits on.
LEMMA AsksKeeps ==
  ASSUME PageInv, NEW r \in Runs, NEW pc \in {"finishing", "cleaning"},
         run[r].fresh, run[r].pc \in {"observing", "finishing"},
         Goes(r, pc), asked' = asked \cup {ws.active}, ws' = ws,
         UNCHANGED <<job, cancels, evictions, mounted, swaps>>
  PROVE  PageInv'
<1>1. ws.active = r /\ Good(ws, mounted) /\ RunInv(r) /\ Remembered(r) /\ OtherTypes
  BY CurrentIsActive DEF PageInv
<1>2. run' = [run EXCEPT ![r].pc = pc] /\ run'[r].pc = pc /\ run'[r].fresh = run[r].fresh
      /\ asked' = asked \cup {r}
  BY <1>1 DEF Goes, OtherTypes
<1>3. OtherTypes'
  BY <1>1, <1>2 DEF OtherTypes, Waits
<1>4. Touches(r)
  BY <1>1, <1>2, <1>3 DEF Touches, OtherTypes
<1>5. RunInv(r)' /\ Remembered(r)'
  BY <1>1, <1>2 DEF RunInv, Remembered
<1> QED BY <1>4, <1>5, TouchKeeps

LEMMA FinishReplyKeeps ==
  ASSUME PageInv, NEW r \in Runs, FinishReply(r)
  PROVE  PageInv'
<1> USE DEF FinishReply
<1>1. Good(ws, mounted)
  BY DEF PageInv
<1>2. CASE Goes(r, "done") /\ asked' = asked /\ ws' = ws
  BY <1>1, <1>2, WaitingIsHeld, DoneKeeps
<1>3. CASE run[r].fresh /\ Deleted(r) /\ Goes(r, "done") /\ asked' = asked
           /\ ws' = Resting(BoundReleased(ws))
  BY <1>3, CurrentIsActive, ReleaseFacts, DoneKeeps DEF Deleted
<1>4. CASE run[r].fresh /\ Goes(r, "cleaning") /\ asked' = asked \cup {ws.active} /\ ws' = ws
  BY <1>4, AsksKeeps
<1> QED BY <1>2, <1>3, <1>4

LEMMA ObserveFailsKeeps ==
  ASSUME PageInv, NEW r \in Runs, ObserveFails(r)
  PROVE  PageInv'
<1> USE DEF ObserveFails
<1>1. Good(ws, mounted)
  BY DEF PageInv
<1>2. CASE Goes(r, "done") /\ asked' = asked /\ ws' = ws
  BY <1>1, <1>2, WaitingIsHeld, DoneKeeps
<1>3. CASE run[r].fresh /\ Goes(r, "done") /\ asked' = asked
           /\ ws' = Resting([ws EXCEPT !.pending = TRUE])
  <2>1. ws.active = r
    BY <1>3, CurrentIsActive
  <2>2. Good(ws', mounted) /\ HeldBy(ws') = HeldBy(ws)
    BY <1>3, <2>1, PendingFacts
  <2> QED BY <1>3, <2>1, <2>2, WaitingIsHeld, DoneKeeps
<1>4. CASE run[r].fresh /\ Goes(r, "cleaning") /\ asked' = asked \cup {ws.active} /\ ws' = ws
  BY <1>4, AsksKeeps
<1> QED BY <1>2, <1>3, <1>4

\* A verified source leaves the active job for the place of the source, which
\* was empty.
LEMMA VerifiedKeeps ==
  ASSUME PageInv, NEW r \in Runs, Verified(r)
  PROVE  PageInv'
<1> USE DEF Verified
<1>1. Good(ws, mounted)
  BY DEF PageInv
<1>2. CASE ~run[r].fresh
  BY <1>1, <1>2, WaitingIsHeld, DoneKeeps
<1>3. CASE run[r].fresh /\ run[r].kind = "source"
  <2> DEFINE w == [ws EXCEPT !.source = r]
  <2>1. ws.active = r /\ ws.source = None
    BY <1>3, CurrentIsActive DEF PageInv, RunInv
  <2>2. /\ Good(w, mounted) /\ w.active = r /\ w.source = r /\ w.attempt = None
        /\ HeldBy(w) = HeldBy(ws)
    BY <1>1, <2>1, NoneAssumption DEF Good, MutexShape, HeldBy, Workspaces
  <2>3. /\ Good(BoundReleased(w), mounted)
        /\ HeldBy(ws) \ {r} \subseteq HeldBy(BoundReleased(w))
        /\ HeldBy(BoundReleased(w)) \subseteq HeldBy(ws)
        /\ BoundReleased(w).source = r
    <3> HIDE DEF w
    <3> QED BY <2>2, BoundReleaseKeeps
  <2>4. ws' = Resting(BoundReleased(w))
    BY <1>3
  <2>5. Good(ws', mounted) /\ HeldBy(ws') = HeldBy(BoundReleased(w)) /\ ws'.source = r
    <3> HIDE DEF w
    <3> QED BY <2>3, <2>4, RestingKeeps
  <2>6. r \in HeldBy(ws')
    BY <2>5, NoneAssumption DEF HeldBy
  <2> QED BY <1>3, <2>1, <2>3, <2>5, <2>6, DoneKeeps
<1>4. CASE run[r].fresh /\ run[r].kind # "source"
  <2>1. ws.active = r
    BY <1>4, CurrentIsActive
  <2> QED BY <1>4, <2>1, AsksKeeps
<1> QED BY <1>2, <1>3, <1>4

LEMMA BindReturnsKeeps ==
  ASSUME PageInv, NEW r \in Runs, BindReturns(r)
  PROVE  PageInv'
<1> USE DEF BindReturns
<1>1. Good(ws, mounted) /\ RunInv(r) /\ OtherTypes
  BY DEF PageInv
<1>2. PICK pc \in {"observing", "erasing", "dropping"} :
        /\ Goes(r, pc)
        /\ pc = "observing" => asked' = asked /\ run[r].fresh
        /\ pc # "observing" => asked' = asked \cup {r} /\ (pc = "dropping" => ws.attempt # r)
        /\ pc # "dropping" => ws.attempt = r /\ ws' = Recorded(ws, r)
        /\ pc = "dropping" => ws' = ws
  OBVIOUS
<1>3. run'[r].pc = pc /\ run'[r].fresh = run[r].fresh /\ run'[r].kind = run[r].kind
      /\ job'[r] = "live" /\ OtherTypes'
      /\ \A q \in Runs \ {r} : run'[q] = run[q] /\ job'[q] = job[q]
  BY <1>1, <1>2 DEF OtherTypes, Goes, Waits
<1>4. CASE pc = "dropping"
  <2>1. ~run[r].fresh
    BY <1>1, <1>2, <1>4 DEF RunInv
  <2>2. RunInv(r)' /\ Remembered(r)'
    BY <1>1, <1>2, <1>3, <1>4, <2>1 DEF RunInv, Remembered
  <2>3. Touches(r)
    BY <1>1, <1>2, <1>3, <1>4 DEF Touches, OtherTypes
  <2> QED BY <2>2, <2>3, TouchKeeps
<1>5. CASE pc # "dropping"
  <2>1. /\ Good(ws', mounted) /\ HeldBy(ws') = HeldBy(ws) \cup {r}
        /\ ws'.active = r /\ ws'.source = ws.source
    BY <1>1, <1>2, <1>5, RecordingKeeps
  <2>2. Touches(r)
    BY <1>1, <1>2, <1>3, <1>5, <2>1 DEF Touches, OtherTypes
  <2>3. RunInv(r)'
    BY <1>1, <1>2, <1>3, <1>5, <2>1 DEF RunInv
  <2>4. Remembered(r)'
    BY <1>1, <1>2, <1>3, <1>5, <2>1 DEF Remembered, RunInv
  <2> QED BY <2>2, <2>3, <2>4, TouchKeeps
<1> QED BY <1>4, <1>5

-----------------------------------------------------------------------------
\* The answer to a cancellation that may release the job it was for.
LEMMA CallReplyKeeps ==
  ASSUME PageInv, NEW r \in Runs, ~run[r].fresh, run[r].pc # "new",
         UNCHANGED <<run, job, asked, mounted, swaps>>, OtherTypes',
         \A q \in Runs \ {r} : cancels'[q] = cancels[q] /\ evictions'[q] = evictions[q],
         Good(ws', mounted),
         HeldBy(ws) \ {r} \subseteq HeldBy(ws'), HeldBy(ws') \subseteq HeldBy(ws) \cup {r},
         \/ ws'.attempt = ws.attempt /\ ws'.active = ws.active /\ ws'.source = ws.source
         \/ ws.active = r,
         job[r] = "live" /\ mounted => run[r].pc = "dropping" \/ r \in HeldBy(ws')
  PROVE  PageInv'
<1>1. OtherTypes /\ Remembered(r)
  BY DEF PageInv
<1>2. RunInv(r)' /\ Remembered(r)'
  BY <1>1 DEF RunInv, Remembered
<1>3. Touches(r)
  BY <1>1 DEF Touches, OtherTypes
<1> QED BY <1>2, <1>3, TouchKeeps

LEMMA CancelReplyKeeps ==
  ASSUME PageInv, NEW r \in Runs, CancelReply(r)
  PROVE  PageInv'
<1> USE DEF CancelReply
<1>1. Good(ws, mounted) /\ RunInv(r) /\ OtherTypes
  BY DEF PageInv
<1>2. ~run[r].fresh /\ run[r].pc # "new"
  BY <1>1 DEF RunInv
<1>3. OtherTypes' /\ \A q \in Runs \ {r} : cancels'[q] = cancels[q] /\ evictions'[q] = evictions[q]
  BY <1>1, BoundsAssumption DEF OtherTypes
<1>4. CASE ws' = ws
  BY <1>1, <1>2, <1>3, <1>4, WaitingIsHeld, CallReplyKeeps
<1>5. CASE ws.active = r /\ Deleted(r) /\ ws' = Resting(BoundReleased(ws))
  BY <1>2, <1>3, <1>5, ReleaseFacts, CallReplyKeeps DEF Deleted
<1>6. CASE ws.active = r /\ ws' = Resting(ws)
  <2>1. /\ Good(ws', mounted) /\ HeldBy(ws') = HeldBy(ws)
        /\ ws'.attempt = ws.attempt /\ ws'.active = ws.active /\ ws'.source = ws.source
    BY <1>1, <1>6, RestingKeeps
  <2> QED BY <1>2, <1>3, <1>6, <2>1, WaitingIsHeld, CallReplyKeeps
<1> QED BY <1>4, <1>5, <1>6

LEMMA EvictReplyKeeps ==
  ASSUME PageInv, NEW r \in Runs, EvictReply(r)
  PROVE  PageInv'
<1> USE DEF EvictReply
<1>1. Good(ws, mounted) /\ RunInv(r) /\ OtherTypes
  BY DEF PageInv
<1>2. ~run[r].fresh /\ run[r].pc # "new"
  BY <1>1 DEF RunInv
<1>3. OtherTypes' /\ \A q \in Runs \ {r} : cancels'[q] = cancels[q] /\ evictions'[q] = evictions[q]
  BY <1>1 DEF OtherTypes
<1>4. CASE ws' = ws
  BY <1>1, <1>2, <1>3, <1>4, WaitingIsHeld, CallReplyKeeps
<1>5. CASE ws.active = r /\ Deleted(r) /\ ws' = BoundReleased(ws)
  BY <1>2, <1>3, <1>5, ReleaseFacts, CallReplyKeeps DEF Deleted
<1>6. CASE ~mounted /\ ws.active = r
           /\ ws' = [ws EXCEPT !.active = None, !.lock = FALSE, !.stage = "idle"]
  <2>1. /\ Good(ws', mounted) /\ HeldBy(ws') \subseteq HeldBy(ws)
        /\ HeldBy(ws) \ {r} \subseteq HeldBy(ws')
    BY <1>1, <1>6, NoneAssumption DEF Good, MutexShape, HeldBy, Workspaces
  <2> QED BY <1>2, <1>3, <1>6, <2>1, CallReplyKeeps
<1> QED BY <1>4, <1>5, <1>6

\* A new generation: no run is current, the page keeps what it holds.
LEMMA StaleKeeps ==
  ASSUME PageInv, run' = Stale, UNCHANGED job, Good(ws', mounted'), OtherTypes',
         HeldBy(ws') \subseteq HeldBy(ws),
         \A q \in Runs : /\ Remembered(q)'
                         /\ cancels'[q] > 0 \/ evictions'[q] > 0 =>
                              cancels[q] > 0 \/ evictions[q] > 0 \/ q \in HeldBy(ws)
  PROVE  PageInv'
<1> SUFFICES ASSUME NEW q \in Runs PROVE RunInv(q)'
  BY DEF PageInv
<1>1. RunInv(q) /\ run'[q].fresh = FALSE /\ run'[q].pc = run[q].pc
  BY DEF PageInv, OtherTypes, Stale
<1> QED BY <1>1 DEF RunInv

LEMMA StaleTypes ==
  ASSUME OtherTypes
  PROVE  /\ Stale \in [Runs -> [pc: Waits, kind: {"source", "derived"}, fresh: BOOLEAN, cancel: BOOLEAN]]
         /\ \A q \in Runs : Stale[q].pc = run[q].pc
  BY DEF OtherTypes, Stale

LEMMA AbortKeeps ==
  ASSUME PageInv, run' = Stale, UNCHANGED <<job, evictions, mounted, swaps>>,
         cancels' \in [Runs -> 0..MaxCancels],
         \A q \in Runs : cancels'[q] = cancels[q] \/ q \in HeldBy(ws),
         asked \subseteq asked', asked' \subseteq Runs,
         Good(ws', mounted), HeldBy(ws') = HeldBy(ws)
  PROVE  PageInv'
<1>1. OtherTypes'
  BY StaleTypes DEF PageInv, OtherTypes
<1>2. ASSUME NEW q \in Runs PROVE Remembered(q)'
  BY StaleTypes DEF PageInv, Remembered
<1> QED BY <1>1, <1>2, StaleKeeps

\* Only the controls of the page change.
LEMMA AbortedKeeps ==
  ASSUME NEW m, NEW w, Good(w, m)
  PROVE  /\ Good(Aborted(w), m) /\ HeldBy(Aborted(w)) = HeldBy(w)
         /\ Aborted(w).attempt = w.attempt /\ Aborted(w).active = w.active
         /\ Aborted(w).source = w.source
  BY DEF Good, MutexShape, HeldBy, Aborted, Workspaces

LEMMA EditKeeps == ASSUME PageInv, Edit PROVE PageInv'
<1>1. Good(ws', mounted) /\ HeldBy(ws') = HeldBy(ws)
  BY AbortedKeeps DEF Edit, PageInv
<1> QED BY <1>1, AbortKeeps DEF Edit, PageInv, OtherTypes

LEMMA ActivateKeeps == ASSUME PageInv, Activate PROVE PageInv'
<1>1. Good(Aborted(ws), mounted) /\ HeldBy(Aborted(ws)) = HeldBy(ws)
  BY AbortedKeeps DEF PageInv
<1>2. ws' = [Aborted(ws) EXCEPT !.activating = TRUE] /\ ws.source # None
      /\ Aborted(ws).ending = "no"
  BY DEF Activate, MutationLocked, Aborted, PageInv, Good, Workspaces
<1>3. Good(ws', mounted) /\ HeldBy(ws') = HeldBy(ws)
  BY <1>1, <1>2 DEF Good, MutexShape, HeldBy, Workspaces
<1>4. ws.source \in Runs
  BY <1>2 DEF PageInv, Good, Workspaces
<1> QED BY <1>3, <1>4, AbortKeeps DEF Activate, PageInv, OtherTypes

LEMMA EndSessionKeeps == ASSUME PageInv, EndSession PROVE PageInv'
<1>1. Good(Aborted(ws), mounted) /\ HeldBy(Aborted(ws)) = HeldBy(ws)
  BY AbortedKeeps DEF PageInv
<1>2. PICK e \in {"closing", "deleting"} :
        /\ ws' = [Aborted(ws) EXCEPT !.status = "cancelling", !.ending = e]
        /\ Aborted(ws).source # None /\ Aborted(ws).activating = FALSE
  BY DEF EndSession, Aborted, PageInv, Good, Workspaces
<1>3. Good(ws', mounted) /\ HeldBy(ws') = HeldBy(ws)
  BY <1>1, <1>2 DEF Good, MutexShape, HeldBy, Workspaces, Statuses
<1>4. ws.source \in Runs
  BY DEF EndSession, PageInv, Good, Workspaces
<1> QED BY <1>3, <1>4, AbortKeeps DEF EndSession, PageInv, OtherTypes

LEMMA CancelJobKeeps == ASSUME PageInv, CancelJob PROVE PageInv'
<1>1. Good(ws', mounted) /\ HeldBy(ws') = HeldBy(ws) /\ ws.active \in Runs
  BY DEF CancelJob, PageInv, Good, MutexShape, HeldBy, Workspaces, Statuses
<1>2. ws.active \in HeldBy(ws)
  BY DEF CancelJob, HeldBy
<1>3. cancels' \in [Runs -> 0..MaxCancels]
  BY <1>1, BoundsAssumption DEF CancelJob, PageInv, OtherTypes
<1>4. \A q \in Runs : cancels'[q] = cancels[q] \/ q \in HeldBy(ws)
  BY <1>1, <1>2 DEF CancelJob, PageInv, OtherTypes
<1> QED BY <1>1, <1>3, <1>4, AbortKeeps DEF CancelJob, PageInv, OtherTypes
\* Only the controls of the page change, or the source is given up after its
\* deletion was seen.
LEMMA ControlKeeps ==
  ASSUME PageInv, UNCHANGED <<run, job, cancels, evictions, mounted, swaps>>,
         asked \subseteq asked', asked' \subseteq Runs, Good(ws', mounted),
         ws'.attempt = ws.attempt, ws'.active = ws.active,
         ws'.source = ws.source \/ ws'.source = None,
         HeldBy(ws') \subseteq HeldBy(ws),
         \A q \in Runs : job[q] = "live" /\ q \in HeldBy(ws) => q \in HeldBy(ws')
  PROVE  PageInv'
<1>1. OtherTypes'
  BY DEF PageInv, OtherTypes
<1>2. ASSUME NEW q \in Runs PROVE RunInv(q)' /\ Remembered(q)'
  BY DEF PageInv, RunInv, Remembered
<1> QED BY <1>1, <1>2 DEF PageInv

LEMMA ReadyDoneKeeps == ASSUME PageInv, ReadyDone PROVE PageInv'
<1>1. /\ Good(ws', mounted) /\ HeldBy(ws') = HeldBy(ws)
      /\ ws'.attempt = ws.attempt /\ ws'.active = ws.active /\ ws'.source = ws.source
  BY DEF ReadyDone, PageInv, Good, MutexShape, HeldBy, Resting, Workspaces, Statuses
<1> QED BY <1>1, ControlKeeps DEF ReadyDone, PageInv, OtherTypes

\* The source is dropped, its deletion seen, and with it nothing but the source.
LEMMA SourceDropKeeps ==
  ASSUME NEW m, NEW w, Good(w, m), NEW w2,
         w2 \in Workspaces, w2.source = None, w2.attempt = w.attempt, w2.active = w.active,
         w2.deferred = w.deferred, w2.stage = w.stage, w2.lock = w.lock, w2.pending = w.pending,
         w2.ending = "no"
  PROVE  /\ Good(w2, m) /\ HeldBy(w2) \subseteq HeldBy(w)
         /\ HeldBy(w) \ {w.source} \subseteq HeldBy(w2)
  BY DEF Good, MutexShape, HeldBy

LEMMA ActivateReplyKeeps == ASSUME PageInv, ActivateReply PROVE PageInv'
<1> USE DEF ActivateReply
<1>1. Good(ws, mounted) /\ asked \subseteq Runs
  BY DEF PageInv, OtherTypes
<1>2. CASE Deleted(ws.source) /\ ws' = [ws EXCEPT !.activating = FALSE, !.source = None]
  <2>1. /\ ws' \in Workspaces /\ ws'.source = None /\ ws'.attempt = ws.attempt
        /\ ws'.active = ws.active /\ ws'.deferred = ws.deferred /\ ws'.stage = ws.stage
        /\ ws'.lock = ws.lock /\ ws'.pending = ws.pending /\ ws'.ending = "no"
    BY <1>1, <1>2 DEF Good, MutexShape, Workspaces
  <2>2. /\ Good(ws', mounted) /\ HeldBy(ws') \subseteq HeldBy(ws)
        /\ HeldBy(ws) \ {ws.source} \subseteq HeldBy(ws')
    BY <1>1, <2>1, SourceDropKeeps
  <2> QED BY <1>1, <1>2, <2>1, <2>2, ControlKeeps DEF Deleted
<1>3. CASE ws' = Resting([ws EXCEPT !.activating = FALSE])
  <2>1. /\ Good(ws', mounted) /\ HeldBy(ws') = HeldBy(ws)
        /\ ws'.attempt = ws.attempt /\ ws'.active = ws.active /\ ws'.source = ws.source
    BY <1>1, <1>3 DEF Good, MutexShape, HeldBy, Resting, Workspaces, Statuses
  <2> QED BY <1>1, <2>1, ControlKeeps
<1> QED BY <1>2, <1>3

LEMMA EndReplyKeeps == ASSUME PageInv, EndReply PROVE PageInv'
<1> USE DEF EndReply
<1>1. Good(ws, mounted) /\ asked \subseteq Runs
  BY DEF PageInv, OtherTypes
<1>2. CASE Deleted(ws.source) /\ ws' = Resting([ws EXCEPT !.ending = "no", !.source = None])
  <2>1. /\ ws' \in Workspaces /\ ws'.source = None /\ ws'.attempt = ws.attempt
        /\ ws'.active = ws.active /\ ws'.deferred = ws.deferred /\ ws'.stage = ws.stage
        /\ ws'.lock = ws.lock /\ ws'.pending = ws.pending /\ ws'.ending = "no"
    BY <1>1, <1>2 DEF Good, Workspaces, Resting, Statuses
  <2>2. /\ Good(ws', mounted) /\ HeldBy(ws') \subseteq HeldBy(ws)
        /\ HeldBy(ws) \ {ws.source} \subseteq HeldBy(ws')
    BY <1>1, <2>1, SourceDropKeeps
  <2> QED BY <1>1, <1>2, <2>1, <2>2, ControlKeeps DEF Deleted
<1>3. CASE ws' = Resting([ws EXCEPT !.ending = "no"])
  <2>1. /\ Good(ws', mounted) /\ HeldBy(ws') = HeldBy(ws)
        /\ ws'.attempt = ws.attempt /\ ws'.active = ws.active /\ ws'.source = ws.source
    BY <1>1, <1>3 DEF Good, MutexShape, HeldBy, Resting, Workspaces, Statuses
  <2> QED BY <1>1, <2>1, ControlKeeps
<1> QED BY <1>2, <1>3
LEMMA DiscardReplyKeeps == ASSUME PageInv, DiscardReply PROVE PageInv'
<1> USE DEF DiscardReply
<1>1. Good(ws, mounted) /\ asked \subseteq Runs /\ ws.source \in Runs
  BY DEF PageInv, OtherTypes, Good, MutexShape, Workspaces
<1>2. PICK e \in {"no", "deleting"} :
        ws' = [ws EXCEPT !.ending = e] \/ ws' = Resting([ws EXCEPT !.ending = e])
  OBVIOUS
<1>3. /\ Good(ws', mounted) /\ HeldBy(ws') = HeldBy(ws)
      /\ ws'.attempt = ws.attempt /\ ws'.active = ws.active /\ ws'.source = ws.source
  BY <1>1, <1>2 DEF Good, MutexShape, HeldBy, Resting, Workspaces, Statuses
<1> QED BY <1>1, <1>3, ControlKeeps

LEMMA CancelBindingKeeps == ASSUME PageInv, CancelBinding PROVE PageInv'
<1> USE DEF CancelBinding
<1>1. Good(ws', mounted) /\ HeldBy(ws') = HeldBy(ws)
  BY DEF PageInv, Good, MutexShape, HeldBy, Workspaces, Statuses
<1>2. ws'.attempt = ws.attempt /\ ws'.active = ws.active /\ ws'.source = ws.source
  BY DEF PageInv, Good, Workspaces
<1>3. OtherTypes'
  BY DEF PageInv, OtherTypes
<1>4. ASSUME NEW q \in Runs
      PROVE  run'[q].pc = run[q].pc /\ run'[q].kind = run[q].kind /\ run'[q].fresh = run[q].fresh
  BY DEF PageInv, OtherTypes
<1>5. ASSUME NEW q \in Runs PROVE RunInv(q)' /\ Remembered(q)'
  BY <1>1, <1>2, <1>4 DEF PageInv, RunInv, Remembered
<1> QED BY <1>1, <1>3, <1>5 DEF PageInv

LEMMA ServiceDeletesKeeps ==
  ASSUME PageInv, NEW r \in Runs, ServiceDeletes(r) PROVE PageInv'
<1> USE DEF ServiceDeletes
<1>1. Good(ws, mounted)' /\ OtherTypes'
  BY DEF PageInv, OtherTypes
<1>2. ASSUME NEW q \in Runs PROVE RunInv(q)' /\ Remembered(q)'
  BY DEF PageInv, OtherTypes, RunInv, Remembered
<1> QED BY <1>1, <1>2 DEF PageInv

\* A run begins on a page that holds no job but the source, and only a run that
\* finds no source may become one.
LEMMA StartRunKeeps ==
  ASSUME PageInv, NEW r \in Runs, NEW kind \in {"source", "derived"}, StartRun(r, kind)
  PROVE  PageInv'
<1> USE DEF StartRun
<1>1. /\ Good(ws, mounted) /\ OtherTypes /\ RunInv(r) /\ Remembered(r)
      /\ Good(Aborted(ws), mounted) /\ HeldBy(Aborted(ws)) = HeldBy(ws)
      /\ Aborted(ws).source = ws.source /\ Aborted(ws).active = ws.active
  BY AbortedKeeps DEF PageInv
<1>2. /\ Aborted(ws).active = None /\ ws.deferred = <<>> /\ ws.pending = FALSE
      /\ Aborted(ws).deferred = <<>> /\ Aborted(ws).pending = FALSE /\ ws.ending = "no"
      /\ Aborted(ws).ending = "no"
  BY <1>1 DEF MutationLocked, Good, MutexShape, Aborted, Workspaces
<1>3. ws' \in Workspaces /\ ws'.attempt = r /\ ws'.active = None /\ ws'.source = ws.source
  BY <1>1, <1>2 DEF Good, Workspaces, Statuses
<1>4. Good(ws', mounted) /\ HeldBy(ws') = HeldBy(ws)
  BY <1>1, <1>2, <1>3, NoneAssumption DEF Good, MutexShape, HeldBy, Workspaces
<1>5. /\ run' \in [Runs -> [pc: Waits, kind: {"source", "derived"}, fresh: BOOLEAN, cancel: BOOLEAN]]
      /\ run'[r] = [pc |-> "binding", kind |-> kind, fresh |-> TRUE, cancel |-> FALSE]
      /\ \A q \in Runs \ {r} : run'[q].pc = run[q].pc /\ run'[q].fresh = FALSE
  BY <1>1, StaleTypes DEF Stale, OtherTypes, Waits
<1>6. OtherTypes'
  BY <1>1, <1>5 DEF OtherTypes
<1>7. r \notin HeldBy(ws) /\ ~(cancels[r] > 0 \/ evictions[r] > 0) /\ job[r] # "live"
  BY <1>1 DEF RunInv, Remembered
<1>8. RunInv(r)' /\ Remembered(r)'
  BY <1>1, <1>3, <1>4, <1>5, <1>7 DEF RunInv, Remembered
<1>9. ASSUME NEW q \in Runs \ {r} PROVE RunInv(q)' /\ Remembered(q)'
  BY <1>4, <1>5 DEF PageInv, RunInv, Remembered
<1> QED BY <1>4, <1>6, <1>8, <1>9 DEF PageInv

-----------------------------------------------------------------------------
\* An effect cleanup gives up the binding attempt and keeps what is held.
LEMMA LeftBehindKeeps ==
  ASSUME NEW m, NEW w, Good(w, m)
  PROVE  /\ Good(LeftBehind(w), m) /\ HeldBy(LeftBehind(w)) = HeldBy(w)
         /\ {LeftBehind(w).active, LeftBehind(w).source} \ {None} \subseteq HeldBy(w)
         /\ HeldBy(w) \subseteq Runs
<1>1. ASSUME w.attempt = None
      PROVE  Good(LeftBehind(w), m) /\ HeldBy(LeftBehind(w)) = HeldBy(w)
  <2>1. LeftBehind(w) = Aborted(w)
    BY <1>1 DEF LeftBehind
  <2> QED BY <2>1, AbortedKeeps
<1>2. ASSUME w.attempt # None
      PROVE  Good(LeftBehind(w), m) /\ HeldBy(LeftBehind(w)) = HeldBy(w)
  <2>1. LeftBehind(w) = Aborted(BindingReleased(w))
    BY <1>2 DEF LeftBehind
  <2>2. Good(BindingReleased(w), m) /\ HeldBy(BindingReleased(w)) = HeldBy(w)
    BY <1>2, BindingReleaseKeeps
  <2> QED BY <2>1, <2>2, AbortedKeeps
<1>3. HeldBy(w) \subseteq Runs
  BY SetOfRuns DEF HeldBy, Good, Workspaces
<1>4. Good(LeftBehind(w), m) /\ HeldBy(LeftBehind(w)) = HeldBy(w)
  BY <1>1, <1>2
<1> QED BY <1>3, <1>4 DEF HeldBy

\* It begins a cancellation of the active job at most.
LEMMA EvictCounts ==
  ASSUME OtherTypes, NEW w, Evict(w)
  PROVE  /\ evictions' \in [Runs -> Nat]
         /\ \A q \in Runs : /\ evictions'[q] <= evictions[q] + 1
                            /\ evictions'[q] > 0 => evictions[q] > 0 \/ q = w.active
  BY DEF OtherTypes, Evict

LEMMA SwapKeeps == ASSUME PageInv, Swap PROVE PageInv'
<1> DEFINE left == LeftBehind(ws)
<1>1. /\ Good(left, mounted) /\ HeldBy(left) = HeldBy(ws) /\ HeldBy(ws) \subseteq Runs
      /\ {left.active, left.source} \ {None} \subseteq HeldBy(ws)
  BY LeftBehindKeeps DEF PageInv
<1>2. /\ ws' = [left EXCEPT !.checking = TRUE] /\ Evict(left) /\ run' = Stale
      /\ asked' = asked \cup ({left.active, left.source} \ {None})
      /\ swaps' = swaps + 1 /\ swaps < MaxSwaps /\ mounted = TRUE
      /\ UNCHANGED <<job, cancels, mounted>>
  BY DEF Swap, PageInv, OtherTypes
<1>3. Good(ws', mounted) /\ HeldBy(ws') = HeldBy(ws)
  <2> HIDE DEF left
  <2> QED BY <1>1, <1>2 DEF Good, MutexShape, HeldBy, Workspaces
<1>4. /\ evictions' \in [Runs -> Nat]
      /\ \A q \in Runs : /\ evictions'[q] <= evictions[q] + 1
                         /\ evictions'[q] > 0 => evictions[q] > 0 \/ q = left.active
  BY <1>2, EvictCounts DEF PageInv
<1>5. OtherTypes'
  <2> HIDE DEF left
  <2>1. ASSUME NEW q \in Runs PROVE evictions'[q] <= swaps' + (IF mounted' THEN 0 ELSE 1)
    <3>1. evictions[q] \in Nat /\ evictions[q] <= swaps /\ swaps \in Nat
      BY <1>2, BoundsAssumption DEF PageInv, OtherTypes
    <3>2. evictions'[q] \in Nat /\ evictions'[q] <= evictions[q] + 1
      BY <1>4
    <3>3. swaps' = swaps + 1 /\ mounted' = TRUE
      BY <1>2
    <3> QED BY <3>1, <3>2, <3>3
  <2> QED BY <1>1, <1>2, <1>4, <2>1, StaleTypes, BoundsAssumption DEF PageInv, OtherTypes
<1>6. ASSUME NEW q \in Runs
      PROVE  /\ Remembered(q)'
             /\ cancels'[q] > 0 \/ evictions'[q] > 0 =>
                  cancels[q] > 0 \/ evictions[q] > 0 \/ q \in HeldBy(ws)
  <2>1. q = left.active => q \in HeldBy(ws)
    BY <1>1, NoneAssumption
  <2>2. Remembered(q)'
    BY <1>2, <1>3, StaleTypes DEF PageInv, Remembered
  <2> HIDE DEF left
  <2>3. evictions'[q] > 0 => evictions[q] > 0 \/ q = left.active
    BY <1>4
  <2>4. cancels' = cancels
    BY <1>2
  <2> QED BY <2>1, <2>2, <2>3, <2>4
<1> QED BY <1>2, <1>3, <1>5, <1>6, StaleKeeps

\* Leaving the page asks for the deletion of every job that is held, and of those
\* a handler is dropping.
LEMMA UnmountKeeps == ASSUME PageInv, Unmount PROVE PageInv'
<1> DEFINE alone == [ws EXCEPT !.deferred = <<>>]
           left == LeftBehind(alone)
<1>1. Good(ws, mounted) /\ OtherTypes /\ mounted = TRUE
  BY DEF PageInv, OtherTypes, Unmount
<1>2. <<>> \in Seq(Runs) /\ ToSet(<<>>) = {}
  BY DEF ToSet
<1>3. /\ Good(alone, FALSE) /\ alone.deferred = <<>>
      /\ HeldBy(alone) = {ws.active, ws.source} \ {None}
  BY <1>1, <1>2 DEF Good, MutexShape, HeldBy, Workspaces
<1>4. /\ Good(left, FALSE) /\ HeldBy(left) = HeldBy(alone) /\ HeldBy(alone) \subseteq Runs
      /\ {left.active, left.source} \ {None} \subseteq HeldBy(alone)
  <2> HIDE DEF alone
  <2> QED BY <1>3, LeftBehindKeeps
<1>5. left.active = ws.active /\ left.source = ws.source
  <2>1. alone.active = ws.active /\ alone.source = ws.source /\ alone \in Workspaces
    BY <1>1, <1>2 DEF Good, Workspaces
  <2> HIDE DEF alone
  <2>2. BindingReleased(alone).active = alone.active /\ BindingReleased(alone).source = alone.source
    BY <1>3, <2>1 DEF BindingReleased, Promotable, Workspaces
  <2>3. BindingReleased(alone) \in Workspaces \/ alone.attempt = None
    BY <1>3, BindingReleaseKeeps DEF Good
  <2> QED BY <2>1, <2>2, <2>3 DEF LeftBehind, Aborted, Workspaces
<1>6. /\ ws' = left /\ Evict(left) /\ run' = Stale /\ mounted' = FALSE
      /\ asked' = ({left.active, left.source} \ {None})
                    \cup ToSet(ws.deferred) \cup {r \in Runs : run[r].pc = "dropping"}
      /\ UNCHANGED <<job, cancels, swaps>>
  BY DEF Unmount
<1>7. ToSet(ws.deferred) \subseteq Runs
  BY <1>1, SetOfRuns DEF Good, Workspaces
<1>8. HeldBy(ws) = HeldBy(alone) \cup ToSet(ws.deferred)
  BY <1>3 DEF HeldBy
<1>9. /\ evictions' \in [Runs -> Nat]
      /\ \A q \in Runs : /\ evictions'[q] <= evictions[q] + 1
                         /\ evictions'[q] > 0 => evictions[q] > 0 \/ q = left.active
  BY <1>1, <1>6, EvictCounts
<1> HIDE DEF alone, left
<1>10. OtherTypes'
  <2>1. ASSUME NEW q \in Runs PROVE evictions'[q] <= swaps' + (IF mounted' THEN 0 ELSE 1)
    <3>1. evictions[q] \in Nat /\ evictions[q] <= swaps /\ swaps \in Nat
      BY <1>1, BoundsAssumption DEF OtherTypes
    <3>2. evictions'[q] \in Nat /\ evictions'[q] <= evictions[q] + 1
      BY <1>9
    <3>3. swaps' = swaps /\ mounted' = FALSE
      BY <1>6
    <3> QED BY <3>1, <3>2, <3>3
  <2>2. asked' \subseteq Runs
    BY <1>4, <1>6, <1>7
  <2> QED BY <1>1, <1>6, <1>9, <2>1, <2>2, StaleTypes DEF OtherTypes
<1>11. Good(ws', mounted') /\ HeldBy(ws') \subseteq HeldBy(ws)
  BY <1>4, <1>6, <1>8
<1>12. ASSUME NEW q \in Runs
       PROVE  /\ Remembered(q)'
              /\ cancels'[q] > 0 \/ evictions'[q] > 0 =>
                   cancels[q] > 0 \/ evictions[q] > 0 \/ q \in HeldBy(ws)
  <2>1. q \in HeldBy(ws) \/ run[q].pc = "dropping" => q \in asked'
    BY <1>3, <1>5, <1>6, <1>8
  <2>2. q = left.active => q \in HeldBy(ws)
    BY <1>3, <1>5, <1>8, NoneAssumption
  <2>3. Remembered(q)'
    BY <1>1, <1>6, <2>1 DEF PageInv, Remembered
  <2>4. evictions'[q] > 0 => evictions[q] > 0 \/ q = left.active
    BY <1>9
  <2>5. cancels' = cancels
    BY <1>6
  <2> QED BY <2>2, <2>3, <2>4, <2>5
<1> QED BY <1>6, <1>10, <1>11, <1>12, StaleKeeps

-----------------------------------------------------------------------------
\* Every step of the page, of a handler or of the service keeps the invariant.
LEMMA StepKeeps == ASSUME PageInv, [Next]_vars PROVE PageInv'
<1>1. CASE UNCHANGED vars
  BY <1>1 DEF vars, PageInv, OtherTypes, RunInv, Remembered
<1>2. ASSUME NEW r \in Runs, Step(r) PROVE PageInv'
  <2>1. CASE ServiceDeletes(r)
    BY <2>1, ServiceDeletesKeeps
  <2>2. CASE \E kind \in {"source", "derived"} : StartRun(r, kind)
    BY <2>2, StartRunKeeps
  <2>3. CASE BindReturns(r)
    BY <2>3, BindReturnsKeeps
  <2>4. CASE BindRejects(r)
    BY <2>4, BindRejectsKeeps
  <2>5. CASE Verified(r)
    BY <2>5, VerifiedKeeps
  <2>6. CASE ObserveFails(r)
    BY <2>6, ObserveFailsKeeps
  <2>7. CASE FinishReply(r)
    BY <2>7, FinishReplyKeeps
  <2>8. CASE CleanReply(r)
    BY <2>8, CleanReplyKeeps
  <2>9. CASE EraseReply(r)
    BY <2>9, EraseReplyKeeps
  <2>10. CASE DropReply(r)
    BY <2>10, DropReplyKeeps
  <2>11. CASE CancelReply(r)
    BY <2>11, CancelReplyKeeps
  <2>12. CASE EvictReply(r)
    BY <2>12, EvictReplyKeeps
  <2> QED BY <1>2, <2>1, <2>2, <2>3, <2>4, <2>5, <2>6, <2>7, <2>8, <2>9, <2>10, <2>11, <2>12
         DEF Step
<1>3. CASE CancelBinding
  BY <1>3, CancelBindingKeeps
<1>4. CASE CancelJob
  BY <1>4, CancelJobKeeps
<1>5. CASE Edit
  BY <1>5, EditKeeps
<1>6. CASE Activate
  BY <1>6, ActivateKeeps
<1>7. CASE ActivateReply
  BY <1>7, ActivateReplyKeeps
<1>8. CASE EndSession
  BY <1>8, EndSessionKeeps
<1>9. CASE DiscardReply
  BY <1>9, DiscardReplyKeeps
<1>10. CASE EndReply
  BY <1>10, EndReplyKeeps
<1>11. CASE Swap
  BY <1>11, SwapKeeps
<1>12. CASE ReadyDone
  BY <1>12, ReadyDoneKeeps
<1>13. CASE Unmount
  BY <1>13, UnmountKeeps
<1> QED BY <1>1, <1>2, <1>3, <1>4, <1>5, <1>6, <1>7, <1>8, <1>9, <1>10, <1>11, <1>12, <1>13
       DEF Next

LEMMA PageInvariant == Spec => []PageInv
<1>1. Init => PageInv
  BY InitPage
<1>2. PageInv /\ [Next]_vars => PageInv'
  BY StepKeeps
<1> QED BY <1>1, <1>2, PTL DEF Spec

\* The page's mutex: at any time it binds one run or owns one job, holds its lock
\* exactly then, and the run that is current is the one it binds or owns
\* (remoteJobLockRef, bindingAttemptRef and activeJobRef of the workspace).
THEOREM PageTypes == Spec => []TypeOK
<1>1. PageInv => TypeOK
  BY PageInvImplies
<1> QED BY <1>1, PageInvariant, PTL

\* A job whose capability the page was given stays within the user's reach until
\* its deletion was seen, and leaving the page asks for the deletion of all that
\* are left (recordBoundRemoteJob, retainStaleCleanup, the cleanup of the effect).
THEOREM NoJobIsForgotten == Spec => []NoJobForgotten
<1>1. PageInv => NoJobForgotten
  BY PageInvImplies
<1> QED BY <1>1, PageInvariant, PTL

-----------------------------------------------------------------------------
(* A page on which nothing is in flight is usable.  PageInv does not say who  *)
(* will take the page out of "running" and "cancelling"; UsableInv does.      *)

\* Handlers that wait and, while they are current, keep the page from resting.
Busy == {"binding", "erasing", "observing", "finishing", "cleaning"}

\* The handler of run r is to give up its job, or is about to.
GivesUp(r) == run[r].pc = "erasing" \/ (run[r].pc = "binding" /\ run[r].cancel)

\* A current handler is alone: no check, activation or end of a session is under
\* way.  Until the workflow is replaced, a run that waits for its binding, or for
\* the deletion of what was bound, is current.
HandlerInv(r) ==
  /\ run[r].fresh =>
       /\ ~ws.checking /\ ~ws.activating /\ ws.ending = "no"
       /\ run[r].pc = "erasing" => ws.active = r
       /\ run[r].pc # "dropping"
       /\ run[r].pc \in Busy => ws.status # "rest"
       /\ GivesUp(r) => ws.status = "cancelling"
  /\ swaps = 0 /\ run[r].pc \in {"binding", "erasing", "dropping"} => run[r].fresh

\* A binding attempt has its request under way, and the queue of retained jobs is
\* empty unless a job or an attempt is in front of it.
QueueInv ==
  /\ ws.attempt # None => run[ws.attempt].pc = "binding"
  /\ ws.deferred # <<>> => ws.attempt # None \/ ws.active # None

\* Somebody who is under way will end the status.
StatusInv ==
  /\ ws.status = "running" => ws.checking \/ \E r \in Runs : run[r].fresh /\ run[r].pc \in Busy
  /\ swaps = 0 /\ ws.status = "cancelling" =>
       \/ ws.ending # "no"
       \/ \E r \in Runs : run[r].fresh /\ GivesUp(r)
       \/ ws.active # None /\ cancels[ws.active] > 0

UsableInv == mounted => QueueInv /\ StatusInv /\ \A r \in Runs : HandlerInv(r)

LEMMA InitUsable == ASSUME Init PROVE UsableInv
  BY DEF Init, UsableInv, QueueInv, StatusInv, HandlerInv, GivesUp, Busy

LEMMA UsableImplies == ASSUME PageInv, UsableInv PROVE IdlePageIsUsable
<1> SUFFICES ASSUME mounted, Quiet
             PROVE  /\ ws.lock => ws.active # None /\ ws.pending
                    /\ ~ws.lock => ws.stage = "idle" /\ ~ws.pending /\ ws.deferred = <<>>
                    /\ ws.status = "rest" \/ (swaps > 0 /\ ws.status = "cancelling")
  BY DEF IdlePageIsUsable
<1>1. QueueInv /\ StatusInv /\ Good(ws, mounted)
  BY DEF UsableInv, PageInv
<1>2. \A r \in Runs : run[r].pc \in {"new", "done"} /\ cancels[r] = 0
  BY DEF Quiet
<1>3. ws.attempt = None
  BY <1>1, <1>2 DEF QueueInv, Good, Workspaces
<1>4. ws.lock => ws.active # None /\ ws.pending
  BY <1>1, <1>3 DEF Good, MutexShape
<1>5. ~ws.lock => ws.stage = "idle" /\ ~ws.pending /\ ws.deferred = <<>>
  BY <1>1, <1>3 DEF Good, MutexShape, QueueInv
<1>6. ws.status # "running"
  BY <1>1, <1>2 DEF StatusInv, Quiet, Busy
<1>7. ws.status = "cancelling" => swaps # 0
  <2> SUFFICES ASSUME ws.status = "cancelling", swaps = 0 PROVE FALSE
    OBVIOUS
  <2>1. ~(ws.active # None /\ cancels[ws.active] > 0)
    BY <1>1, <1>2 DEF Good, Workspaces
  <2>2. \A r \in Runs : ~GivesUp(r)
    BY <1>2 DEF GivesUp
  <2> QED BY <1>1, <2>1, <2>2 DEF StatusInv, Quiet
<1>8. ws.status \in {"rest", "running", "cancelling"} /\ swaps \in Nat
  BY <1>1, BoundsAssumption DEF Good, Workspaces, Statuses, PageInv, OtherTypes
<1> QED BY <1>4, <1>5, <1>6, <1>7, <1>8

\* Whoever owns the active job or the attempt is the only busy handler that is
\* current; where nobody does there is none.
LEMMA OthersIdle ==
  ASSUME PageInv, UsableInv, mounted, NEW q \in Runs, run[q].fresh, run[q].pc \in Busy
  PROVE  /\ ws.active = q \/ ws.attempt = q
         /\ ws.attempt = q => ws.active = None
         /\ ws.active = q => ws.attempt = None
<1>1. RunInv(q) /\ HandlerInv(q) /\ Good(ws, mounted)
  BY DEF PageInv, UsableInv
<1>2. ws.active = q \/ ws.attempt = q
  BY <1>1 DEF RunInv, HandlerInv, Busy
<1> QED BY <1>1, <1>2, NoneAssumption DEF Good, MutexShape

\* What releasing does to the fields UsableInv is about.
LEMMA BoundReleasedFields ==
  ASSUME NEW w \in Workspaces, w.attempt = None
  PROVE  LET b == BoundReleased(w) IN
         /\ b.attempt = None /\ b.checking = w.checking /\ b.activating = w.activating
         /\ b.ending = w.ending /\ b.status \in {w.status, "rest"}
         /\ b.deferred # <<>> => b.active # None
         /\ b.stage = "bound" => b.status = "rest"
<1> DEFINE freed == [w EXCEPT !.active = None]
<1>1. /\ freed \in Workspaces /\ freed.attempt = None /\ freed.active = None
      /\ freed.checking = w.checking /\ freed.activating = w.activating
      /\ freed.ending = w.ending /\ freed.status = w.status
  BY DEF Workspaces
<1>2. CASE Promotable(freed)
  <2>1. BoundReleased(w) = Promoted(freed)
    BY <1>2 DEF BoundReleased
  <2>2. freed.deferred \in Seq(Runs) /\ freed.deferred # <<>>
    BY <1>1, <1>2 DEF Promotable, Workspaces
  <2>3. Head(freed.deferred) # None
    BY <2>2, SetOfTail, NoneAssumption
  <2> HIDE DEF freed
  <2> QED BY <1>1, <2>1, <2>3 DEF Promoted, Workspaces
<1>3. CASE ~Promotable(freed)
  <2>1. BoundReleased(w) = [freed EXCEPT !.pending = FALSE, !.lock = FALSE, !.stage = "idle"]
    BY <1>3 DEF BoundReleased
  <2>2. freed.deferred = <<>>
    BY <1>1, <1>3 DEF Promotable
  <2> HIDE DEF freed
  <2> QED BY <1>1, <2>1, <2>2 DEF Workspaces
<1> QED BY <1>2, <1>3

LEMMA BindingReleasedFields ==
  ASSUME NEW w \in Workspaces, w.active = None
  PROVE  LET b == BindingReleased(w) IN
         /\ b.attempt = None /\ b.checking = w.checking /\ b.activating = w.activating
         /\ b.ending = w.ending /\ b.status \in {w.status, "rest"}
         /\ b.deferred # <<>> => b.active # None
         /\ b.stage = "bound" => b.status = "rest"
<1> DEFINE freed == [w EXCEPT !.attempt = None]
<1>1. /\ freed \in Workspaces /\ freed.attempt = None /\ freed.active = None
      /\ freed.checking = w.checking /\ freed.activating = w.activating
      /\ freed.ending = w.ending /\ freed.status = w.status
  BY DEF Workspaces
<1>2. CASE Promotable(freed)
  <2>1. BindingReleased(w) = Promoted(freed)
    BY <1>2 DEF BindingReleased
  <2>2. freed.deferred \in Seq(Runs) /\ freed.deferred # <<>>
    BY <1>1, <1>2 DEF Promotable, Workspaces
  <2>3. Head(freed.deferred) # None
    BY <2>2, SetOfTail, NoneAssumption
  <2> HIDE DEF freed
  <2> QED BY <1>1, <2>1, <2>3 DEF Promoted, Workspaces
<1>3. CASE ~Promotable(freed)
  <2>1. BindingReleased(w) = [freed EXCEPT !.lock = FALSE, !.stage = "idle"]
    BY <1>3 DEF BindingReleased
  <2>2. freed.deferred = <<>>
    BY <1>1, <1>3 DEF Promotable
  <2> HIDE DEF freed
  <2> QED BY <1>1, <2>1, <2>2 DEF Workspaces
<1> QED BY <1>2, <1>3

LEMMA RestingFields ==
  ASSUME NEW w \in Workspaces
  PROVE  LET b == Resting(w) IN
         /\ b.attempt = w.attempt /\ b.active = w.active /\ b.checking = w.checking
         /\ b.activating = w.activating /\ b.ending = w.ending /\ b.status = "rest"
         /\ b.deferred = w.deferred /\ b.stage = w.stage /\ b \in Workspaces
  BY DEF Resting, Workspaces, Statuses

SameControls == ws'.checking = ws.checking /\ ws'.activating = ws.activating /\ ws'.ending = ws.ending

\* The handler of run r ends.  If it was current and busy the page rests; it
\* touches attempt, job and status only as their owner, or where there is none.
LEMMA EndsUsable ==
  ASSUME PageInv, UsableInv, mounted, NEW r \in Runs, Goes(r, "done"),
         UNCHANGED <<cancels, mounted, swaps>>, SameControls,
         ws'.attempt \in {ws.attempt, None},
         ws.attempt = r => ws'.attempt = None,
         ws'.deferred # <<>> => ws'.attempt # None \/ ws'.active # None,
         ws'.status \in {ws.status, "rest"},
         \/ ws.active = r \/ ws.attempt = r
         \/ ws'.active = ws.active /\ ws'.status = ws.status
         \/ ws.active = None /\ ws.attempt = None,
         run[r].fresh /\ run[r].pc \in Busy => ws'.status = "rest",
         swaps = 0 => ws'.status = "rest" \/ ws'.active = ws.active
  PROVE  UsableInv'
<1>1. QueueInv /\ StatusInv /\ \A q \in Runs : HandlerInv(q)
  BY DEF UsableInv
<1>2. /\ run'[r].pc = "done" /\ run'[r].fresh = run[r].fresh
      /\ \A q \in Runs \ {r} : run'[q] = run[q]
  BY DEF Goes, PageInv, OtherTypes
<1>3. QueueInv'
  <2>1. ASSUME ws'.attempt # None PROVE run'[ws'.attempt].pc = "binding"
    <3>1. ws'.attempt = ws.attempt /\ ws.attempt # r /\ ws.attempt \in Runs
      BY <2>1 DEF PageInv, Good, Workspaces
    <3> QED BY <1>1, <1>2, <2>1, <3>1 DEF QueueInv
  <2> QED BY <2>1 DEF QueueInv
<1>4. ASSUME NEW q \in Runs \ {r}, run[q].fresh, run[q].pc \in Busy
      PROVE  ws'.active = ws.active /\ ws'.status = ws.status
  <2>1. ws.active = q \/ ws.attempt = q
    BY <1>4, OthersIdle
  <2>2. ~(ws.active = r \/ ws.attempt = r)
    BY <1>4, <2>1, OthersIdle, NoneAssumption
  <2>3. ~(ws.active = None /\ ws.attempt = None)
    BY <2>1, NoneAssumption
  <2> QED BY <2>2, <2>3
<1>5. ASSUME NEW q \in Runs PROVE HandlerInv(q)'
  <2>1. CASE q = r
    BY <1>1, <1>2, <2>1 DEF HandlerInv, GivesUp, Busy, SameControls
  <2>2. CASE q # r
    BY <1>1, <1>2, <1>4, <2>2 DEF HandlerInv, GivesUp, Busy, SameControls
  <2> QED BY <2>1, <2>2
<1>6. ASSUME ws'.status # "rest", NEW q \in Runs, run[q].fresh, run[q].pc \in Busy
      PROVE  q # r
  BY <1>6
<1>7. StatusInv'
  <2>1. ASSUME ws'.status = "running"
        PROVE  ws'.checking \/ \E q \in Runs : run'[q].fresh /\ run'[q].pc \in Busy
    <3>1. ws.status = "running"
      BY <2>1
    <3>2. ws.checking \/ \E q \in Runs : run[q].fresh /\ run[q].pc \in Busy
      BY <1>1, <3>1 DEF StatusInv
    <3> QED BY <1>2, <1>6, <2>1, <3>2 DEF SameControls
  <2>2. ASSUME swaps' = 0, ws'.status = "cancelling"
        PROVE  \/ ws'.ending # "no"
               \/ \E q \in Runs : run'[q].fresh /\ GivesUp(q)'
               \/ ws'.active # None /\ cancels'[ws'.active] > 0
    <3>1. ws.status = "cancelling" /\ swaps = 0 /\ ws'.active = ws.active
      BY <2>2
    <3>2. CASE \E q \in Runs : run[q].fresh /\ GivesUp(q)
      <4>1. PICK q \in Runs : run[q].fresh /\ GivesUp(q)
        BY <3>2
      <4>2. q # r
        BY <1>6, <2>2, <4>1 DEF GivesUp, Busy
      <4> QED BY <1>2, <4>1, <4>2 DEF GivesUp
    <3> QED BY <1>1, <3>1, <3>2 DEF StatusInv, SameControls
  <2> QED BY <2>1, <2>2 DEF StatusInv
<1> QED BY <1>3, <1>5, <1>7 DEF UsableInv

\* A current handler asks for the deletion of its job and waits on.
LEMMA AsksUsable ==
  ASSUME PageInv, UsableInv, mounted, NEW r \in Runs, NEW pc \in {"finishing", "cleaning"},
         run[r].fresh, run[r].pc \in {"observing", "finishing"}, Goes(r, pc), ws' = ws,
         UNCHANGED <<cancels, mounted, swaps>>
  PROVE  UsableInv'
<1>1. QueueInv /\ StatusInv /\ \A q \in Runs : HandlerInv(q)
  BY DEF UsableInv
<1>2. /\ run'[r].pc = pc /\ run'[r].fresh = run[r].fresh
      /\ \A q \in Runs \ {r} : run'[q] = run[q]
  BY DEF Goes, PageInv, OtherTypes
<1>3. QueueInv'
  <2>1. ASSUME ws.attempt # None PROVE run'[ws.attempt].pc = "binding"
    <3>1. ws.attempt \in Runs /\ run[ws.attempt].pc = "binding"
      BY <1>1, <2>1 DEF QueueInv, PageInv, Good, Workspaces
    <3> QED BY <1>2, <3>1
  <2> QED BY <1>1, <2>1 DEF QueueInv
<1>4. ASSUME NEW q \in Runs PROVE HandlerInv(q)'
  <2>1. CASE q = r
    BY <1>1, <1>2, <2>1 DEF HandlerInv, GivesUp, Busy
  <2>2. CASE q # r
    BY <1>1, <1>2, <2>2 DEF HandlerInv, GivesUp
  <2> QED BY <2>1, <2>2
<1>5. StatusInv'
  <2>1. ASSUME ws.status = "running"
        PROVE  ws.checking \/ \E q \in Runs : run'[q].fresh /\ run'[q].pc \in Busy
    BY <1>2 DEF Busy
  <2>2. ASSUME NEW q \in Runs, run[q].fresh, GivesUp(q) PROVE run'[q].fresh /\ GivesUp(q)'
    <3>1. q # r
      BY <2>2 DEF GivesUp
    <3> QED BY <1>2, <2>2, <3>1 DEF GivesUp
  <2> QED BY <1>1, <2>1, <2>2 DEF StatusInv
<1> QED BY <1>3, <1>4, <1>5 DEF UsableInv

\* An answer arrives, and no handler goes on: the page may rest, unless a current
\* handler is busy.
LEMMA ReplyUsable ==
  ASSUME PageInv, UsableInv, mounted, run' = run, mounted' = mounted, swaps' = swaps,
         ws'.attempt = ws.attempt,
         ws'.deferred # <<>> => ws'.attempt # None \/ ws'.active # None,
         ws'.checking => ws.checking, ws'.activating => ws.activating,
         ws'.status \in {ws.status, "rest"},
         ws'.status = "running" => ws'.checking = ws.checking,
         \A q \in Runs : run[q].fresh => ws'.ending = ws.ending,
         \A q \in Runs : run[q].fresh /\ run[q].pc \in Busy
                           => ws'.status = ws.status /\ ws'.active = ws.active,
         swaps = 0 /\ ws'.status = "cancelling" =>
           /\ ws.ending # "no" => ws'.ending # "no"
           /\ ws.active # None /\ cancels[ws.active] > 0 =>
                ws'.active = ws.active /\ cancels'[ws.active] > 0
  PROVE  UsableInv'
<1>1. QueueInv /\ StatusInv /\ \A q \in Runs : HandlerInv(q)
  BY DEF UsableInv
<1>2. QueueInv'
  BY <1>1 DEF QueueInv
<1>3. ASSUME NEW q \in Runs PROVE HandlerInv(q)'
  BY <1>1 DEF HandlerInv, GivesUp, Busy
<1>4. StatusInv'
  <2>1. ASSUME ws'.status = "running"
        PROVE  ws'.checking \/ \E q \in Runs : run'[q].fresh /\ run'[q].pc \in Busy
    BY <1>1, <2>1 DEF StatusInv
  <2>2. ASSUME swaps' = 0, ws'.status = "cancelling"
        PROVE  \/ ws'.ending # "no"
               \/ \E q \in Runs : run'[q].fresh /\ GivesUp(q)'
               \/ ws'.active # None /\ cancels'[ws'.active] > 0
    BY <1>1, <2>2 DEF StatusInv, GivesUp
  <2> QED BY <2>1, <2>2 DEF StatusInv
<1> QED BY <1>2, <1>3, <1>4 DEF UsableInv

\* Before the workflow is replaced, no binding and no job that is given up waits
\* under a page that rests, or that has an active job it is not cancelling.
LEMMA NoneWaits ==
  ASSUME PageInv, UsableInv, mounted, swaps = 0,
         ws.status = "rest" \/ (ws.active # None /\ ws.status # "cancelling"),
         NEW q \in Runs
  PROVE  run[q].pc \notin {"binding", "erasing", "dropping"}
<1>1. HandlerInv(q)
  BY DEF UsableInv
<1>2. CASE run[q].pc = "binding"
  <2>1. run[q].fresh /\ ws.attempt = q
    BY <1>1, <1>2 DEF HandlerInv, PageInv, RunInv
  <2>2. ws.active = None
    BY <1>2, <2>1, OthersIdle DEF Busy
  <2> QED BY <1>1, <1>2, <2>1, <2>2 DEF HandlerInv, Busy
<1>3. CASE run[q].pc # "binding"
  BY <1>1, <1>3 DEF HandlerInv, GivesUp, Busy
<1> QED BY <1>2, <1>3

\* A new generation: no handler is current, so somebody else must end the status.
LEMMA StaleUsable ==
  ASSUME PageInv, UsableInv, mounted, run' = Stale,
         ws'.attempt \in {ws.attempt, None},
         ws'.deferred # <<>> => ws'.attempt # None \/ ws'.active # None,
         swaps' = 0 => \A q \in Runs : run[q].pc \notin {"binding", "erasing", "dropping"},
         ws'.status = "running" => ws'.checking,
         swaps' = 0 /\ ws'.status = "cancelling" =>
           ws'.ending # "no" \/ (ws'.active # None /\ cancels'[ws'.active] > 0)
  PROVE  UsableInv'
<1>1. \A q \in Runs : run'[q].pc = run[q].pc /\ run'[q].fresh = FALSE
  BY DEF Stale, PageInv, OtherTypes
<1>2. QueueInv /\ Good(ws, mounted)
  BY DEF UsableInv, PageInv
<1>3. QueueInv'
  BY <1>1, <1>2 DEF QueueInv, Good, Workspaces
<1>4. ASSUME NEW q \in Runs PROVE HandlerInv(q)'
  BY <1>1 DEF HandlerInv
<1>5. StatusInv'
  BY DEF StatusInv
<1> QED BY <1>3, <1>4, <1>5 DEF UsableInv

\* The page releases its job and rests.
LEMMA ReleaseRests ==
  ASSUME NEW w, Good(w, mounted), w.attempt = None, ws' = Resting(BoundReleased(w))
  PROVE  /\ ws'.attempt = None /\ ws'.status = "rest"
         /\ ws'.checking = w.checking /\ ws'.activating = w.activating /\ ws'.ending = w.ending
         /\ ws'.deferred # <<>> => ws'.active # None
<1> DEFINE b == BoundReleased(w)
<1>1. /\ b.attempt = None /\ b.checking = w.checking /\ b.activating = w.activating
      /\ b.ending = w.ending /\ (b.deferred # <<>> => b.active # None)
  BY BoundReleasedFields DEF Good
<1>2. b \in Workspaces
  BY BoundReleaseKeeps DEF Good
<1> HIDE DEF b
<1>3. ws' = Resting(b)
  BY DEF b
<1> QED BY <1>1, <1>2, <1>3, RestingFields

\* A deletion that failed: the page rests over its job.
LEMMA PendingRests ==
  ASSUME ws \in Workspaces, ws' = Resting([ws EXCEPT !.pending = TRUE])
  PROVE  /\ ws'.attempt = ws.attempt /\ ws'.active = ws.active /\ ws'.status = "rest"
         /\ SameControls /\ ws'.deferred = ws.deferred
  BY DEF Resting, SameControls, Workspaces

-----------------------------------------------------------------------------
\* The handler ends without a word to the page, because it is not current.
LEMMA SilentUsable ==
  ASSUME PageInv, UsableInv, mounted, NEW r \in Runs, Goes(r, "done"), ws' = ws,
         UNCHANGED <<cancels, mounted, swaps>>,
         ~(run[r].fresh /\ run[r].pc \in Busy), ws.attempt # r
  PROVE  UsableInv'
<1>1. QueueInv
  BY DEF UsableInv
<1> QED BY <1>1, EndsUsable DEF SameControls, QueueInv

\* A current handler ends, releases its job and rests; or rests over it.
LEMMA OwnerEndsUsable ==
  ASSUME PageInv, UsableInv, mounted, NEW r \in Runs, Goes(r, "done"), ws.active = r,
         ws' = Resting(BoundReleased(ws)) \/ ws' = Resting([ws EXCEPT !.pending = TRUE]),
         UNCHANGED <<cancels, mounted, swaps>>
  PROVE  UsableInv'
<1>1. Good(ws, mounted) /\ ws \in Workspaces /\ QueueInv /\ ws.attempt = None
  BY NoneAssumption DEF PageInv, Good, MutexShape, UsableInv
<1>2. CASE ws' = Resting(BoundReleased(ws))
  <2>1. /\ ws'.attempt = None /\ ws'.status = "rest" /\ SameControls
        /\ (ws'.deferred # <<>> => ws'.active # None)
    BY <1>1, <1>2, ReleaseRests DEF SameControls
  <2> QED BY <1>1, <2>1, NoneAssumption, EndsUsable
<1>3. CASE ws' = Resting([ws EXCEPT !.pending = TRUE])
  <2>1. /\ ws'.attempt = ws.attempt /\ ws'.active = ws.active /\ ws'.status = "rest"
        /\ SameControls /\ ws'.deferred = ws.deferred
    BY <1>1, <1>3, PendingRests
  <2> QED BY <1>1, <2>1, NoneAssumption, EndsUsable DEF QueueInv
<1> QED BY <1>2, <1>3

\* No handler but a binding one waits under an attempt of its own.
LEMMA AttemptBinds ==
  ASSUME PageInv, UsableInv, mounted, NEW r \in Runs, ws.attempt = r
  PROVE  run[r].pc = "binding"
  BY NoneAssumption DEF UsableInv, QueueInv

LEMMA CleanReplyUsable ==
  ASSUME PageInv, UsableInv, mounted, NEW r \in Runs, CleanReply(r) PROVE UsableInv'
<1> USE DEF CleanReply
<1>1. ws.attempt # r
  BY AttemptBinds
<1>2. CASE ~run[r].fresh
  BY <1>1, <1>2, SilentUsable
<1>3. CASE run[r].fresh
  BY <1>3, CurrentIsActive, OwnerEndsUsable
<1> QED BY <1>2, <1>3

LEMMA FinishReplyUsable ==
  ASSUME PageInv, UsableInv, mounted, NEW r \in Runs, FinishReply(r) PROVE UsableInv'
<1> USE DEF FinishReply
<1>1. ws.attempt # r
  BY AttemptBinds
<1>2. CASE ~run[r].fresh
  BY <1>1, <1>2, SilentUsable
<1>3. CASE run[r].fresh /\ Goes(r, "done") /\ ws' = Resting(BoundReleased(ws))
  BY <1>3, CurrentIsActive, OwnerEndsUsable
<1>4. CASE run[r].fresh /\ Goes(r, "cleaning") /\ ws' = ws
  BY <1>4, AsksUsable
<1> QED BY <1>2, <1>3, <1>4

LEMMA ObserveFailsUsable ==
  ASSUME PageInv, UsableInv, mounted, NEW r \in Runs, ObserveFails(r) PROVE UsableInv'
<1> USE DEF ObserveFails
<1>1. ws.attempt # r
  BY AttemptBinds
<1>2. CASE ~run[r].fresh
  BY <1>1, <1>2, SilentUsable
<1>3. CASE run[r].fresh /\ Goes(r, "done") /\ ws' = Resting([ws EXCEPT !.pending = TRUE])
  BY <1>3, CurrentIsActive, OwnerEndsUsable
<1>4. CASE run[r].fresh /\ Goes(r, "cleaning") /\ ws' = ws
  BY <1>4, AsksUsable
<1> QED BY <1>2, <1>3, <1>4

LEMMA VerifiedUsable ==
  ASSUME PageInv, UsableInv, mounted, NEW r \in Runs, Verified(r) PROVE UsableInv'
<1> USE DEF Verified
<1>1. ws.attempt # r
  BY AttemptBinds
<1>2. CASE ~run[r].fresh
  BY <1>1, <1>2, SilentUsable
<1>3. CASE run[r].fresh /\ run[r].kind = "source"
  <2> DEFINE w == [ws EXCEPT !.source = r]
  <2>1. ws.active = r /\ ws.source = None /\ Good(ws, mounted)
    BY <1>3, CurrentIsActive DEF PageInv, RunInv
  <2>2. /\ Good(w, mounted) /\ w.attempt = None /\ w.checking = ws.checking
        /\ w.activating = ws.activating /\ w.ending = ws.ending
    BY <2>1, NoneAssumption DEF Good, MutexShape, Workspaces
  <2>3. ws' = Resting(BoundReleased(w))
    BY <1>3
  <2> HIDE DEF w
  <2>4. /\ ws'.attempt = None /\ ws'.status = "rest" /\ SameControls
        /\ (ws'.deferred # <<>> => ws'.active # None)
    BY <2>2, <2>3, ReleaseRests DEF SameControls
  <2> QED BY <1>3, <2>1, <2>4, EndsUsable
<1>4. CASE run[r].fresh /\ run[r].kind # "source"
  BY <1>4, AsksUsable
<1> QED BY <1>2, <1>3, <1>4

LEMMA EraseReplyUsable ==
  ASSUME PageInv, UsableInv, mounted, NEW r \in Runs, EraseReply(r) PROVE UsableInv'
<1> USE DEF EraseReply
<1>1. ws.attempt # r /\ HandlerInv(r) /\ Good(ws, mounted) /\ QueueInv
  BY AttemptBinds DEF UsableInv, PageInv
<1>2. CASE ws' = ws /\ ~run[r].fresh
  BY <1>1, <1>2, SilentUsable
<1>3. CASE ws.active = r /\ (ws' = Resting(BoundReleased(ws)) \/ ws' = Resting([ws EXCEPT !.pending = TRUE]))
  BY <1>3, OwnerEndsUsable
<1>4. CASE /\ ws.active = r /\ ws' = BoundReleased(ws)
           /\ ~(BoundReleased(ws).stage # "bound" /\ run[r].fresh)
  <2>1. ws.attempt = None /\ ws \in Workspaces
    BY <1>1, <1>4, NoneAssumption DEF Good, MutexShape
  <2>2. /\ ws'.attempt = None /\ SameControls /\ ws'.status \in {ws.status, "rest"}
        /\ (ws'.deferred # <<>> => ws'.active # None)
        /\ (ws'.stage = "bound" => ws'.status = "rest")
    BY <1>4, <2>1, BoundReleasedFields DEF SameControls
  <2>3. run[r].fresh => ws'.status = "rest"
    BY <1>4, <2>2
  <2>4. swaps = 0 => run[r].fresh
    BY <1>1 DEF HandlerInv
  <2> QED BY <1>4, <2>1, <2>2, <2>3, <2>4, EndsUsable
<1>5. run[r].fresh => ws.active = r
  BY <1>1 DEF HandlerInv
<1> QED BY <1>2, <1>3, <1>4, <1>5

LEMMA DropReplyUsable ==
  ASSUME PageInv, UsableInv, mounted, NEW r \in Runs, DropReply(r) PROVE UsableInv'
<1> USE DEF DropReply
<1>1. ws.attempt # r /\ HandlerInv(r) /\ Good(ws, mounted) /\ QueueInv /\ mounted = TRUE
  BY AttemptBinds DEF UsableInv, PageInv, OtherTypes
<1>2. ~run[r].fresh /\ swaps # 0
  BY <1>1 DEF HandlerInv
<1>3. CASE ws' = ws
  BY <1>1, <1>2, <1>3, SilentUsable
<1>4. CASE ws' = Retained(ws, r) /\ (ws.active # None \/ ws.attempt # None)
  <2>1. ws' = [ws EXCEPT !.deferred = Append(@, r), !.lock = TRUE, !.pending = TRUE]
    BY <1>4 DEF Retained
  <2>2. /\ ws'.attempt = ws.attempt /\ ws'.active = ws.active /\ ws'.status = ws.status
        /\ SameControls
    BY <1>1, <2>1 DEF Good, Workspaces, SameControls
  <2> QED BY <1>1, <1>2, <1>4, <2>2, EndsUsable
<1>5. CASE ws' = Retained(ws, r) /\ ws.active = None /\ ws.attempt = None
  <2>1. ws' = [ws EXCEPT !.active = r, !.lock = TRUE, !.pending = TRUE, !.stage = "bound",
                         !.status = "rest"]
    BY <1>5 DEF Retained
  <2>2. /\ ws'.attempt = ws.attempt /\ ws'.active # None /\ ws'.status = "rest" /\ SameControls
    BY <1>1, <2>1, NoneAssumption DEF Good, Workspaces, SameControls
  <2> QED BY <1>1, <1>2, <1>5, <2>2, EndsUsable
<1> QED BY <1>1, <1>3, <1>4, <1>5

LEMMA BindRejectsUsable ==
  ASSUME PageInv, UsableInv, mounted, NEW r \in Runs, BindRejects(r) PROVE UsableInv'
<1> USE DEF BindRejects
<1> DEFINE released == BindingReleased(ws)
<1>1. HandlerInv(r) /\ Good(ws, mounted) /\ QueueInv /\ RunInv(r)
  BY DEF UsableInv, PageInv
<1>2. CASE ws.attempt # r
  <2>1. ~run[r].fresh
    BY <1>1, <1>2 DEF RunInv
  <2> QED BY <1>2, <2>1, SilentUsable
<1>3. CASE ws.attempt = r
  <2>1. ws \in Workspaces /\ ws.active = None
    BY <1>1, <1>3, NoneAssumption DEF Good, MutexShape
  <2>2. /\ released.attempt = None /\ released.checking = ws.checking
        /\ released.activating = ws.activating /\ released.ending = ws.ending
        /\ released.status \in {ws.status, "rest"}
        /\ (released.deferred # <<>> => released.active # None)
        /\ (released.stage = "bound" => released.status = "rest")
    BY <2>1, BindingReleasedFields
  <2>3. released \in Workspaces
    BY <1>1, <1>3, NoneAssumption, BindingReleaseKeeps DEF Good
  <2>4. CASE ws' = released /\ (~run[r].fresh \/ released.stage = "bound")
    <3>1. swaps = 0 => ws'.status = "rest"
      BY <1>1, <2>2, <2>4 DEF HandlerInv
    <3> QED BY <1>3, <2>1, <2>2, <2>4, <3>1, EndsUsable DEF SameControls
  <2>5. CASE ws' \in {Resting(released), [Resting(released) EXCEPT !.pending = FALSE]}
    <3> HIDE DEF released
    <3>1. Resting(released) \in Workspaces
      BY <2>3, RestingFields
    <3>2. /\ ws'.attempt = None /\ ws'.status = "rest" /\ SameControls
          /\ (ws'.deferred # <<>> => ws'.active # None)
      BY <2>2, <2>3, <2>5, <3>1, RestingFields DEF SameControls, Workspaces
    <3> QED BY <1>3, <3>2, EndsUsable
  <2> QED BY <1>3, <2>4, <2>5
<1> QED BY <1>2, <1>3
\* The binding is recorded over no other one, or dropped by a handler that is not
\* current; a cancelled one is given up under the status its cancellation set.
LEMMA BindReturnsUsable ==
  ASSUME PageInv, UsableInv, mounted, NEW r \in Runs, BindReturns(r) PROVE UsableInv'
<1> USE DEF BindReturns
<1>1. /\ HandlerInv(r) /\ Good(ws, mounted) /\ QueueInv /\ StatusInv /\ RunInv(r)
      /\ \A q \in Runs : HandlerInv(q)
  BY DEF UsableInv, PageInv
<1>2. PICK pc \in {"observing", "erasing", "dropping"} :
        /\ Goes(r, pc)
        /\ pc = "observing" => run[r].fresh /\ ~run[r].cancel
        /\ pc = "erasing" => ~run[r].fresh \/ run[r].cancel
        /\ pc # "dropping" => ws.attempt = r /\ ws' = Recorded(ws, r)
        /\ pc = "dropping" => ws.attempt # r /\ ws' = ws
  OBVIOUS
<1>3. /\ run'[r].pc = pc /\ run'[r].fresh = run[r].fresh
      /\ \A q \in Runs \ {r} : run'[q] = run[q]
  BY <1>2 DEF Goes, PageInv, OtherTypes
<1>4. CASE pc = "dropping"
  <2>1. ~run[r].fresh /\ swaps # 0
    BY <1>1, <1>2, <1>4 DEF RunInv, HandlerInv
  <2>2. QueueInv'
    <3>1. ASSUME ws.attempt # None PROVE run'[ws.attempt].pc = "binding"
      <4>1. ws.attempt \in Runs \ {r}
        BY <1>1, <1>2, <1>4, <3>1 DEF Good, Workspaces
      <4> QED BY <1>1, <1>3, <3>1, <4>1 DEF QueueInv
    <3> QED BY <1>1, <1>2, <1>4, <3>1 DEF QueueInv
  <2>3. ASSUME NEW q \in Runs PROVE HandlerInv(q)'
    BY <1>1, <1>2, <1>3, <1>4, <2>1 DEF HandlerInv, GivesUp
  <2>4. StatusInv'
    BY <1>1, <1>2, <1>3, <1>4, <2>1 DEF StatusInv
  <2> QED BY <2>2, <2>3, <2>4 DEF UsableInv
<1>5. CASE pc # "dropping"
  <2>1. /\ ws'.attempt = None /\ ws'.active = r /\ ws'.status = ws.status /\ SameControls
        /\ ws.attempt = r
    BY <1>1, <1>2, <1>5 DEF Recorded, Good, Workspaces, SameControls
  <2>2. QueueInv'
    BY <2>1, NoneAssumption DEF QueueInv
  <2>3. ASSUME NEW q \in Runs \ {r}, run[q].fresh PROVE run[q].pc \notin Busy
    BY <2>1, <2>3, OthersIdle, NoneAssumption
  <2>4. ASSUME NEW q \in Runs PROVE HandlerInv(q)'
    <3>1. CASE q = r
      BY <1>1, <1>2, <1>3, <1>5, <2>1, <3>1 DEF HandlerInv, GivesUp, Busy, SameControls
    <3>2. CASE q # r
      BY <1>1, <1>3, <2>1, <2>3, <3>2 DEF HandlerInv, GivesUp, Busy, SameControls
    <3> QED BY <3>1, <3>2
  <2>5. StatusInv'
    <3>1. ASSUME run[r].fresh PROVE run'[r].fresh /\ run'[r].pc \in Busy
      BY <1>3, <1>5, <3>1 DEF Busy
    <3>2. ASSUME run[r].fresh, GivesUp(r) PROVE (run'[r].fresh /\ GivesUp(r)') \/ pc = "observing"
      BY <1>3, <1>5, <3>2 DEF GivesUp
    <3>3. ASSUME ws'.status = "running"
          PROVE  ws'.checking \/ \E q \in Runs : run'[q].fresh /\ run'[q].pc \in Busy
      BY <1>1, <2>1, <2>3, <3>1, <3>3 DEF StatusInv, SameControls
    <3>4. ASSUME swaps = 0, ws'.status = "cancelling"
          PROVE  ws'.ending # "no" \/ \E q \in Runs : run'[q].fresh /\ GivesUp(q)'
      <4>1. ws.active = None /\ run[r].fresh
        BY <1>1, <2>1, <3>4, NoneAssumption DEF HandlerInv, Good, MutexShape
      <4>2. ws.ending # "no" \/ \E q \in Runs : run[q].fresh /\ GivesUp(q)
        BY <1>1, <2>1, <3>4, <4>1 DEF StatusInv
      <4>3. ASSUME NEW q \in Runs, run[q].fresh, GivesUp(q) PROVE q = r
        BY <2>3, <4>3 DEF GivesUp, Busy
      <4>4. ASSUME GivesUp(r) PROVE GivesUp(r)'
        <5>1. run[r].cancel
          BY <4>4 DEF GivesUp
        <5>2. pc = "erasing"
          BY <1>2, <1>5, <5>1
        <5> QED BY <1>3, <5>2 DEF GivesUp
      <4> QED BY <1>3, <2>1, <4>1, <4>2, <4>3, <4>4 DEF SameControls
    <3> QED BY <3>3, <3>4 DEF StatusInv, BindReturns
  <2> QED BY <2>2, <2>4, <2>5 DEF UsableInv
<1> QED BY <1>4, <1>5

-----------------------------------------------------------------------------
\* While a handler is current and busy, no call about another job that is active
\* can exist, and none about its own.
LEMMA NoCallAtBusy ==
  ASSUME PageInv, UsableInv, mounted, NEW r \in Runs, cancels[r] > 0 \/ evictions[r] > 0,
         ws.active = r, NEW q \in Runs, run[q].fresh
  PROVE  run[q].pc \notin Busy
<1>1. ~run[r].fresh
  BY DEF PageInv, RunInv
<1> QED BY <1>1, OthersIdle, NoneAssumption

LEMMA CancelReplyUsable ==
  ASSUME PageInv, UsableInv, mounted, NEW r \in Runs, CancelReply(r) PROVE UsableInv'
<1> USE DEF CancelReply
<1>1. Good(ws, mounted) /\ ws \in Workspaces /\ QueueInv /\ cancels \in [Runs -> Nat]
  BY BoundsAssumption DEF UsableInv, PageInv, Good, OtherTypes
<1>2. \A q \in Runs \ {r} : cancels'[q] = cancels[q]
  BY <1>1
<1>3. CASE ws.active # r
  <2>1. ws' = ws
    BY <1>3
  <2>2. ws.active # None => ws.active \in Runs \ {r}
    BY <1>1, <1>3 DEF Workspaces
  <2> QED BY <1>1, <1>2, <2>1, <2>2, ReplyUsable DEF QueueInv
<1>4. CASE ws.active = r /\ ws' = Resting(BoundReleased(ws))
  <2>1. ws.attempt = None
    BY <1>1, <1>4, NoneAssumption DEF Good, MutexShape
  <2>2. /\ ws'.attempt = None /\ ws'.status = "rest" /\ ws'.checking = ws.checking
        /\ ws'.activating = ws.activating /\ ws'.ending = ws.ending
        /\ (ws'.deferred # <<>> => ws'.active # None)
    BY <1>1, <1>4, <2>1, ReleaseRests
  <2> QED BY <1>4, <2>1, <2>2, NoCallAtBusy, ReplyUsable
<1>5. CASE ws.active = r /\ ws' = Resting(ws)
  <2>1. /\ ws'.attempt = ws.attempt /\ ws'.active = ws.active /\ ws'.status = "rest"
        /\ ws'.checking = ws.checking /\ ws'.activating = ws.activating
        /\ ws'.ending = ws.ending /\ ws'.deferred = ws.deferred
    BY <1>1, <1>5, RestingFields
  <2> QED BY <1>1, <1>5, <2>1, NoCallAtBusy, ReplyUsable DEF QueueInv
<1> QED BY <1>3, <1>4, <1>5

LEMMA EvictReplyUsable ==
  ASSUME PageInv, UsableInv, mounted, NEW r \in Runs, EvictReply(r) PROVE UsableInv'
<1> USE DEF EvictReply
<1>1. Good(ws, mounted) /\ ws \in Workspaces /\ QueueInv
  BY DEF UsableInv, PageInv, Good
<1>2. swaps # 0
  <2>1. evictions[r] \in Nat /\ evictions[r] <= swaps + 0 /\ swaps \in Nat
    BY BoundsAssumption DEF PageInv, OtherTypes
  <2> QED BY <2>1
<1>3. CASE ws' = ws
  BY <1>1, <1>2, <1>3, ReplyUsable DEF QueueInv
<1>4. CASE ws.active = r /\ ws' = BoundReleased(ws)
  <2>1. ws.attempt = None
    BY <1>1, <1>4, NoneAssumption DEF Good, MutexShape
  <2>2. /\ ws'.attempt = None /\ ws'.status \in {ws.status, "rest"} /\ ws'.checking = ws.checking
        /\ ws'.activating = ws.activating /\ ws'.ending = ws.ending
        /\ (ws'.deferred # <<>> => ws'.active # None)
    BY <1>1, <1>4, <2>1, BoundReleasedFields
  <2> QED BY <1>2, <1>4, <2>1, <2>2, NoCallAtBusy, ReplyUsable
<1> QED BY <1>3, <1>4

LEMMA ReadyDoneUsable == ASSUME PageInv, UsableInv, mounted, ReadyDone PROVE UsableInv'
<1> USE DEF ReadyDone
<1>1. ws \in Workspaces /\ QueueInv /\ \A q \in Runs : HandlerInv(q)
  BY DEF UsableInv, PageInv, Good
<1>2. /\ ws'.attempt = ws.attempt /\ ws'.active = ws.active /\ ws'.status = "rest"
      /\ ws'.checking = FALSE /\ ws'.activating = ws.activating
      /\ ws'.ending = ws.ending /\ ws'.deferred = ws.deferred
  BY <1>1 DEF Resting, Workspaces, Statuses
<1>3. \A q \in Runs : ~run[q].fresh
  BY <1>1 DEF HandlerInv
<1> QED BY <1>1, <1>2, <1>3, ReplyUsable DEF QueueInv

LEMMA ActivateReplyUsable == ASSUME PageInv, UsableInv, mounted, ActivateReply PROVE UsableInv'
<1> USE DEF ActivateReply
<1>1. ws \in Workspaces /\ QueueInv /\ \A q \in Runs : HandlerInv(q)
  BY DEF UsableInv, PageInv, Good
<1>2. /\ ws'.attempt = ws.attempt /\ ws'.active = ws.active /\ ws'.status \in {ws.status, "rest"}
      /\ ws'.checking = ws.checking /\ ws'.activating = FALSE
      /\ ws'.ending = ws.ending /\ ws'.deferred = ws.deferred
  BY <1>1 DEF Resting, Workspaces, Statuses
<1>3. \A q \in Runs : ~run[q].fresh
  BY <1>1 DEF HandlerInv
<1> QED BY <1>1, <1>2, <1>3, ReplyUsable DEF QueueInv

\* A session that is being ended keeps the page cancelling until it rests.
LEMMA SessionReplyUsable ==
  ASSUME PageInv, UsableInv, mounted, DiscardReply \/ EndReply PROVE UsableInv'
<1> USE DEF DiscardReply, EndReply
<1>1. ws \in Workspaces /\ QueueInv /\ \A q \in Runs : HandlerInv(q)
  BY DEF UsableInv, PageInv, Good
<1>2. /\ ws'.attempt = ws.attempt /\ ws'.active = ws.active
      /\ ws'.status = "rest" \/ (ws'.status = ws.status /\ ws'.ending = "deleting")
      /\ ws'.checking = ws.checking /\ ws'.activating = ws.activating
      /\ ws'.deferred = ws.deferred
  BY <1>1 DEF Resting, Workspaces, Statuses
<1>3. \A q \in Runs : ~run[q].fresh
  BY <1>1 DEF HandlerInv
<1> QED BY <1>1, <1>2, <1>3, ReplyUsable DEF QueueInv

LEMMA ServiceDeletesUsable ==
  ASSUME PageInv, UsableInv, mounted, NEW r \in Runs, ServiceDeletes(r) PROVE UsableInv'
<1>1. QueueInv
  BY DEF UsableInv
<1> QED BY <1>1, ReplyUsable DEF ServiceDeletes, QueueInv

-----------------------------------------------------------------------------
LEMMA EditUsable == ASSUME PageInv, UsableInv, mounted, Edit \/ Activate PROVE UsableInv'
<1> USE DEF Edit, Activate
<1>1. ws \in Workspaces /\ QueueInv /\ ws.status = "rest"
  BY DEF UsableInv, PageInv, Good, MutationLocked
<1>2. /\ ws'.attempt = ws.attempt /\ ws'.active = ws.active /\ ws'.status = "rest"
      /\ ws'.deferred = ws.deferred
  BY <1>1 DEF Aborted, Workspaces
<1>3. \A q \in Runs : swaps = 0 => run[q].pc \notin {"binding", "erasing", "dropping"}
  BY <1>1, NoneWaits
<1> QED BY <1>1, <1>2, <1>3, StaleUsable DEF QueueInv

LEMMA EndSessionUsable == ASSUME PageInv, UsableInv, mounted, EndSession PROVE UsableInv'
<1> USE DEF EndSession
<1>1. ws \in Workspaces /\ QueueInv
  BY DEF UsableInv, PageInv, Good
<1>2. /\ ws'.attempt = ws.attempt /\ ws'.active = ws.active /\ ws'.status = "cancelling"
      /\ ws'.deferred = ws.deferred /\ ws'.ending # "no"
  BY <1>1 DEF Aborted, Workspaces
<1>3. \A q \in Runs : swaps = 0 => run[q].pc \notin {"binding", "erasing", "dropping"}
  BY NoneWaits
<1> QED BY <1>1, <1>2, <1>3, StaleUsable DEF QueueInv

LEMMA CancelJobUsable == ASSUME PageInv, UsableInv, mounted, CancelJob PROVE UsableInv'
<1> USE DEF CancelJob
<1>1. ws \in Workspaces /\ QueueInv /\ cancels \in [Runs -> Nat]
  BY BoundsAssumption DEF UsableInv, PageInv, Good, OtherTypes
<1>2. /\ ws'.attempt = ws.attempt /\ ws'.active = ws.active /\ ws'.status = "cancelling"
      /\ ws'.deferred = ws.deferred
  BY <1>1 DEF Workspaces, Statuses
<1>3. ws.active \in Runs /\ cancels'[ws.active] = cancels[ws.active] + 1
  BY <1>1 DEF Workspaces
<1>4. cancels'[ws'.active] > 0
  BY <1>1, <1>2, <1>3
<1>5. \A q \in Runs : swaps = 0 => run[q].pc \notin {"binding", "erasing", "dropping"}
  BY NoneWaits
<1> QED BY <1>1, <1>2, <1>3, <1>4, <1>5, StaleUsable DEF QueueInv

LEMMA SwapUsable == ASSUME PageInv, UsableInv, mounted, Swap PROVE UsableInv'
<1> DEFINE left == LeftBehind(ws)
<1>1. Good(ws, mounted) /\ ws \in Workspaces /\ QueueInv /\ swaps \in Nat
  BY BoundsAssumption DEF UsableInv, PageInv, Good, OtherTypes
<1>2. left \in Workspaces /\ left.attempt = None /\ (left.deferred # <<>> => left.active # None)
  <2>1. CASE ws.attempt = None
    BY <1>1, <2>1 DEF LeftBehind, Aborted, QueueInv, Workspaces
  <2>2. CASE ws.attempt # None
    <3> DEFINE b == BindingReleased(ws)
    <3>1. ws.active = None
      BY <1>1, <2>2 DEF Good, MutexShape
    <3>2. b \in Workspaces /\ b.attempt = None /\ (b.deferred # <<>> => b.active # None)
      BY <1>1, <2>2, <3>1, BindingReleasedFields, BindingReleaseKeeps DEF Good
    <3>3. left = Aborted(b)
      BY <2>2 DEF LeftBehind
    <3> HIDE DEF b, left
    <3> QED BY <3>2, <3>3 DEF Aborted, Workspaces
  <2> QED BY <2>1, <2>2
<1>3. ws' = [left EXCEPT !.checking = TRUE] /\ run' = Stale /\ swaps' = swaps + 1
  BY DEF Swap
<1> HIDE DEF left
<1>4. ws'.attempt = None /\ ws'.checking /\ (ws'.deferred # <<>> => ws'.active # None)
  BY <1>2, <1>3 DEF Workspaces
<1>5. swaps' # 0
  BY <1>1, <1>3
<1> QED BY <1>3, <1>4, <1>5, StaleUsable

LEMMA StartRunUsable ==
  ASSUME PageInv, UsableInv, mounted, NEW r \in Runs, NEW kind \in {"source", "derived"},
         StartRun(r, kind)
  PROVE  UsableInv'
<1> USE DEF StartRun
<1>1. Good(ws, mounted) /\ ws \in Workspaces /\ QueueInv /\ OtherTypes
      /\ ws.status = "rest" /\ ws.ending = "no" /\ ~ws.pending
  BY DEF UsableInv, PageInv, Good, MutationLocked
<1>2. ws.deferred = <<>>
  BY <1>1 DEF Good, MutexShape
<1>3. /\ ws'.attempt = r /\ ws'.status = "running" /\ ~ws'.checking /\ ~ws'.activating
      /\ ws'.ending = "no" /\ ws'.deferred = <<>>
  BY <1>1, <1>2 DEF Aborted, Workspaces
<1>4. /\ run'[r] = [pc |-> "binding", kind |-> kind, fresh |-> TRUE, cancel |-> FALSE]
      /\ \A q \in Runs \ {r} : run'[q].pc = run[q].pc /\ run'[q].fresh = FALSE
  BY <1>1, StaleTypes DEF Stale, OtherTypes
<1>5. QueueInv'
  BY <1>3, <1>4 DEF QueueInv
<1>6. StatusInv'
  BY <1>3, <1>4 DEF StatusInv, Busy
<1>7. ASSUME NEW q \in Runs PROVE HandlerInv(q)'
  <2>1. CASE q = r
    BY <1>3, <1>4, <2>1 DEF HandlerInv, GivesUp
  <2>2. CASE q # r
    <3>1. swaps = 0 => run[q].pc \notin {"binding", "erasing", "dropping"}
      BY <1>1, NoneWaits
    <3> QED BY <1>4, <2>2, <3>1 DEF HandlerInv
  <2> QED BY <2>1, <2>2
<1> QED BY <1>5, <1>6, <1>7 DEF UsableInv

\* A cancellation before the job is bound is carried out by the run that binds it.
LEMMA CancelBindingUsable ==
  ASSUME PageInv, UsableInv, mounted, CancelBinding PROVE UsableInv'
<1> USE DEF CancelBinding
<1>1. /\ Good(ws, mounted) /\ ws \in Workspaces /\ QueueInv /\ OtherTypes
      /\ \A q \in Runs : HandlerInv(q)
  BY DEF UsableInv, PageInv, Good
<1>2. PICK r \in Runs : r = ws.attempt /\ run[r].pc = "binding"
  BY <1>1 DEF Workspaces, QueueInv
<1>3. ws' = [ws EXCEPT !.status = "cancelling"]
  OBVIOUS
<1>4. /\ ws'.attempt = r /\ ws'.active = ws.active /\ ws'.status = "cancelling"
      /\ SameControls /\ ws'.deferred = ws.deferred
  BY <1>1, <1>2, <1>3 DEF Workspaces, SameControls
<1>5. /\ run'[r].pc = "binding" /\ run'[r].cancel /\ run'[r].fresh = run[r].fresh
      /\ \A q \in Runs \ {r} : run'[q] = run[q]
  BY <1>1, <1>2 DEF OtherTypes
<1>6. QueueInv'
  BY <1>1, <1>4, <1>5 DEF QueueInv
<1>7. StatusInv'
  <2>1. swaps = 0 => run[r].fresh
    BY <1>1, <1>2 DEF HandlerInv
  <2>2. GivesUp(r)'
    BY <1>5 DEF GivesUp
  <2> QED BY <1>2, <1>4, <1>5, <2>1, <2>2 DEF StatusInv
<1>8. ASSUME NEW q \in Runs PROVE HandlerInv(q)'
  <2>1. CASE q = r
    BY <1>1, <1>2, <1>4, <1>5, <2>1 DEF HandlerInv, SameControls
  <2>2. CASE q # r
    BY <1>1, <1>4, <1>5, <2>2 DEF HandlerInv, GivesUp, SameControls
  <2> QED BY <2>1, <2>2
<1> QED BY <1>6, <1>7, <1>8 DEF UsableInv

LEMMA StepUsable == ASSUME PageInv, UsableInv, [Next]_vars PROVE UsableInv'
<1>1. ASSUME ~mounted PROVE UsableInv'
  <2>1. ~mounted'
    BY <1>1 DEF Next, Step, vars, ServiceDeletes, StartRun, BindReturns, BindRejects, Verified,
      ObserveFails, FinishReply, CleanReply, EraseReply, DropReply, CancelReply, EvictReply,
      CancelBinding, CancelJob, Edit, Activate, ActivateReply, EndSession, DiscardReply, EndReply,
      Swap, ReadyDone, Unmount
  <2> QED BY <2>1 DEF UsableInv
<1>2. CASE mounted /\ UNCHANGED vars
  BY <1>2 DEF vars, UsableInv, QueueInv, StatusInv, HandlerInv, GivesUp
<1>3. ASSUME mounted, NEW r \in Runs, Step(r) PROVE UsableInv'
  BY <1>3, ServiceDeletesUsable, StartRunUsable, BindReturnsUsable, BindRejectsUsable,
     VerifiedUsable, ObserveFailsUsable, FinishReplyUsable, CleanReplyUsable, EraseReplyUsable,
     DropReplyUsable, CancelReplyUsable, EvictReplyUsable DEF Step
<1>4. CASE Unmount
  BY <1>4 DEF Unmount, UsableInv
<1> QED BY <1>1, <1>2, <1>3, <1>4, CancelBindingUsable, CancelJobUsable, EditUsable,
        ActivateReplyUsable, EndSessionUsable, SessionReplyUsable, SwapUsable, ReadyDoneUsable
     DEF Next

\* A page on which nothing is in flight is free or bound to a job whose deletion
\* the user can ask for again, whatever handlers were overtaken, cancelled or
\* answered out of order (the handlers of remote-analysis-workspace.tsx).
THEOREM IdlePagesAreUsable == Spec => []IdlePageIsUsable
<1>1. Init => UsableInv
  BY InitUsable
<1>2. PageInv /\ UsableInv /\ [Next]_vars => UsableInv'
  BY StepUsable
<1>3. PageInv /\ UsableInv => IdlePageIsUsable
  BY UsableImplies
<1> QED BY <1>1, <1>2, <1>3, PageInvariant, PTL DEF Spec
=============================================================================
