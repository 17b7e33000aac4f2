--------------------------- MODULE SupervisedProcess ---------------------------
(***************************************************************************)
(* What a caller of ComputeProcessSupervisor.spawn may rely on, for one     *)
(* launch: the call settles once; a rejection proves that no process runs   *)
(* and none will; a returned process is reported once, after it has ended,  *)
(* and the report says whether it was asked to end.                         *)
(***************************************************************************)

VARIABLES
  launch,   \* the promise spawn returned
  process,  \* "none", "live", or how the process ended
  asked,    \* termination was requested while the process had not been seen to end
  report    \* the resolved termination of a returned process

Ended == {"succeeded", "failed"}

Init ==
  /\ launch = "pending"
  /\ process = "none"
  /\ asked = FALSE
  /\ report = "none"

Start ==
  /\ launch = "pending" /\ process = "none" /\ ~asked
  /\ process' = "live"
  /\ asked' \in BOOLEAN
  /\ UNCHANGED <<launch, report>>

Ask ==
  /\ process # "none" /\ report = "none" /\ launch # "rejected"
  /\ asked' = TRUE
  /\ UNCHANGED <<launch, process, report>>

End ==
  /\ process = "live"
  /\ process' \in Ended
  /\ UNCHANGED <<launch, asked, report>>

\* Only a launch nobody asked to end is handed to the caller.
Resolve ==
  /\ launch = "pending" /\ process # "none" /\ ~asked
  /\ launch' = "resolved"
  /\ UNCHANGED <<process, asked, report>>

Reject ==
  /\ launch = "pending" /\ process # "live"
  /\ launch' = "rejected"
  /\ UNCHANGED <<process, asked, report>>

Report ==
  /\ launch = "resolved" /\ process \in Ended /\ report = "none"
  /\ report' = IF asked THEN "terminated"
               ELSE IF process = "succeeded" THEN "completed" ELSE "crashed"
  /\ UNCHANGED <<launch, process, asked>>

Next == Start \/ Ask \/ End \/ Resolve \/ Reject \/ Report

Spec == Init /\ [][Next]_<<launch, process, asked, report>>
=============================================================================
