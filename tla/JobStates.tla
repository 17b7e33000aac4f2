------------------------------ MODULE JobStates ------------------------------
(***************************************************************************)
(* The job state machine of packages/compute-service-core/src:             *)
(* the states of contracts.ts and the table of state-machine.ts, which      *)
(* every record written by ComputeServiceCore goes through.                 *)
(***************************************************************************)

States == {"queued", "leased", "starting", "running", "cancelling",
           "succeeded", "failed", "cancelled", "timed_out", "expired",
           "deleting", "deleted"}

\* What a cancelling job becomes once its process is observed to be gone.
PendingStopOutcomes ==
  {"queued", "failed", "cancelled", "timed_out", "expired", "deleted"}

ProcessOwningStates == {"starting", "running", "cancelling"}

TerminalStates ==
  {"succeeded", "failed", "cancelled", "timed_out", "expired", "deleted"}

\* ALLOWED_TRANSITIONS: state -> the states it may move to.
AllowedTransitions ==
  [queued     |-> {"leased", "cancelled", "timed_out", "expired", "deleting"},
   leased     |-> {"queued", "starting", "cancelled", "timed_out", "expired",
                   "deleting"},
   starting   |-> {"running", "cancelling", "queued", "timed_out", "expired",
                   "failed"},
   running    |-> {"cancelling", "queued", "succeeded", "timed_out",
                   "expired", "failed"},
   cancelling |-> {"queued", "cancelled", "timed_out", "expired", "deleting",
                   "failed"},
   succeeded  |-> {"expired", "deleting"},
   failed     |-> {"expired", "deleting"},
   cancelled  |-> {"expired", "deleting"},
   timed_out  |-> {"expired", "deleting"},
   expired    |-> {"deleting"},
   deleting   |-> {"deleted"},
   deleted    |-> {}]

\* assertJobStateTransition: a record may keep its state or follow the table.
TransitionAllowed(from, to) == from = to \/ to \in AllowedTransitions[from]
=============================================================================
