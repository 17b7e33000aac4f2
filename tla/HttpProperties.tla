--------------------------- MODULE HttpProperties ---------------------------
(***************************************************************************)
(* What a deletion promises: the README of packages/compute-service-http,   *)
(* the receipt #deleteJob answers with and the comments of the sweeper's     *)
(* part of it, over the states of module HttpJobs.                           *)
(***************************************************************************)
EXTENDS HttpJobs, LeaseProperties

\* A deletion that knew its task is completed only over a task that is really
\* gone: deleted in the core, without a slot and without a process on any machine,
\* supervised or orphaned. No object the router put is left but those that an
\* overtaken upload or execute puts back after the handler has verified their
\* absence (the receipt says: termination observed, capacity released, objects
\* deleted; #deleteJob, reconcileDurableDeletion).
DeletionReceiptIsTrue ==
  [][\A d \in Deleters :
       ~http.completed /\ http'.completed /\ request[d].bound /\ At(d, "recording")
            /\ request'[d].pc = "idle"
         => /\ job[Job].state = "deleted"
            /\ CapacityReleased
            /\ \A e \in Epochs : ~Live(Job, e)
            /\ objects' \subseteq request[d].late]_allVars
=============================================================================
