----------------------------- MODULE ComputeJobs -----------------------------
(***************************************************************************)
(* What the compute service promises to somebody who submits jobs, without *)
(* leases, slots, records or continuations.  Each job is worked on by at   *)
(* most one process at a time, the number of processes is limited, a job   *)
(* is put back, settled or removed only when no process works on it, and   *)
(* an answer, once given, stays until the job is removed.                  *)
(***************************************************************************)
EXTENDS Naturals, FiniteSets

CONSTANTS Jobs, Limit

VARIABLES
  phase,    \* the phase of each job
  working,  \* does a process work on the job?
  answered  \* can the result of the job be fetched?

vars == <<phase, working, answered>>

Init ==
  /\ phase = [j \in Jobs |-> "absent"]
  /\ working = [j \in Jobs |-> FALSE]
  /\ answered = [j \in Jobs |-> FALSE]

Submit(j) ==
  /\ phase[j] = "absent"
  /\ phase' = [phase EXCEPT ![j] = "waiting"]
  /\ UNCHANGED <<working, answered>>

\* A process may begin to work on a waiting job if the limit allows it.
Begin(j) ==
  /\ phase[j] = "waiting"
  /\ phase' = [phase EXCEPT ![j] = "owned"]
  /\ \/ /\ Cardinality({k \in Jobs : working[k]}) < Limit
        /\ working' = [working EXCEPT ![j] = TRUE]
     \/ UNCHANGED working
  /\ UNCHANGED answered

\* The process of a job ends; only its observation will change the phase.
End(j) ==
  /\ phase[j] = "owned" /\ working[j]
  /\ working' = [working EXCEPT ![j] = FALSE]
  /\ UNCHANGED <<phase, answered>>

\* The job is put back, settled with or without an answer, or removed.
Release(j) ==
  /\ phase[j] = "owned" /\ ~working[j]
  /\ \/ /\ \E p \in {"waiting", "settled", "removing"} :
             phase' = [phase EXCEPT ![j] = p]
        /\ UNCHANGED answered
     \/ /\ phase' = [phase EXCEPT ![j] = "settled"]
        /\ answered' = [answered EXCEPT ![j] = TRUE]
  /\ UNCHANGED working

\* Waiting jobs are cancelled or run out of time, several of them at once.
Settle(js) ==
  /\ \A j \in js : phase[j] = "waiting"
  /\ phase' = [j \in Jobs |-> IF j \in js THEN "settled" ELSE phase[j]]
  /\ UNCHANGED <<working, answered>>

\* A job that is not being worked on is removed, its answer with it.
Remove(j) ==
  /\ phase[j] \in {"waiting", "settled"}
  /\ phase' = [phase EXCEPT ![j] = "removing"]
  /\ answered' = [answered EXCEPT ![j] = FALSE]
  /\ UNCHANGED working

Removed(j) ==
  /\ phase[j] = "removing"
  /\ phase' = [phase EXCEPT ![j] = "removed"]
  /\ UNCHANGED <<working, answered>>

\* A step of the service is one that shows in these three.
Next ==
  /\ vars' # vars
  /\ \/ \E j \in Jobs : \/ Submit(j) \/ Begin(j) \/ End(j) \/ Release(j)
                        \/ Remove(j) \/ Removed(j)
     \/ \E js \in SUBSET Jobs : Settle(js)

Spec == Init /\ [][Next]_vars
=============================================================================
