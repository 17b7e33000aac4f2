------------------------------- MODULE MCLease -------------------------------
(* Model values for model checking LeaseCoordination. *)
EXTENDS LeaseProperties, TLC
Symmetric == Permutations(Workers) \cup Permutations(Tasks)
=============================================================================
