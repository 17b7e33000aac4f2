------------------------------- MODULE MCCore -------------------------------
(***************************************************************************)
(* Model values and bounds for model checking ComputeServiceCore.  A        *)
(* request whose deadline is one tick before its TTL lets every clock-driven *)
(* outcome happen: lease expiry at 1, deadline at 2, TTL at 3.              *)
(***************************************************************************)
EXTENDS CoreProperties, TLC

OneRequest == {[deadline |-> 2, ttl |-> 3]}
ShortRequest == {[deadline |-> 1, ttl |-> 2]}

TaskSymmetry == Permutations(Tasks)
=============================================================================
