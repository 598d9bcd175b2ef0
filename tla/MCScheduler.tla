---------------------------- MODULE MCScheduler ----------------------------
(* Model-checking instance of Scheduler. *)
EXTENDS Scheduler

CONSTANTS r1, r2

TokensOf == [r \in Requests |-> 2]
=============================================================================
