------------------------------ MODULE MCScheduler ------------------------------
(* Instances of Scheduler for TLC. *)
EXTENDS Scheduler

\* Contexts that never share an id with a request: callers pass seq_id.
FarIds == {101}
===============================================================================
