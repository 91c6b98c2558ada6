---------------------------- MODULE MCScheduler -----------------------------
(***************************************************************************)
(* Scheduler on small instances.  With Spread empty the requests are       *)
(* interchangeable: nothing in the scheduler looks at more than a          *)
(* request's own fields.  The run that checks liveness uses no symmetry    *)
(* and has a request in Spread and one outside.                            *)
(***************************************************************************)
EXTENDS Scheduler, TLC

Symmetry == Permutations(Requests)

=============================================================================
