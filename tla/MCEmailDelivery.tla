-------------------------- MODULE MCEmailDelivery --------------------------
(* Model-checking instance of EmailDelivery: everything that may go wrong   *)
(* does.  (No symmetry: the run checks liveness.)                           *)
EXTENDS EmailDelivery

AllFaults == FaultKinds
=============================================================================
