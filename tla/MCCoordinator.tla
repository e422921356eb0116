---------------------------- MODULE MCCoordinator ----------------------------
(* Coordinator under an arbitrary environment, with the history of its reads. *)
EXTENDS Availability
==============================================================================
