--------------------------- MODULE MCDoorControl ---------------------------
(* DoorControl with three service calls.                                     *)
EXTENDS DoorControl
==============================================================================
