----------------------------- MODULE MCHostSlot -----------------------------
(* HostSlot with a few tasks and a video recorder.                           *)
EXTENDS HostSlot
==============================================================================
