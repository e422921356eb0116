----------------------------- MODULE MCIntercom -----------------------------
(* Intercom on small instances.  In those about the doorbell a tick is half a *)
(* second: the poll interval, the read time and the margin between the ring   *)
(* timeout and the threshold are to scale, and the long durations are only    *)
(* kept in their order.                                                       *)
EXTENDS Intercom
==============================================================================
