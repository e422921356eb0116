--------------------------- MODULE MCIsapiClient ---------------------------
(* IsapiClient with two tasks sharing one client.                            *)
EXTENDS IsapiClient
==============================================================================
