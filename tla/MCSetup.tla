------------------------------ MODULE MCSetup ------------------------------
(* Setup with a couple of devices, addresses, entries and flows.  All devices *)
(* start at some address, with different passwords: what differs from that in *)
(* names only is left out, the rest comes about by Readdress and SetPassword. *)
EXTENDS Setup

Present(p) == Devices \subseteq {p[a] : a \in Addresses}
Distinct(s) == \A d, e \in Devices : d # e => s[d] # s[e]

MCInit ==
  /\ Init
  /\ at = CHOOSE p \in Placements : Present(p)
  /\ secret = CHOOSE s \in [Devices -> Passwords] : Distinct(s)

MCSpec == MCInit /\ [][Next]_vars /\ Fairness
=============================================================================
