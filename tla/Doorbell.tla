------------------------------ MODULE Doorbell ------------------------------
(***************************************************************************)
(* What the integration promises of the doorbell, whatever channel it uses *)
(* to learn of a ring (README, event entities): a ring is announced at     *)
(* most once, rings are announced in the order they happened, and a ring   *)
(* that ended is judged answered or missed at most once, in order, before  *)
(* the next one is announced and never before its own announcement.        *)
(***************************************************************************)
EXTENDS Naturals

CONSTANT MaxRings

VARIABLES
  pressed,  \* rings so far
  rung,     \* rung[k]: the events fired for ring k
  judged    \* the rings a verdict was given for

vars == <<pressed, rung, judged>>

Rings == 1 .. MaxRings

Init ==
  /\ pressed = 0
  /\ rung    = [k \in Rings |-> 0]
  /\ judged  = {}

Press ==
  /\ pressed < MaxRings
  /\ pressed' = pressed + 1
  /\ UNCHANGED <<rung, judged>>

Announce(k) ==
  /\ k <= pressed
  /\ rung[k] = 0
  /\ \A later \in Rings : later >= k => later \notin judged
  /\ \A later \in Rings : later > k => rung[later] = 0
  /\ \A earlier \in Rings : earlier < k /\ rung[earlier] > 0 => earlier \in judged
  /\ rung' = [rung EXCEPT ![k] = 1]
  /\ UNCHANGED <<pressed, judged>>

Judge(k) ==
  /\ k <= pressed
  /\ \A later \in Rings : later >= k => later \notin judged
  /\ judged' = judged \cup {k}
  /\ UNCHANGED <<pressed, rung>>

Next == Press \/ \E k \in Rings : Announce(k) \/ Judge(k)

Spec == Init /\ [][Next]_vars
==============================================================================
