----------------------------- MODULE DoorStation -----------------------------
(***************************************************************************)
(* The door station as the integration observes it (external: its firmware *)
(* is not in this repository).  What is modelled is what the code relies   *)
(* on: the cycle idle -> ring -> onCall -> idle of callStatus, and the     *)
(* measurement that a ring nobody picks up lasts one fixed time, while one *)
(* that ends earlier was picked up (docs/protocol.md).                     *)
(***************************************************************************)
EXTENDS Naturals

CONSTANTS
  RingTimeout,  \* how long an unanswered ring lasts
  MinOnCall,    \* the shortest onCall
  MaxRings      \* bound: visitors who press the button

VARIABLES
  call,     \* the device's callStatus
  callAge,  \* ticks since it last changed; counted up to the longest deadline
  pressed,  \* rings so far; a ring is named by its number
  pickedUp, \* the rings somebody picked up
  cutShort  \* the state in which a call signal or a reboot ended ring k's call,
            \* or "idle"

vars == <<call, callAge, pressed, pickedUp, cutShort>>

Rings == 1 .. MaxRings

LongestAge == IF RingTimeout >= MinOnCall THEN RingTimeout ELSE MinOnCall

TypeOK ==
  /\ call     \in {"idle", "ring", "onCall"}
  /\ callAge  \in 0 .. LongestAge
  /\ pressed  \in 0 .. MaxRings
  /\ pickedUp \in SUBSET Rings
  /\ cutShort \in [Rings -> {"idle", "ring", "onCall"}]

Init ==
  /\ call     = "idle"
  /\ callAge  = 0
  /\ pressed  = 0
  /\ pickedUp = {}
  /\ cutShort = [k \in Rings |-> "idle"]

Enter(status) == call' = status /\ callAge' = 0

\* A visitor presses the button.
Press ==
  /\ call = "idle" /\ pressed < MaxRings
  /\ Enter("ring")
  /\ pressed' = pressed + 1
  /\ UNCHANGED <<pickedUp, cutShort>>

\* Somebody answers: on the indoor station, in the app, by a call signal.
PickUp ==
  /\ call = "ring" /\ callAge < RingTimeout
  /\ Enter("onCall")
  /\ pickedUp' = pickedUp \cup {pressed}
  /\ UNCHANGED <<pressed, cutShort>>

\* Nobody did: onCall is then the visitor recording a message.
GiveUp ==
  /\ call = "ring" /\ callAge = RingTimeout
  /\ Enter("onCall")
  /\ UNCHANGED <<pressed, pickedUp, cutShort>>

EndCall ==
  /\ call = "onCall" /\ callAge >= MinOnCall
  /\ Enter("idle")
  /\ UNCHANGED <<pressed, pickedUp, cutShort>>

\* A call signal or a reboot ends the call, in whatever state it is.
CutShort ==
  /\ call # "idle"
  /\ Enter("idle")
  /\ cutShort' = [cutShort EXCEPT ![pressed] = call]
  /\ UNCHANGED <<pressed, pickedUp>>

\* Time passes; an unanswered ring does not outlast its timeout.
Age ==
  /\ ~(call = "ring" /\ callAge = RingTimeout)
  /\ callAge' = IF callAge < LongestAge THEN callAge + 1 ELSE callAge
  /\ UNCHANGED <<call, pressed, pickedUp, cutShort>>

Next == Press \/ PickUp \/ GiveUp \/ EndCall \/ CutShort \/ Age

Spec == Init /\ [][Next]_vars
==============================================================================
