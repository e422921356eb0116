----------------------------- MODULE RemoteCall -----------------------------
(***************************************************************************)
(* What IsapiClient.request promises of a command, over a network that     *)
(* loses requests and answers: the device carries it out at most once, and *)
(* a caller told that it succeeded knows that it was carried out.  A       *)
(* caller told that it failed knows nothing: the device may have carried   *)
(* it out, or may still do so.                                             *)
(***************************************************************************)
EXTENDS Naturals

CONSTANT Tasks

VARIABLES
  outcome,  \* outcome[t] \in {"none", "running", "ok", "failed"}
  done      \* done[t]: how often the device has carried out t's command

vars == <<outcome, done>>

Init == outcome = [t \in Tasks |-> "none"] /\ done = [t \in Tasks |-> 0]

Call(t) ==
  /\ outcome[t] = "none"
  /\ outcome' = [outcome EXCEPT ![t] = "running"]
  /\ UNCHANGED done

CarryOut(t) ==
  /\ outcome[t] \in {"running", "failed"} /\ done[t] = 0
  /\ done' = [done EXCEPT ![t] = 1]
  /\ UNCHANGED outcome

Succeed(t) ==
  /\ outcome[t] = "running" /\ done[t] = 1
  /\ outcome' = [outcome EXCEPT ![t] = "ok"]
  /\ UNCHANGED done

Fail(t) ==
  /\ outcome[t] = "running"
  /\ outcome' = [outcome EXCEPT ![t] = "failed"]
  /\ UNCHANGED done

Next == \E t \in Tasks : Call(t) \/ CarryOut(t) \/ Succeed(t) \/ Fail(t)

Spec == Init /\ [][Next]_vars
==============================================================================
