----------------------------- MODULE DoorControl -----------------------------
(***************************************************************************)
(* The entities that command the device and have no way to read back what  *)
(* they did: the lock (lock.py) and a switch, which stands for the output  *)
(* relays and for the permanent unlock (switch.py).  Each service call is  *)
(* a task of its own that awaits IsapiClient.request through async_execute *)
(* and touches the entity when that returns; the calls of one entity may   *)
(* overlap.  Of the client this module uses what RemoteCall promises.      *)
(***************************************************************************)
EXTENDS Integers

CONSTANTS
  Tasks,       \* the service calls
  RelockAfter  \* RELOCK_AFTER, in ticks

ASSUME DoorControlAssumption == RelockAfter \in Nat \ {0}

VARIABLES
  outcome, done,  \* RemoteCall: how each call ended, what the device did
  kind,           \* kind[t]: the command of t, once it is given
  unlocked,       \* lock: _unlocked
  relockIn,       \* lock: ticks left to sleep in t's relock task, or NoTimer
  switchOn,       \* switch: _state
  held,           \* device: the relay is closed, the door held open
  disturbed       \* history: the last switch command failed, or was given
                  \* while an earlier one could still have an effect

vars == <<outcome, done, kind, unlocked, relockIn, switchOn, held, disturbed>>

Remote == INSTANCE RemoteCall

Kinds   == {"pulse", "on", "off"}
NoKind  == "none"
NoTimer == -1

TypeOK ==
  /\ outcome    \in [Tasks -> {"none", "running", "ok", "failed"}]
  /\ done       \in [Tasks -> 0 .. 1]
  /\ kind       \in [Tasks -> Kinds \cup {NoKind}]
  /\ unlocked   \in BOOLEAN
  /\ relockIn   \in [Tasks -> 0 .. RelockAfter \cup {NoTimer}]
  /\ switchOn   \in BOOLEAN
  /\ held       \in BOOLEAN
  /\ disturbed  \in BOOLEAN

Init ==
  /\ Remote!Init
  /\ kind       = [t \in Tasks |-> NoKind]
  /\ unlocked   = FALSE
  /\ relockIn   = [t \in Tasks |-> NoTimer]
  /\ switchOn   = FALSE
  /\ held       = FALSE
  /\ disturbed  = FALSE

------------------------------------------------------------------------------
Switching(t) == kind[t] \in {"on", "off"}

\* A switch command that has yet to return, or to be carried out.
Pending(t) ==
  Switching(t) /\ (outcome[t] = "running" \/ (outcome[t] = "failed" /\ done[t] = 0))

\* async_unlock and async_open, or async_turn_on and async_turn_off, up to the
\* await in async_execute.
Command(t, k) ==
  /\ Remote!Call(t)
  /\ kind' = [kind EXCEPT ![t] = k]
  /\ disturbed' = IF k = "pulse" THEN disturbed ELSE \E u \in Tasks : Pending(u)
  /\ UNCHANGED <<unlocked, relockIn, switchOn, held>>

\* The device carries out the command, in time or late.
CarryOut(t) ==
  /\ Remote!CarryOut(t)
  /\ held' = IF Switching(t) THEN kind[t] = "on" ELSE held
  /\ UNCHANGED <<kind, unlocked, relockIn, switchOn, disturbed>>

\* The rest of _pulse: show the door open, and leave a task to show it locked.
SleepTime_None == NoTimer
SleepTime_OffByOne == RelockAfter + 1
SleepTime == RelockAfter

Pulsed(t) ==
  /\ kind[t] = "pulse" /\ Remote!Succeed(t)
  /\ unlocked' = TRUE
  /\ relockIn' = [relockIn EXCEPT ![t] = SleepTime]
  /\ UNCHANGED <<kind, switchOn, held, disturbed>>

\* The rest of async_turn_on and async_turn_off.
NewState_Toggled(t) == ~switchOn
NewState(t) == kind[t] = "on"

Switched(t) ==
  /\ Switching(t) /\ Remote!Succeed(t)
  /\ switchOn' = NewState(t)
  /\ UNCHANGED <<kind, unlocked, relockIn, held, disturbed>>

\* async_execute raises UpdateFailed; the entity is left as it was.
CommandFails(t) ==
  /\ Remote!Fail(t)
  /\ disturbed' = (disturbed \/ Switching(t))
  /\ UNCHANGED <<kind, unlocked, relockIn, switchOn, held>>

\* relock wakes up.
Awake_Rearmed == [unlocked |-> unlocked, sleep |-> RelockAfter]
Awake == [unlocked |-> FALSE, sleep |-> NoTimer]

Relock(t) ==
  /\ relockIn[t] = 0
  /\ unlocked' = Awake.unlocked
  /\ relockIn' = [relockIn EXCEPT ![t] = Awake.sleep]
  /\ UNCHANGED <<outcome, done, kind, switchOn, held, disturbed>>

\* async_lock: the device has no such command.
Lock ==
  /\ unlocked' = FALSE
  /\ UNCHANGED <<outcome, done, kind, relockIn, switchOn, held, disturbed>>

Tick ==
  /\ \A t \in Tasks : relockIn[t] # 0
  /\ relockIn' = [t \in Tasks |-> IF relockIn[t] > 0 THEN relockIn[t] - 1
                                                    ELSE relockIn[t]]
  /\ UNCHANGED <<outcome, done, kind, unlocked, switchOn, held, disturbed>>

Next ==
  \/ \E t \in Tasks :
       \/ \E k \in Kinds : Command(t, k)
       \/ CarryOut(t) \/ Pulsed(t) \/ Switched(t) \/ CommandFails(t) \/ Relock(t)
  \/ Lock \/ Tick

Spec == Init /\ [][Next]_vars

\* Sleeps end: time goes on, and a task whose sleep is over is resumed.
FairSpec == Spec /\ WF_vars(Tick) /\ \A t \in Tasks : WF_vars(Relock(t))

------------------------------------------------------------------------------
(* Properties.                                                             *)

\* The door is not shown open without a task that will show it locked again,
\* however pulses overlap, fail and are followed by a lock command.
NeverStuckUnlocked == unlocked => \E t \in Tasks : relockIn[t] # NoTimer

\* "It unlocks, then relocks itself after a few seconds" (IntercomLock).
RelocksItself == unlocked ~> ~unlocked

\* Once a switch command given in peace has returned, the switch shows what the
\* device holds, whatever earlier commands overlapped, failed or came late.
SwitchAgrees ==
  (\A t \in Tasks : Switching(t) => outcome[t] # "running") /\ ~disturbed
    => switchOn = held
==============================================================================
