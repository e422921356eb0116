-------------------------- MODULE DoorControlProofs --------------------------
(***************************************************************************)
(* Theorems about DoorControl, for any set of service calls and any delay: *)
(* its types, the lock that is not stuck open, and the switch that agrees  *)
(* with the device.  The last one needs an account of which commands may   *)
(* still take effect, and of what the one that may has done so far.        *)
(***************************************************************************)
EXTENDS DoorControl, TLAPS

USE DEF NoTimer, NoKind

\* While the switch is not disturbed, one command at most can still have an
\* effect, and its caller still waits for it.
OnePending ==
  ~disturbed =>
    /\ \A t \in Tasks : Pending(t) => outcome[t] = "running"
    /\ \A t, u \in Tasks : Pending(t) /\ Pending(u) => t = u

\* If there is none, the switch agrees; one that was carried out was the last
\* to be.
LastCommandHolds ==
  ~disturbed =>
    /\ (\A t \in Tasks : ~Pending(t)) => switchOn = held
    /\ \A t \in Tasks : Pending(t) /\ done[t] = 1 => (held <=> kind[t] = "on")

\* The device does not act before it is asked.
NothingEarly == \A t \in Tasks : outcome[t] = "none" => done[t] = 0

IInv ==
  /\ TypeOK /\ NeverStuckUnlocked
  /\ NothingEarly /\ OnePending /\ LastCommandHolds

\* The invariant holds the property: a command that returned and may still have
\* an effect has failed, and then the switch is disturbed.
LEMMA IInvImpliesSwitchAgrees == IInv => SwitchAgrees
<1> SUFFICES ASSUME IInv, ~disturbed,
                    \A t \in Tasks : Switching(t) => outcome[t] # "running"
             PROVE  switchOn = held
  BY DEF SwitchAgrees
<1>1. \A t \in Tasks : ~Pending(t)
  BY DEF IInv, OnePending, Pending
<1> QED BY <1>1 DEF IInv, LastCommandHolds

LEMMA InitEstablishes == Init => IInv
<1> SUFFICES ASSUME Init PROVE IInv
  OBVIOUS
<1>1. TypeOK
  <2>1. /\ outcome \in [Tasks -> {"none", "running", "ok", "failed"}]
        /\ done \in [Tasks -> 0 .. 1]
    BY DEF Init, Remote!Init
  <2>2. /\ kind \in [Tasks -> Kinds \cup {NoKind}]
        /\ relockIn \in [Tasks -> 0 .. RelockAfter \cup {NoTimer}]
    BY DEF Init
  <2>3. /\ unlocked \in BOOLEAN /\ switchOn \in BOOLEAN
        /\ held \in BOOLEAN /\ disturbed \in BOOLEAN
    BY DEF Init
  <2> QED BY <2>1, <2>2, <2>3 DEF TypeOK
<1>2. \A t \in Tasks : ~Pending(t)
  BY DEF Init, Remote!Init, Pending
<1>3. OnePending /\ LastCommandHolds
  BY <1>2 DEF Init, OnePending, LastCommandHolds
<1>4. NothingEarly /\ NeverStuckUnlocked
  BY DEF Init, Remote!Init, NothingEarly, NeverStuckUnlocked
<1> QED BY <1>1, <1>3, <1>4 DEF IInv

\* What leaves the commands, the switch and the relay alone leaves the account
\* of them alone.
LEMMA AccountUnchanged ==
  ASSUME IInv, UNCHANGED <<outcome, done, kind, switchOn, held, disturbed>>
  PROVE  (NothingEarly /\ OnePending /\ LastCommandHolds)'
<1>1. \A t \in Tasks : Pending(t)' <=> Pending(t)
  BY DEF Pending, Switching
<1> QED BY <1>1 DEF IInv, NothingEarly, OnePending, LastCommandHolds

\* A new command: undisturbed only if no other can still have an effect.
LEMMA CommandPreserves ==
  ASSUME IInv, NEW t \in Tasks, NEW k \in Kinds, Command(t, k)
  PROVE  IInv'
<1> USE DEF IInv, Command, Remote!Call
<1>1. TypeOK'
  BY DEF TypeOK, Kinds
<1>2. NeverStuckUnlocked'
  BY DEF NeverStuckUnlocked
<1>3. NothingEarly'
  BY DEF NothingEarly, TypeOK
<1>4. \A u \in Tasks \ {t} : Pending(u)' <=> Pending(u)
  BY DEF Pending, Switching, TypeOK
<1>5. outcome[t] = "none" /\ done[t] = 0 /\ outcome'[t] = "running" /\ kind'[t] = k
      /\ done' = done
  BY DEF NothingEarly, TypeOK
<1>6. ~Pending(t)
  BY <1>5 DEF Pending
<1>7. CASE k = "pulse"
  <2>1. ~Pending(t)'
    BY <1>5, <1>7 DEF Pending, Switching
  <2>2. disturbed' <=> disturbed
    BY <1>7 DEF TypeOK
  <2>3. \A u \in Tasks : Pending(u)' <=> Pending(u)
    BY <1>4, <1>6, <2>1
  <2>4. \A u \in Tasks : Pending(u) => outcome'[u] = outcome[u] /\ kind'[u] = kind[u]
    BY <1>6 DEF TypeOK
  <2>5. OnePending'
    BY <2>2, <2>3, <2>4 DEF OnePending
  <2>6. switchOn' = switchOn /\ held' = held
    BY DEF TypeOK
  <2>7. LastCommandHolds'
    <3> SUFFICES ASSUME ~disturbed'
                 PROVE  /\ (\A u \in Tasks : ~Pending(u)') => switchOn' = held'
                        /\ \A u \in Tasks : Pending(u)' /\ done'[u] = 1
                                              => (held' <=> kind'[u] = "on")
      BY Zenon DEF LastCommandHolds
    <3> ~disturbed
      BY <2>2
    <3>1. (\A u \in Tasks : ~Pending(u)') => switchOn' = held'
      BY <2>3, <2>6 DEF LastCommandHolds
    <3>2. ASSUME NEW u \in Tasks, Pending(u)', done'[u] = 1
          PROVE  held' <=> kind'[u] = "on"
      <4>1. Pending(u) /\ done[u] = 1 /\ kind'[u] = kind[u]
        BY <1>5, <2>3, <2>4, <3>2
      <4> QED BY <2>6, <4>1 DEF LastCommandHolds
    <3> QED BY <3>1, <3>2
  <2> QED BY <1>1, <1>2, <1>3, <2>5, <2>7
<1>8. CASE k # "pulse"
  <2> SUFFICES (~disturbed') => OnePending' /\ LastCommandHolds'
    BY <1>1, <1>2, <1>3 DEF OnePending, LastCommandHolds
  <2> SUFFICES ASSUME ~disturbed' PROVE OnePending' /\ LastCommandHolds'
    OBVIOUS
  <2>1. \A u \in Tasks : ~Pending(u)
    BY <1>8
  <2>2. \A u \in Tasks \ {t} : ~Pending(u)'
    BY <1>4, <2>1
  <2>3. Pending(t)'
    BY <1>5, <1>8 DEF Pending, Switching, Kinds
  <2>4. OnePending'
    BY <1>5, <2>2 DEF OnePending
  <2>5. LastCommandHolds'
    BY <1>5, <2>2, <2>3 DEF LastCommandHolds
  <2> QED BY <2>4, <2>5
<1> QED BY <1>7, <1>8

\* The device acts: of the commands to the switch only the pending one can.
LEMMA CarryOutPreserves ==
  ASSUME IInv, NEW t \in Tasks, CarryOut(t)
  PROVE  IInv'
<1> USE DEF IInv, CarryOut, Remote!CarryOut
<1>1. TypeOK'
  <2>1. held' \in BOOLEAN
    BY DEF TypeOK
  <2>2. done' \in [Tasks -> 0 .. 1]
    BY DEF TypeOK
  <2> QED BY <2>1, <2>2 DEF TypeOK
<1>2. NeverStuckUnlocked'
  BY DEF NeverStuckUnlocked
<1>3. NothingEarly'
  BY DEF NothingEarly, TypeOK
<1>4. \A u \in Tasks : Pending(u)' => Pending(u)
  BY DEF Pending, Switching, TypeOK
<1>5. \A u \in Tasks : ~disturbed /\ Pending(u) => Pending(u)'
  BY DEF OnePending, Pending, Switching
<1>6. OnePending'
  BY <1>4 DEF OnePending
<1>7. LastCommandHolds'
  <2> SUFFICES ASSUME ~disturbed PROVE LastCommandHolds'
    BY DEF LastCommandHolds
  <2>1. \A u \in Tasks : Pending(u)' <=> Pending(u)
    BY <1>4, <1>5 DEF Pending
  <2>2. CASE Switching(t)
    <3>1. Pending(t)
      BY <2>2 DEF Pending
    <3>2. \A u \in Tasks : Pending(u) => u = t
      BY <3>1 DEF OnePending
    <3>3. held' <=> kind'[t] = "on"
      BY <2>2
    <3> QED BY <2>1, <3>1, <3>2, <3>3 DEF LastCommandHolds
  <2>3. CASE ~Switching(t)
    <3>1. \A u \in Tasks : Pending(u) => done'[u] = done[u]
      BY <2>3 DEF Pending, TypeOK
    <3>2. held' = held
      BY <2>3
    <3> QED BY <2>1, <3>1, <3>2 DEF LastCommandHolds
  <2> QED BY <2>2, <2>3
<1> QED BY <1>1, <1>2, <1>3, <1>6, <1>7

\* A pulse returned: the door is shown open, and a relock task sleeps.
LEMMA PulsedPreserves ==
  ASSUME IInv, NEW t \in Tasks, Pulsed(t)
  PROVE  IInv'
<1> USE DEF IInv, Pulsed, Remote!Succeed
<1>1. TypeOK'
  BY DoorControlAssumption DEF TypeOK, SleepTime
<1>2. NeverStuckUnlocked'
  <2>1. relockIn'[t] # NoTimer
    BY DoorControlAssumption DEF TypeOK, SleepTime
  <2> QED BY <2>1 DEF NeverStuckUnlocked
<1>3. NothingEarly'
  BY DEF NothingEarly, TypeOK
<1>4. \A u \in Tasks : Pending(u)' <=> Pending(u)
  BY DEF Pending, Switching, TypeOK
<1>5. \A u \in Tasks : Pending(u) => outcome'[u] = outcome[u]
  BY DEF Pending, Switching, TypeOK
<1>6. OnePending'
  BY <1>4, <1>5 DEF OnePending
<1>7. LastCommandHolds'
  BY <1>4 DEF LastCommandHolds
<1> QED BY <1>1, <1>2, <1>3, <1>6, <1>7

\* A switch command returned, so it was carried out and was the last to be.
LEMMA SwitchedPreserves ==
  ASSUME IInv, NEW t \in Tasks, Switched(t)
  PROVE  IInv'
<1> USE DEF IInv, Switched, Remote!Succeed
<1>1. TypeOK'
  <2>1. switchOn' \in BOOLEAN
    BY DEF NewState
  <2>2. outcome' \in [Tasks -> {"none", "running", "ok", "failed"}]
    BY DEF TypeOK
  <2> QED BY <2>1, <2>2 DEF TypeOK
<1>2. NeverStuckUnlocked'
  BY DEF NeverStuckUnlocked
<1>3. NothingEarly'
  BY DEF NothingEarly, TypeOK
<1>4. Pending(t) /\ ~Pending(t)'
  BY DEF Pending, Switching, TypeOK
<1>5. \A u \in Tasks \ {t} : Pending(u)' <=> Pending(u)
  BY DEF Pending, Switching, TypeOK
<1>6. ~disturbed => \A u \in Tasks : ~Pending(u)'
  BY <1>4, <1>5 DEF OnePending
<1>7. OnePending'
  BY <1>6 DEF OnePending
<1>8. LastCommandHolds'
  <2>1. ~disturbed => (held <=> kind[t] = "on")
    BY <1>4 DEF LastCommandHolds
  <2>2. switchOn' <=> kind[t] = "on"
    BY DEF NewState
  <2>3. ~disturbed => switchOn' = held'
    BY <1>1, <2>1, <2>2 DEF TypeOK
  <2> QED BY <1>6, <2>3 DEF LastCommandHolds
<1> QED BY <1>1, <1>2, <1>3, <1>7, <1>8

\* A command failed; one to the switch disturbs it.
LEMMA CommandFailsPreserves ==
  ASSUME IInv, NEW t \in Tasks, CommandFails(t)
  PROVE  IInv'
<1> USE DEF IInv, CommandFails, Remote!Fail
<1>1. TypeOK'
  <2>1. disturbed' \in BOOLEAN
    BY DEF TypeOK, Switching
  <2>2. outcome' \in [Tasks -> {"none", "running", "ok", "failed"}]
    BY DEF TypeOK
  <2> QED BY <2>1, <2>2 DEF TypeOK
<1>2. NeverStuckUnlocked'
  BY DEF NeverStuckUnlocked
<1>3. NothingEarly'
  BY DEF NothingEarly, TypeOK
<1>4. (~disturbed') => ~disturbed /\ ~Switching(t)
  OBVIOUS
<1>5. ~Switching(t) => \A u \in Tasks : Pending(u)' <=> Pending(u)
  BY DEF Pending, Switching, TypeOK
<1>6. ~Switching(t) => \A u \in Tasks : Pending(u) => outcome'[u] = outcome[u]
  BY DEF Pending, TypeOK
<1>7. OnePending'
  BY <1>4, <1>5, <1>6 DEF OnePending
<1>8. LastCommandHolds'
  BY <1>4, <1>5 DEF LastCommandHolds
<1> QED BY <1>1, <1>2, <1>3, <1>7, <1>8

LEMMA RelockPreserves ==
  ASSUME IInv, NEW t \in Tasks, Relock(t)
  PROVE  IInv'
<1>1. TypeOK'
  BY DEF IInv, TypeOK, Relock, Awake
<1>2. NeverStuckUnlocked'
  BY DEF Relock, Awake, NeverStuckUnlocked
<1> QED BY <1>1, <1>2, AccountUnchanged DEF Relock, IInv

\* Sleeping goes on until it is over, never past it.
LEMMA TickPreserves ==
  ASSUME IInv, Tick
  PROVE  IInv'
<1>1. \A t \in Tasks : /\ relockIn'[t] \in 0 .. RelockAfter \cup {NoTimer}
                       /\ relockIn[t] # NoTimer => relockIn'[t] # NoTimer
  BY DoorControlAssumption DEF IInv, TypeOK, Tick
<1>2. TypeOK'
  <2>1. relockIn' \in [Tasks -> 0 .. RelockAfter \cup {NoTimer}]
    BY <1>1 DEF Tick
  <2> QED BY <2>1 DEF IInv, TypeOK, Tick
<1>3. NeverStuckUnlocked'
  BY <1>1 DEF IInv, NeverStuckUnlocked, Tick
<1> QED BY <1>2, <1>3, AccountUnchanged DEF Tick, IInv

LEMMA LockPreserves ==
  ASSUME IInv, Lock
  PROVE  IInv'
<1>1. TypeOK' /\ NeverStuckUnlocked'
  BY DEF IInv, TypeOK, Lock, NeverStuckUnlocked
<1> QED BY <1>1, AccountUnchanged DEF Lock, IInv

LEMMA StutterPreserves ==
  ASSUME IInv, UNCHANGED vars
  PROVE  IInv'
<1>1. TypeOK' /\ NeverStuckUnlocked'
  BY DEF IInv, TypeOK, vars, NeverStuckUnlocked
<1> QED BY <1>1, AccountUnchanged DEF vars, IInv

LEMMA NextPreserves == IInv /\ [Next]_vars => IInv'
<1> SUFFICES ASSUME IInv, [Next]_vars PROVE IInv'
  OBVIOUS
<1>1. ASSUME NEW t \in Tasks, NEW k \in Kinds, Command(t, k) PROVE IInv'
  BY <1>1, CommandPreserves
<1>2. ASSUME NEW t \in Tasks, CarryOut(t) PROVE IInv'
  BY <1>2, CarryOutPreserves
<1>3. ASSUME NEW t \in Tasks, Pulsed(t) PROVE IInv'
  BY <1>3, PulsedPreserves
<1>4. ASSUME NEW t \in Tasks, Switched(t) PROVE IInv'
  BY <1>4, SwitchedPreserves
<1>5. ASSUME NEW t \in Tasks, CommandFails(t) PROVE IInv'
  BY <1>5, CommandFailsPreserves
<1>6. ASSUME NEW t \in Tasks, Relock(t) PROVE IInv'
  BY <1>6, RelockPreserves
<1>7. CASE Lock
  BY <1>7, LockPreserves
<1>8. CASE Tick
  BY <1>8, TickPreserves
<1>9. CASE UNCHANGED vars
  BY <1>9, StutterPreserves
<1> QED BY <1>1, <1>2, <1>3, <1>4, <1>5, <1>6, <1>7, <1>8, <1>9 DEF Next

------------------------------------------------------------------------------
(* The theorems.                                                           *)

LEMMA Invariance == Spec => []IInv
<1>1. Init => IInv
  BY InitEstablishes
<1>2. IInv /\ [Next]_vars => IInv'
  BY NextPreserves
<1> QED BY <1>1, <1>2, PTL DEF Spec

\* The types: a relock task never sleeps longer than RELOCK_AFTER.
THEOREM TypeCorrect == Spec => []TypeOK
<1>1. IInv => TypeOK
  BY DEF IInv
<1> QED BY <1>1, Invariance, PTL

\* The lock is never shown open without a task that will show it locked again
\* (_pulse), for any number of overlapping service calls.
THEOREM LockIsNotStuck == Spec => []NeverStuckUnlocked
<1>1. IInv => NeverStuckUnlocked
  BY DEF IInv
<1> QED BY <1>1, Invariance, PTL

\* The switch agrees with the device after a command given in peace
\* (async_turn_on, async_turn_off), for any number of calls before it.
THEOREM SwitchIsRight == Spec => []SwitchAgrees
<1>1. IInv => SwitchAgrees
  BY IInvImpliesSwitchAgrees
<1> QED BY <1>1, Invariance, PTL
==============================================================================
