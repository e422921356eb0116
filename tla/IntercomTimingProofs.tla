------------------------- MODULE IntercomTimingProofs -------------------------
(***************************************************************************)
(* Theorems about the time Intercom takes, as the integration is shipped:  *)
(* a ring that goes on for longer than the latency of two reads and an     *)
(* interval is announced, one that has been over for as long is judged,    *)
(* and one that ran out is not judged answered.                            *)
(***************************************************************************)
EXTENDS IntercomProofs

USE DEF NoTimer, Garbage

LEMMA Durations ==
  /\ ReadTime \in Nat /\ PollInterval \in Nat \ {0} /\ Threshold \in Nat
  /\ RingTimeout \in Nat \ {0} /\ MinOnCall \in Nat /\ MaxRings \in Nat
  /\ MaxInterval \in Nat
  /\ Latency \in Nat /\ Latency = PollInterval + 2 * ReadTime
  /\ Station!LongestAge \in Nat
BY IntercomAssumption, CoordinatorConstants DEF Latency, Station!LongestAge

\* What holds of every state, and is used of it.
Known ==
  /\ TypeOK /\ LocalTypes /\ CoordInv /\ StageInv /\ BellInv

LEMMA KnownInvariance == ASSUME ~PushWired PROVE Spec => []Known
<1>1. TypeOK /\ LocalTypes /\ CoordInv /\ StageInv /\ BellInv => Known
  BY DEF Known
<1> QED BY <1>1, TypeCorrect, LocalInvariance, CoordInvariance, StageInvariance,
           BellInvariance, PTL

\* In good health, and without pushes, the interval is the one for polling.
LEMMA HealthyInterval ==
  ASSUME Known, failures = 0
  PROVE  updateInterval = PollInterval
<1>1. ~Coord!Overflows(0)
  BY CoordinatorConstants DEF Coord!Overflows, Coord!Excess
<1>2. updateInterval = Coord!ModeInterval(FALSE, 0)
  BY <1>1 DEF Known, CoordInv, Coord!IntervalMatchesMode, BellInv, NoPushes,
              Coord!TypeOK, TypeOK
<1> QED BY <1>2, CoordinatorConstants
        DEF Coord!ModeInterval, Coord!Interval, Coord!Excess

------------------------------------------------------------------------------
(* The timer and the read.                                                 *)

\* A refresh is either scheduled, within the interval, or under way.
TimerInv ==
  /\ timer # NoTimer => timer <= updateInterval
  /\ stage = "ready" => (reading.phase = "none" <=> timer # NoTimer)
  /\ reading.phase # "answered" => reading.status = "idle"

LEMMA TimerPreserves ==
  ASSUME ~PushWired, Known, TypeOK', TimerInv, [Next]_vars
  PROVE  TimerInv'
<1> USE DEF TimerInv
<1>1. /\ updateInterval \in 1 .. MaxInterval /\ updateInterval' \in 1 .. MaxInterval
      /\ timer \in 0 .. MaxInterval \cup {NoTimer} /\ reading \in Readings
  BY DEF Known, TypeOK, Coord!TypeOK
<1>2. CASE \/ Press \/ StationMoves \/ CallSignal \/ Reboot \/ Crash \/ Recover
           \/ UNCHANGED vars
  BY <1>2 DEF Press, StationMoves, CallSignal, Reboot, Crash, Recover, vars,
              coordVars
<1>3. CASE StartRefresh
  BY <1>3 DEF StartRefresh, coordVars, NoReading
<1>4. CASE DeviceAnswers
  BY <1>1, <1>4 DEF DeviceAnswers, coordVars, Readings
<1>5. CASE FinishRead \/ FailRead
  <2>1. reading' = NoReading /\ Reschedule
    BY <1>5 DEF FinishRead, FailRead
  <2>2. stage' = "ready" => stage = "ready"
    BY <1>5 DEF FinishRead, FailRead, Settle
  <2>3. timer' # NoTimer => timer' <= updateInterval'
    BY <1>1, <2>1, Durations DEF Reschedule
  <2>4. stage = "ready" => timer' # NoTimer
    BY <1>1, <2>1, Durations DEF Reschedule
  <2> QED BY <2>1, <2>2, <2>3, <2>4 DEF NoReading
<1>6. CASE AddEntities
  <2>1. stage = "loaded" /\ reading.phase = "none"
    BY <1>6 DEF AddEntities, Known, StageInv
  <2> QED BY <1>1, <1>6, <2>1 DEF AddEntities, coordVars
<1>7. CASE Setup
  BY <1>7 DEF Setup, NoReading
<1>8. CASE Tick
  <2>1. updateInterval' = updateInterval /\ UNCHANGED stage
    BY <1>8 DEF Tick, Coord!Tick
  <2>2. timer' = (IF timer > 0 THEN timer - 1 ELSE timer)
    BY <1>8 DEF Tick
  <2>3. reading'.phase = reading.phase /\ reading'.status = reading.status
    BY <1>1, <1>8 DEF Tick, Readings
  <2> QED BY <1>1, <2>1, <2>2, <2>3, Durations
<1>9. ~Motion /\ ~ \E p \in pushes : LosePush(p) \/ PushArrives(p)
  BY DEF Motion, Known, BellInv, NoPushes
<1> QED BY <1>2, <1>3, <1>4, <1>5, <1>6, <1>7, <1>8, <1>9 DEF Next

------------------------------------------------------------------------------
(* The station.                                                            *)

\* Who moves the station, and what becomes of the observer of its last ring.
LEMMA StationSteps ==
  ASSUME ~PushWired, Known, [Next]_vars
  PROVE  \/ Press
         \/ Tick
         \/ /\ StationMoves \/ CallSignal
            /\ \/ Station!PickUp \/ Station!GiveUp \/ Station!EndCall
               \/ Station!CutShort
            /\ UNCHANGED coordVars
            /\ UNCHANGED <<stage, timer, reading, up, seenRing, rung, verdicts,
                           watch>>
         \/ /\ Reboot /\ Station!CutShort /\ Neglect
            /\ UNCHANGED coordVars
            /\ UNCHANGED <<stage, timer, reading, seenRing, rung, verdicts>>
         \/ /\ UNCHANGED stationVars
            /\ \A k \in Rings : watch'[k] \in {watch[k], "no"}
<1>1. Neglect => \A k \in Rings : watch'[k] \in {watch[k], "no"}
  BY DEF Neglect
<1>2. CASE StationMoves \/ CallSignal
  BY <1>2 DEF StationMoves, CallSignal, history
<1>3. CASE Reboot
  BY <1>1, <1>3 DEF Reboot
<1>4. CASE Crash
  BY <1>1, <1>4 DEF Crash
<1>5. CASE DeviceAnswers
  BY <1>1, <1>5 DEF DeviceAnswers
<1>6. CASE Setup
  BY <1>6 DEF Setup
<1>7. CASE \/ Recover \/ StartRefresh \/ FinishRead \/ FailRead \/ AddEntities
           \/ UNCHANGED vars
  BY <1>7 DEF Recover, StartRefresh, FinishRead, FailRead, AddEntities, vars,
              history
<1>8. ~Motion /\ ~ \E p \in pushes : LosePush(p) \/ PushArrives(p)
  BY DEF Motion, Known, BellInv, NoPushes
<1> QED BY <1>2, <1>3, <1>4, <1>5, <1>6, <1>7, <1>8 DEF Next

\* A call is cut short once, and no ring before it was pressed.
CutInv ==
  /\ call # "idle" => cutShort[pressed] = "idle"
  /\ \A k \in Rings : k > pressed => cutShort[k] = "idle"

LEMMA StationTyped ==
  ASSUME Known
  PROVE  /\ call \in {"idle", "ring", "onCall"} /\ callAge \in Nat
         /\ pressed \in 0 .. MaxRings /\ (call # "idle" => pressed \in Rings)
         /\ pickedUp \in SUBSET Rings
         /\ cutShort \in [Rings -> {"idle", "ring", "onCall"}]
BY Durations DEF Known, LocalTypes, StationInv, Station!TypeOK, Station!Rings, Rings

LEMMA CutPreserves ==
  ASSUME ~PushWired, Known, CutInv, [Next]_vars
  PROVE  CutInv'
<1> USE StationTyped, Durations DEF CutInv
<1>1. CASE Press
  <2>1. pressed + 1 \in Rings
    BY <1>1 DEF Press, Station!Press, Rings
  <2> QED BY <1>1, <2>1 DEF Press, Station!Press, Rings
<1>2. CASE Tick
  BY <1>2 DEF Tick, Station!Age
<1>3. CASE Station!PickUp \/ Station!GiveUp \/ Station!EndCall
  BY <1>3 DEF Station!PickUp, Station!GiveUp, Station!EndCall, Station!Enter
<1>4. CASE Station!CutShort
  BY <1>4 DEF Station!CutShort, Station!Enter, Rings
<1>5. CASE UNCHANGED stationVars
  BY <1>5 DEF stationVars
<1> QED BY <1>1, <1>2, <1>3, <1>4, <1>5, StationSteps

\* A sample that is no longer true is older than the change.
SampleAge == HasSample /\ reading.status # call => callAge <= reading.age

LEMMA SampleAgePreserves ==
  ASSUME ~PushWired, Known, SampleAge, [Next]_vars
  PROVE  SampleAge'
<1> USE StationTyped, Durations DEF SampleAge, HasSample
<1>1. reading \in Readings /\ reading.age \in 0 .. ReadTime
  BY DEF Known, LocalTypes, Readings
<1>2. ASSUME callAge' = 0, reading' = reading
      PROVE  SampleAge'
  BY <1>1, <1>2
<1>3. CASE Press
  BY <1>2, <1>3 DEF Press, Station!Press, Station!Enter
<1>4. CASE StationMoves \/ CallSignal
  BY <1>2, <1>4 DEF StationMoves, CallSignal, Station!PickUp, Station!GiveUp,
     Station!EndCall, Station!CutShort, Station!Enter
<1>5. CASE Reboot
  BY <1>2, <1>5 DEF Reboot, Station!CutShort, Station!Enter, stationVars
<1>6. CASE Crash \/ Recover \/ AddEntities \/ UNCHANGED vars
  BY <1>6 DEF Crash, Recover, AddEntities, stationVars, vars
<1>7. CASE StartRefresh \/ FinishRead \/ FailRead \/ Setup
  BY <1>7 DEF StartRefresh, FinishRead, FailRead, Setup, NoReading
<1>8. CASE DeviceAnswers
  BY <1>1, <1>8 DEF DeviceAnswers, stationVars, Readings
<1>9. CASE Tick
  <2>1. /\ reading'.phase = reading.phase /\ reading'.status = reading.status
        /\ reading.phase # "none" => reading'.age = reading.age + 1
    BY <1>1, <1>9 DEF Tick, Readings
  <2>2. callAge' <= callAge + 1 /\ callAge' \in Nat /\ call' = call
    BY <1>9 DEF Tick, Station!Age
  <2> QED BY <1>1, <2>1, <2>2
<1>10. ~Motion /\ ~ \E p \in pushes : LosePush(p) \/ PushArrives(p)
  BY DEF Motion, Known, BellInv, NoPushes
<1> QED BY <1>3, <1>4, <1>5, <1>6, <1>7, <1>8, <1>9, <1>10 DEF Next

------------------------------------------------------------------------------
(* A ring that is watched in good health.                                  *)

Well == pressed > 0 /\ watch[pressed] = "well"

\* How long ago the state may have changed that the coordinator does not know of:
\* the change just missed the sample of one read, and the next one was not over.
Slack == PollInterval + ReadTime +
           (IF reading.phase = "none" THEN - timer ELSE reading.age)

Healthy ==
  /\ stage = "ready" /\ up /\ failures = 0 /\ lastUpdateSuccess
  /\ reading.status # Garbage

\* The coordinator is healthy and up to date, and hears no other ring; once the
\* call is over, and was not cut short, it has heard that it is.
WellInv ==
  Well => /\ Healthy
          /\ callStatus # call => callAge <= Slack
          /\ Heard => seenRing = pressed
          /\ reading.status = "ring" => reading.ring = pressed
          /\ call = "idle" /\ cutShort[pressed] = "idle" =>
               ~Heard /\ reading.status # "ring"

\* The step that the invariant is about.
LEMMA WatchKept ==
  ASSUME Known, Well', UNCHANGED pressed, UNCHANGED watch \/ Neglect
  PROVE  Well /\ ~Neglect
<1>1. Neglect => watch'[pressed] = "no"
  BY StationTyped DEF Neglect, Well, Rings
<1> QED BY <1>1 DEF Well

LEMMA SlackBound ==
  ASSUME Known, TimerInv, Healthy
  PROVE  /\ Slack \in Int /\ ReadTime <= Slack /\ Slack <= Latency
         /\ reading.age \in 0 .. ReadTime
         /\ reading.phase = "none" => timer \in 0 .. PollInterval
<1>1. reading.age \in 0 .. ReadTime /\ timer \in 0 .. MaxInterval \cup {NoTimer}
  BY DEF Known, TypeOK, Readings
<1>2. updateInterval = PollInterval
  BY HealthyInterval DEF Healthy
<1>3. reading.phase = "none" => timer \in 0 .. PollInterval
  BY <1>1, <1>2, Durations DEF TimerInv, Healthy
<1> QED BY <1>1, <1>3, Durations DEF Slack

\* What the coordinator does not know of is recent.
LEMMA LateBy ==
  ASSUME Known, TimerInv, WellInv, Well, callStatus # call
  PROVE  callAge <= Latency
BY SlackBound, StationTyped, Durations DEF WellInv

LEMMA PressWell ==
  ASSUME ~PushWired, Latency < MinOnCall, Known, TimerInv, WellInv, Press
  PROVE  WellInv'
<1> USE StationTyped, Durations
<1>1. /\ pressed' = pressed + 1 /\ pressed' \in Rings /\ call' = "ring"
      /\ call = "idle" /\ callAge' = 0
      /\ UNCHANGED <<stage, timer, reading, up, seenRing, callStatus, failures,
                     lastUpdateSuccess>>
  BY DEF Press, Station!Press, Station!Enter, Rings, coordVars
<1>2. SUFFICES ASSUME Well' PROVE WellInv'
  BY DEF WellInv
<1>3. Watching = "well"
  BY <1>1, <1>2 DEF Well, Press, Known, LocalTypes
<1>4. Healthy
  BY <1>3 DEF Watching, Healthy
<1>5. ~Heard /\ reading.status # "ring"
  BY <1>1, <1>3 DEF Watching, Heard, WellInv, Well
<1>6. Slack' = Slack /\ Slack \in Int /\ 0 <= Slack
  BY <1>1, <1>4, SlackBound DEF Slack
<1> QED BY <1>1, <1>4, <1>5, <1>6 DEF WellInv, Healthy, Heard

\* The station leaves a state: long after the coordinator has noticed the ring,
\* when the call ends.
LEMMA StationWell ==
  ASSUME ~PushWired, Latency < MinOnCall, Known, TimerInv, CutInv, SampleAge,
         WellInv,
         Station!PickUp \/ Station!GiveUp \/ Station!EndCall \/ Station!CutShort,
         UNCHANGED coordVars,
         UNCHANGED <<stage, timer, reading, up, seenRing, rung, verdicts, watch>>
  PROVE  WellInv'
<1> USE StationTyped, Durations
<1>1. /\ UNCHANGED pressed /\ callAge' = 0 /\ call # "idle" /\ pressed \in Rings
      /\ UNCHANGED <<callStatus, failures, lastUpdateSuccess>>
  BY DEF Station!PickUp, Station!GiveUp, Station!EndCall, Station!CutShort,
         Station!Enter, coordVars
<1>2. SUFFICES ASSUME Well PROVE WellInv'
  BY <1>1 DEF WellInv, Well
<1>3. Healthy /\ Healthy'
  BY <1>1, <1>2 DEF WellInv, Healthy
<1>4. Slack' = Slack /\ Slack \in Int /\ 0 <= Slack
  BY <1>1, <1>3, SlackBound DEF Slack
<1>5. CASE Station!EndCall
  <2>1. call = "onCall" /\ callAge > Latency
    BY <1>5 DEF Station!EndCall
  <2>2. callStatus = "onCall"
    BY <1>2, <2>1, LateBy
  <2>3. reading.status # "ring"
    <3>1. reading.age <= ReadTime /\ reading.age \in Nat
      BY <1>3, SlackBound
    <3>2. HasSample /\ reading.status = "ring" => callAge <= reading.age
      BY <2>1 DEF SampleAge
    <3> QED BY <1>3, <2>1, <3>1, <3>2 DEF HasSample, TimerInv, Healthy
  <2> QED BY <1>1, <1>2, <1>3, <1>4, <2>2, <2>3 DEF WellInv, Heard
<1>6. CASE Station!PickUp \/ Station!GiveUp
  <2>1. call' = "onCall"
    BY <1>6 DEF Station!PickUp, Station!GiveUp, Station!Enter
  <2> QED BY <1>1, <1>2, <1>3, <1>4, <2>1 DEF WellInv, Heard
<1>7. CASE Station!CutShort
  <2>1. cutShort'[pressed] # "idle"
    BY <1>1, <1>7 DEF Station!CutShort, Rings
  <2> QED BY <1>1, <1>2, <1>3, <1>4, <2>1 DEF WellInv, Heard
<1> QED BY <1>5, <1>6, <1>7

LEMMA FinishWell ==
  ASSUME ~PushWired, Known, TypeOK', Known', TimerInv, TimerInv', SampleAge, WellInv,
         FinishRead
  PROVE  WellInv'
<1> USE StationTyped, Durations
<1>1. /\ UNCHANGED <<call, callAge, pressed, cutShort, up, watch>>
      /\ reading' = NoReading /\ reading.phase = "answered"
  BY DEF FinishRead, stationVars
<1>2. SUFFICES ASSUME Well PROVE WellInv'
  BY <1>1 DEF WellInv, Well
<1>3. Healthy /\ HasSample
  BY <1>1, <1>2 DEF WellInv, Healthy, HasSample
<1>4. /\ callStatus' = reading.status /\ failures' = 0 /\ lastUpdateSuccess'
      /\ stage' = "ready"
      /\ seenRing' = IF Coord!Diverged(reading.status) THEN reading.ring ELSE seenRing
  BY <1>3 DEF FinishRead, HasSample, Coord!ReadSucceeds, Coord!AfterSuccess, Coord!StatusAfterRead,
              Settle, Healthy
<1>5. Healthy'
  BY <1>1, <1>3, <1>4 DEF Healthy, NoReading
<1>6. callStatus' # call' => callAge' <= Slack'
  <2>1. reading.age <= ReadTime /\ reading.age \in Nat
    BY <1>3, SlackBound
  <2>2. Slack' = ReadTime
    <3>1. timer = NoTimer
      BY <1>3, <1>1 DEF TimerInv, Healthy
    <3>2. updateInterval' = PollInterval
      BY <1>3, HealthyInterval
         DEF FinishRead, Coord!ReadSucceeds, Coord!AfterSuccess, Coord!Rescales, Coord!Demotes, HasSample,
             Healthy, Known, BellInv, NoPushes
    <3>3. timer' = PollInterval
      BY <1>3, <3>1, <3>2 DEF FinishRead, Reschedule, Healthy
    <3>4. reading'.phase = "none"
      BY <1>1 DEF NoReading
    <3> QED BY <3>3, <3>4 DEF Slack
  <2> QED BY <1>1, <1>3, <1>4, <2>1, <2>2 DEF SampleAge
<1>7. Heard' => seenRing' = pressed'
  BY <1>1, <1>2, <1>4 DEF WellInv, Heard, Coord!Diverged
<1>8. call = "idle" /\ cutShort[pressed] = "idle" => ~Heard'
  BY <1>2, <1>4 DEF WellInv, Heard
<1> QED BY <1>1, <1>5, <1>6, <1>7, <1>8 DEF WellInv, NoReading

LEMMA WellPreserves ==
  ASSUME ~PushWired, Latency < MinOnCall, Known, Known', TypeOK', TimerInv,
         TimerInv', CutInv, SampleAge, WellInv, [Next]_vars
  PROVE  WellInv'
<1> USE StationTyped, Durations
<1>1. CASE Press
  BY <1>1, PressWell
<1>2. CASE StationMoves \/ CallSignal
  <2>1. /\ Station!PickUp \/ Station!GiveUp \/ Station!EndCall \/ Station!CutShort
        /\ UNCHANGED coordVars
        /\ UNCHANGED <<stage, timer, reading, up, seenRing, rung, verdicts, watch>>
    BY <1>2 DEF StationMoves, CallSignal, history
  <2> QED BY <2>1, StationWell
<1>3. CASE FinishRead
  BY <1>3, FinishWell
<1>4. CASE Reboot \/ Crash
  <2>1. Neglect /\ UNCHANGED pressed
    BY <1>4 DEF Reboot, Crash, Station!CutShort, stationVars
  <2> QED BY <2>1, WatchKept DEF WellInv
<1>5. CASE Recover \/ FailRead \/ AddEntities
  <2>1. Well' => Well /\ ~Healthy
    BY <1>5 DEF Recover, FailRead, AddEntities, stationVars, history, Well, Healthy
  <2> QED BY <2>1 DEF WellInv
<1>6. CASE Setup
  <2>1. ~Well'
    BY <1>6 DEF Setup, Well, stationVars, Rings
  <2> QED BY <2>1 DEF WellInv
<1>7. SUFFICES ASSUME StartRefresh \/ DeviceAnswers \/ Tick \/ UNCHANGED vars,
                      Well'
               PROVE  WellInv'
  <2>1. ~Motion /\ ~ \E p \in pushes : LosePush(p) \/ PushArrives(p)
    BY DEF Motion, Known, BellInv, NoPushes
  <2>2. StartRefresh \/ DeviceAnswers \/ Tick \/ UNCHANGED vars => WellInv'
    BY <1>7 DEF WellInv
  <2> QED BY <1>1, <1>2, <1>3, <1>4, <1>5, <1>6, <2>1, <2>2 DEF Next
<1>8. /\ UNCHANGED <<call, pressed, cutShort, stage, up, callStatus, failures,
                     lastUpdateSuccess, seenRing>>
      /\ UNCHANGED watch \/ Neglect
  BY <1>7 DEF StartRefresh, DeviceAnswers, Tick, Station!Age, Coord!Tick, history,
     stationVars, coordVars, vars
<1>9. Well /\ ~Neglect
  BY <1>7, <1>8, WatchKept
<1>10. /\ Healthy /\ Slack \in Int /\ reading \in Readings
       /\ reading.age \in 0 .. ReadTime
       /\ reading.phase = "none" => timer \in 0 .. PollInterval
  BY <1>9, SlackBound DEF WellInv, Known, TypeOK
<1>11. CASE StartRefresh
  <2>1. reading' = [NoReading EXCEPT !.phase = "sent"] /\ UNCHANGED callAge
        /\ reading.phase = "none"
    BY <1>11 DEF StartRefresh, stationVars
  <2>2. reading'.phase = "sent" /\ reading'.status = "idle" /\ reading'.age = 0
    BY <2>1 DEF NoReading
  <2>3. Slack <= Slack' /\ Slack' \in Int
    BY <1>10, <2>1, <2>2 DEF Slack
  <2> QED BY <1>8, <1>9, <1>10, <2>1, <2>2, <2>3 DEF WellInv, Healthy, Heard
<1>12. CASE DeviceAnswers
  <2>1. /\ reading' = [reading EXCEPT !.phase = "answered", !.status = call,
                                      !.ring = pressed]
        /\ reading.phase = "sent" /\ UNCHANGED callAge
    BY <1>9, <1>12 DEF DeviceAnswers, stationVars
  <2>2. /\ reading'.phase = "answered" /\ reading'.status = call
        /\ reading'.ring = pressed /\ reading'.age = reading.age
    BY <1>10, <2>1 DEF Readings
  <2>3. Slack' = Slack
    BY <2>1, <2>2 DEF Slack
  <2> QED BY <1>8, <1>9, <1>10, <2>1, <2>2, <2>3 DEF WellInv, Healthy, Heard
<1>13. CASE Tick
  <2>1. callAge' <= callAge + 1 /\ callAge' \in Nat
    BY <1>13 DEF Tick, Station!Age
  <2>2. /\ reading'.phase = reading.phase /\ reading'.status = reading.status
        /\ reading'.ring = reading.ring
        /\ reading.phase # "none" => reading'.age = reading.age + 1
    BY <1>10, <1>13 DEF Tick, Readings
  <2>3. reading.phase = "none" => timer > 0 /\ timer' = timer - 1
    BY <1>10, <1>13 DEF Tick, Due
  <2>4. Slack' = Slack + 1
    BY <1>10, <2>2, <2>3 DEF Slack
  <2> QED BY <1>8, <1>9, <1>10, <2>1, <2>2, <2>4 DEF WellInv, Healthy, Heard
<1>14. CASE UNCHANGED vars
  BY <1>9, <1>14 DEF vars, stationVars, coordVars, history, WellInv, Well, Healthy,
                     Slack, Heard
<1> QED BY <1>7, <1>11, <1>12, <1>13, <1>14

------------------------------------------------------------------------------
(* Both of the two events in time.                                         *)

TimingInv == TimerInv /\ CutInv /\ SampleAge /\ WellInv

LEMMA TimingInit == Init => TimingInv
<1> SUFFICES ASSUME Init PROVE TimingInv
  OBVIOUS
<1>1. TimerInv /\ SampleAge
  BY DEF Init, TimerInv, SampleAge, HasSample, NoReading
<1>2. CutInv
  BY DEF Init, CutInv, Station!Init, Station!Rings, Rings
<1>3. WellInv
  BY DEF Init, WellInv, Well, Station!Init
<1> QED BY <1>1, <1>2, <1>3 DEF TimingInv

LEMMA TimingInvariance ==
  ASSUME ~PushWired, Latency < MinOnCall
  PROVE  Spec => []TimingInv
<1>1. TimingInv /\ Known /\ Known' /\ [Next]_vars => TimingInv'
  <2> SUFFICES ASSUME TimingInv, Known, Known', [Next]_vars PROVE TimingInv'
    OBVIOUS
  <2>1. TypeOK'
    BY DEF Known
  <2>2. TimerInv' /\ CutInv' /\ SampleAge'
    BY <2>1, TimerPreserves, CutPreserves, SampleAgePreserves DEF TimingInv
  <2>3. WellInv'
    BY <2>1, <2>2, WellPreserves DEF TimingInv
  <2> QED BY <2>2, <2>3 DEF TimingInv
<1>2. Spec => []Known
  BY KnownInvariance
<1> QED BY <1>1, <1>2, TimingInit, PTL DEF Spec

\* As shipped, if a conversation lasts longer than the latency: a ring that was
\* pressed in good health, and goes on longer than that, has been announced.
THEOREM AnnouncesInTime ==
  ASSUME ~PushWired, Latency < MinOnCall
  PROVE  Spec => []AnnouncedInTime
<1>1. Known /\ TimingInv => AnnouncedInTime
  <2> SUFFICES ASSUME Known, TimingInv, call = "ring", callAge > Latency,
                      watch[pressed] = "well"
               PROVE  rung[pressed] > 0
    BY DEF AnnouncedInTime
  <2>1. Well
    BY StationTyped, Durations DEF Well, Rings
  <2>2. Heard
    BY <2>1, LateBy, StationTyped, Durations DEF TimingInv, Heard
  <2>3. seenRing = pressed
    BY <2>1, <2>2 DEF TimingInv, WellInv
  <2> QED BY <2>2, <2>3 DEF Known, BellInv, WatchInv, HeardInv
<1>2. Spec => []Known
  BY KnownInvariance
<1>3. Spec => []TimingInv
  BY TimingInvariance
<1> QED BY <1>1, <1>2, <1>3, PTL

\* As shipped, if a conversation lasts longer than the latency, "we never miss a
\* ring" (coordinator.py:274): none that lasted longer than that ends unannounced.
THEOREM NeverMissesARing ==
  ASSUME ~PushWired, Latency < MinOnCall
  PROVE  Spec => NoRingMissed
<1>1. AnnouncedInTime =>
        [call = "ring" /\ call' # "ring" /\ callAge > Latency
           /\ watch[pressed] = "well"
           => \/ rung[pressed] > 0
              \/ \E p \in pushes \cup {reading} : p.status = "ring"]_vars
  BY DEF AnnouncedInTime
<1>2. Spec => []AnnouncedInTime
  BY AnnouncesInTime
<1> QED BY <1>1, <1>2, PTL DEF NoRingMissed

\* As shipped, if a conversation lasts longer than the latency: a ring that was
\* pressed in good health, was announced, and ended longer ago than that, has its
\* answered or missed event.
THEOREM JudgesInTime ==
  ASSUME ~PushWired, Latency < MinOnCall
  PROVE  Spec => []JudgedInTime
<1>1. Known /\ TimingInv => JudgedInTime
  <2> SUFFICES ASSUME Known, TimingInv, pressed > 0, call # "ring",
                      callAge > Latency, watch[pressed] = "well",
                      rung[pressed] > 0
               PROVE  pressed \in Judged
    BY DEF JudgedInTime
  <2>1. Well /\ pressed \in Rings
    BY StationTyped, Durations DEF Well, Rings
  <2>2. ~Heard
    BY <2>1, LateBy, StationTyped, Durations DEF TimingInv, Heard
  <2> QED BY <2>1, <2>2 DEF Known, BellInv, WatchInv, HeardInv
<1>2. Spec => []Known
  BY KnownInvariance
<1>3. Spec => []TimingInv
  BY TimingInvariance
<1> QED BY <1>1, <1>2, <1>3, PTL

------------------------------------------------------------------------------
(* The stopwatch of the coordinator.                                       *)

\* Ring k was pressed in good health, and nobody ended it before its time.
RunsOut(k) == watch[k] = "well" /\ k \notin pickedUp /\ cutShort[k] # "ring"
Now(k)     == k = pressed /\ call = "ring"

\* When a ring that runs out is noticed it is not over.  It has been measured long
\* enough, or goes on, and is measured since no longer than the latency ago.
ClockInv ==
  /\ HasSample /\ reading.status = "ring" /\ ~Heard /\ RunsOut(reading.ring) =>
       Now(reading.ring) \/ Threshold = 0
  /\ Heard /\ RunsOut(seenRing) =>
       \/ sinceRing >= Threshold
       \/ Now(seenRing) /\ sinceRing >= callAge - Latency
  /\ UnansweredIsMissed

LEMMA RunningOut ==
  ASSUME ~PushWired, Known, CutInv, [Next]_vars,
         NEW k \in Rings, k <= pressed, RunsOut(k)'
  PROVE  /\ RunsOut(k)
         /\ Now(k) => \/ callAge = RingTimeout /\ ~Tick
                      \/ /\ Now(k)' /\ callAge' <= callAge + 1
                         /\ ~Tick => callAge' = callAge
<1> USE StationTyped, Durations DEF RunsOut, Now
<1>1. CASE Press
  <2>1. pressed + 1 # k
    BY DEF Rings
  <2> QED BY <1>1, <2>1 DEF Press, Station!Press
<1>2. CASE Tick
  BY <1>2 DEF Tick, Station!Age, history
<1>3. CASE UNCHANGED watch /\ Station!PickUp
  BY <1>3 DEF Station!PickUp
<1>4. CASE UNCHANGED watch /\ Station!GiveUp
  <2>1. ~Tick
    BY <1>4 DEF Station!GiveUp, Tick, Station!Age
  <2> QED BY <1>4, <2>1 DEF Station!GiveUp
<1>5. CASE UNCHANGED watch /\ Station!EndCall
  BY <1>5 DEF Station!EndCall
<1>6. CASE (UNCHANGED watch \/ Neglect) /\ Station!CutShort
  <2>1. watch[k] = "well"
    BY <1>6 DEF Neglect
  <2>2. cutShort' = [cutShort EXCEPT ![pressed] = call]
        /\ call # "idle" /\ UNCHANGED pickedUp
    BY <1>6 DEF Station!CutShort
  <2>3. k = pressed => cutShort[k] = "idle" /\ cutShort'[k] = call
    BY <2>2 DEF CutInv
  <2>4. k # pressed => cutShort'[k] = cutShort[k]
    BY <2>2
  <2> QED BY <2>1, <2>2, <2>3, <2>4
<1>7. CASE UNCHANGED stationVars
             /\ \A j \in Rings : watch'[j] \in {watch[j], "no"}
  BY <1>7 DEF stationVars
<1> QED BY <1>1, <1>2, <1>3, <1>4, <1>5, <1>6, <1>7, StationSteps

\* The stopwatch is started when a ring is noticed, and runs until it is judged.
LEMMA Stopwatch ==
  ASSUME ~PushWired, Known, Known', [Next]_vars
  PROVE  /\ Heard /\ Heard' => Tick \/ UNCHANGED sinceRing
         /\ ~Heard /\ Heard' => sinceRing' = 0 /\ UNCHANGED stationVars
<1>1. CASE FinishRead
  <2>1. Coord!ReadUnparsable \/ Coord!ReadSucceeds(reading.status)
    BY <1>1 DEF FinishRead
  <2>2. UNCHANGED stationVars
    BY <1>1 DEF FinishRead
  <2>3. CASE Coord!ReadUnparsable
    BY <2>3 DEF Coord!ReadUnparsable, Heard
  <2>4. CASE Coord!ReadSucceeds(reading.status)
    BY <2>2, <2>4 DEF Coord!ReadSucceeds, Coord!AfterSuccess, Coord!StatusAfterRead, Coord!Diverged,
                      Coord!JudgesOnRead, Heard
  <2> QED BY <2>1, <2>3, <2>4
<1>2. CASE FailRead
  BY <1>2 DEF FailRead, Coord!ReadFails, Coord!ReadFailsOverflowing, Heard
<1>3. CASE Setup
  BY <1>3 DEF Setup, Coord!Restart, Heard
<1>4. CASE Tick
  BY <1>4 DEF Tick, Coord!Tick, Heard
<1>5. CASE UNCHANGED coordVars
  BY <1>5 DEF coordVars, Heard
<1>6. CASE \/ Press \/ StationMoves \/ CallSignal \/ Reboot \/ Crash \/ Recover
           \/ StartRefresh \/ DeviceAnswers \/ AddEntities \/ UNCHANGED vars
  BY <1>5, <1>6 DEF Press, StationMoves, CallSignal, Reboot, Crash, Recover,
     StartRefresh, DeviceAnswers, AddEntities, vars
<1>7. ~Motion /\ ~ \E p \in pushes : LosePush(p) \/ PushArrives(p)
  BY DEF Motion, Known, BellInv, NoPushes
<1> QED BY <1>1, <1>2, <1>3, <1>4, <1>6, <1>7 DEF Next

LEMMA ClockPreserves ==
  ASSUME ~PushWired, Threshold + Latency <= RingTimeout, Known, Known', TimingInv,
         ClockInv, [Next]_vars
  PROVE  ClockInv'
<1> USE StationTyped, Durations
<1>1. Rests \/ Samples \/ Hears \/ Judges \/ Restarts \/ Presses
  BY BellKinds DEF Known, BellInv
<1>2. /\ SeenInv /\ SampleInv
      /\ Heard => seenRing \in Rings /\ seenRing <= pressed
      /\ HasSample /\ reading.status = "ring" =>
           reading.ring \in Rings /\ reading.ring <= pressed
      /\ Judged \subseteq Rings /\ \A k \in Judged : k <= pressed
  BY JudgedTypes DEF Known, LocalTypes, BellInv, SeenInv, SampleInv, Readings, Rings
<1>3. Heard => sinceRing \in 0 .. Threshold
  BY DEF Known, CoordInv, Coord!TypeOK, Coord!RingClockMatches, BellInv, NoPushes,
         Heard
<1>4. ASSUME NEW k \in Rings, Now(k), RunsOut(k), ~Heard
      PROVE  callAge <= Latency
  <2>1. Well /\ callStatus # call
    BY <1>4 DEF Now, RunsOut, Well, Heard, Rings
  <2> QED BY <2>1, LateBy DEF TimingInv
<1>5. ASSUME HasSample', reading'.status = "ring", ~Heard', RunsOut(reading.ring)'
      PROVE  Now(reading.ring)' \/ Threshold = 0
  <2>1. CASE Samples
    BY <1>5, <2>1 DEF Samples, Now
  <2>2. CASE Rests \/ Presses
    <3> PICK k : k = reading.ring
      OBVIOUS
    <3>1. HasSample /\ reading.status = "ring" /\ ~Heard /\ reading'.ring = k
      BY <1>5, <2>2 DEF Rests, Presses, HasSample, Heard
    <3>2. k \in Rings /\ k <= pressed /\ RunsOut(k)'
      BY <1>2, <1>5, <3>1 DEF RunsOut
    <3>3. RunsOut(k) /\ (Now(k) => callAge = RingTimeout \/ Now(k)')
      BY <3>2, RunningOut DEF TimingInv
    <3>4. Now(k) \/ Threshold = 0
      BY <3>1, <3>3 DEF ClockInv
    <3>5. Now(k) => callAge <= Latency
      BY <1>4, <3>1, <3>2, <3>3
    <3> QED BY <3>1, <3>3, <3>4, <3>5 DEF Now
  <2> QED BY <1>1, <1>5, <2>1, <2>2 DEF Hears, Judges, Restarts
<1>6. ASSUME Heard', RunsOut(seenRing)'
      PROVE  \/ sinceRing' >= Threshold
             \/ Now(seenRing)' /\ sinceRing' >= callAge' - Latency
  <2>1. CASE Heard
    <3> PICK k : k = seenRing
      OBVIOUS
    <3>1. seenRing' = k
      BY <1>1, <1>6, <2>1 DEF Rests, Samples, Hears, Judges, Restarts, Presses, Heard
    <3>2. k \in Rings /\ k <= pressed /\ RunsOut(k)'
      BY <1>2, <1>6, <2>1, <3>1 DEF RunsOut
    <3>3. /\ RunsOut(k)
          /\ Now(k) => \/ callAge = RingTimeout /\ ~Tick
                       \/ /\ Now(k)' /\ callAge' <= callAge + 1
                          /\ ~Tick => callAge' = callAge
      BY <3>2, RunningOut DEF TimingInv
    <3>4. sinceRing >= Threshold \/ (Now(k) /\ sinceRing >= callAge - Latency)
      BY <2>1, <3>3 DEF ClockInv
    <3>5. CASE Tick
      <4>1. sinceRing' = IF sinceRing + 1 <= Threshold THEN sinceRing + 1
                                                       ELSE Threshold
        BY <1>3, <2>1, <3>5 DEF Tick, Coord!Tick, Coord!Lesser, Coord!NoRing
      <4>2. callAge' \in Nat
        BY <3>5 DEF Tick, Station!Age
      <4> QED BY <1>3, <2>1, <3>1, <3>3, <3>4, <3>5, <4>1, <4>2 DEF Now
    <3>6. CASE ~Tick
      <4>1. sinceRing' = sinceRing
        BY <1>6, <2>1, <3>6, Stopwatch
      <4> QED BY <1>3, <2>1, <3>1, <3>3, <3>4, <3>6, <4>1 DEF Now
    <3> QED BY <3>5, <3>6
  <2>2. CASE ~Heard
    <3> PICK k : k = reading.ring
      OBVIOUS
    <3>1. Hears /\ sinceRing' = 0 /\ UNCHANGED stationVars
      BY <1>1, <1>6, <2>2, Stopwatch
         DEF Rests, Samples, Judges, Restarts, Presses, Heard
    <3>2. k \in Rings /\ k <= pressed /\ RunsOut(k)' /\ seenRing' = k
      BY <1>2, <1>6, <3>1 DEF Hears, RunsOut
    <3>3. RunsOut(k)
      BY <3>2, RunningOut DEF TimingInv
    <3>4. Now(k) \/ Threshold = 0
      BY <2>2, <3>1, <3>3 DEF ClockInv, Hears
    <3>5. Now(k) => callAge <= Latency
      BY <1>4, <2>2, <3>2, <3>3
    <3>6. callAge' = callAge /\ (Now(k)' <=> Now(k))
      BY <3>1 DEF stationVars, Now
    <3> QED BY <3>1, <3>2, <3>4, <3>5, <3>6 DEF Now
  <2> QED BY <2>1, <2>2
<1>7. ASSUME NEW v \in verdicts', RunsOut(v.ring)'
      PROVE  v.outcome # "answered"
  <2>1. CASE v \in verdicts
    <3>1. v.ring \in Rings /\ v.ring <= pressed
      BY <1>2, <2>1 DEF Judged
    <3>2. RunsOut(v.ring)
      BY <1>7, <3>1, RunningOut DEF TimingInv
    <3> QED BY <2>1, <3>2 DEF ClockInv, UnansweredIsMissed, RunsOut
  <2>2. CASE v \notin verdicts
    <3>1. Judges /\ v = [ring |-> seenRing, outcome |-> Coord!Verdict]
      BY <1>1, <1>7, <2>2 DEF Rests, Samples, Hears, Judges, Restarts, Presses
    <3>2. seenRing \in Rings /\ seenRing <= pressed /\ Heard /\ v.ring = seenRing
          /\ v.outcome = Coord!Verdict
      BY <1>2, <3>1 DEF Judges
    <3>3. RunsOut(seenRing)
      BY <1>7, <3>2, RunningOut DEF TimingInv
    <3>4. ~Now(seenRing)
      <4>1. seenRing <= reading.ring /\ reading.ring <= pressed /\ Over(reading.ring)
            /\ reading.ring \in 0 .. MaxRings
        BY <1>2, <3>1 DEF Judges, SampleInv, Known, LocalTypes, Readings
      <4> QED BY <3>2, <4>1 DEF Now, Over, Rings
    <3>5. sinceRing >= Threshold
      BY <3>2, <3>3, <3>4 DEF ClockInv
    <3> QED BY <1>3, <3>2, <3>5 DEF Coord!Verdict
  <2> QED BY <2>1, <2>2
<1>8. UnansweredIsMissed'
  BY <1>7 DEF UnansweredIsMissed, RunsOut
<1> QED BY <1>5, <1>6, <1>8 DEF ClockInv

\* As shipped, if a conversation lasts longer than the latency, and the threshold
\* lies as far below the timeout of a ring: one that was pressed in good health,
\* and ran out, has no "answered" event, although the stopwatch starts and stops
\* late.
THEOREM UnansweredAreMissed ==
  ASSUME ~PushWired, Latency < MinOnCall, Threshold + Latency <= RingTimeout
  PROVE  Spec => []UnansweredIsMissed
<1>1. Init => ClockInv
  BY DEF Init, ClockInv, UnansweredIsMissed, HasSample, NoReading, Heard, Coord!Init
<1>2. ClockInv /\ Known /\ Known' /\ TimingInv /\ [Next]_vars => ClockInv'
  BY ClockPreserves
<1>3. Spec => []Known
  BY KnownInvariance
<1>4. Spec => []TimingInv
  BY TimingInvariance
<1>5. ClockInv => UnansweredIsMissed
  BY DEF ClockInv
<1> QED BY <1>1, <1>2, <1>3, <1>4, <1>5, PTL DEF Spec

==============================================================================
