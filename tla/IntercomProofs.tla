---------------------------- MODULE IntercomProofs ----------------------------
(***************************************************************************)
(* Theorems about Intercom, for all values of its constants: its types,    *)
(* that the coordinator in it behaves as Coordinator says (so that what    *)
(* CoordinatorProofs proves of it holds here too), and what the entities   *)
(* promise of the doorbell as the integration is shipped, without pushes.  *)
(***************************************************************************)
EXTENDS Intercom, TLAPS

\* What CoordinatorProofs says of the coordinator itself; the history, which its
\* theorem on availability is about, is left where it starts.
Theory == INSTANCE CoordinatorProofs WITH failed <- 0, news <- "data"

USE DEF Unknown, NoTimer, Garbage

------------------------------------------------------------------------------
(* Types, of all but the coordinator and the timer it sets.                *)

\* A call began with a ring.
StationInv == Station!TypeOK /\ (call # "idle" => pressed > 0)

LocalTypes ==
  /\ StationInv
  /\ stage    \in {"first", "loaded", "ready", "failed"}
  /\ reading  \in Readings
  /\ up       \in BOOLEAN
  /\ pushes   \in SUBSET Pushes
  /\ reloads  \in 0 .. MaxReloads
  /\ seenRing \in 0 .. MaxRings
  /\ rung     \in [Rings -> 0 .. 2]
  /\ verdicts \in SUBSET Verdicts
  /\ watch    \in [Rings -> {"no", "up", "well"}]

LEMMA LocalInit == Init => LocalTypes
BY IntercomAssumption
   DEF Init, LocalTypes, StationInv, Station!Init, Station!TypeOK, Station!Rings,
       Station!LongestAge, NoReading, Readings, Rings, CallStates

LEMMA StationTypes ==
  ASSUME StationInv,
         \/ Station!Press \/ Station!PickUp \/ Station!GiveUp \/ Station!EndCall
         \/ Station!CutShort \/ Station!Age \/ UNCHANGED stationVars
  PROVE  StationInv'
<1> USE IntercomAssumption DEF StationInv, Station!TypeOK, Station!Rings, Station!LongestAge
<1>1. CASE Station!Press
  BY <1>1 DEF Station!Press, Station!Enter
<1>2. CASE Station!PickUp
  BY <1>2 DEF Station!PickUp, Station!Enter
<1>3. CASE Station!GiveUp
  BY <1>3 DEF Station!GiveUp, Station!Enter
<1>4. CASE Station!EndCall
  BY <1>4 DEF Station!EndCall, Station!Enter
<1>5. CASE Station!CutShort
  <2>1. pressed \in Station!Rings
    BY <1>5 DEF Station!CutShort
  <2>2. cutShort' \in [Station!Rings -> {"idle", "ring", "onCall"}]
    BY <1>5, <2>1 DEF Station!CutShort
  <2> QED BY <1>5, <2>2 DEF Station!CutShort, Station!Enter
<1>6. CASE Station!Age
  BY <1>6 DEF Station!Age
<1>7. CASE UNCHANGED stationVars
  BY <1>7 DEF stationVars
<1> QED BY <1>1, <1>2, <1>3, <1>4, <1>5, <1>6, <1>7

LEMMA NotifyTypes ==
  ASSUME pushes \in SUBSET Pushes, NEW status \in CallStates,
         NEW k \in 0 .. MaxRings, Notify(status, k)
  PROVE  pushes' \in SUBSET Pushes
BY DEF Notify, Pushes

LEMMA AnnounceTypes ==
  ASSUME rung \in [Rings -> 0 .. 2], NEW rings, NEW k, AnnounceIf(rings, k)
  PROVE  rung' \in [Rings -> 0 .. 2]
BY DEF AnnounceIf

LEMMA WatchTypes ==
  ASSUME LocalTypes
  PROVE  /\ Watching \in {"no", "up", "well"}
         /\ Neglect => watch' \in [Rings -> {"no", "up", "well"}]
BY DEF LocalTypes, Watching, Neglect

LEMMA LocalPreserves ==
  ASSUME LocalTypes, [Next]_vars
  PROVE  LocalTypes'
<1> USE DEF LocalTypes
<1>1. CASE Press
  <2>1. StationInv' /\ pressed + 1 \in 0 .. MaxRings
    BY <1>1, StationTypes, IntercomAssumption
       DEF Press, Station!Press, StationInv, Station!TypeOK
  <2>2. pushes' \in SUBSET Pushes
    BY <1>1, <2>1, NotifyTypes DEF Press, CallStates
  <2> QED BY <1>1, <2>1, <2>2, WatchTypes DEF Press
<1>2. CASE StationMoves
  <2>1. StationInv' /\ pressed \in 0 .. MaxRings
    BY <1>2, StationTypes DEF StationMoves, StationInv, Station!TypeOK
  <2>2. pushes' \in SUBSET Pushes
    BY <1>2, <2>1, NotifyTypes DEF StationMoves, CallStates
  <2> QED BY <1>2, <2>1, <2>2 DEF StationMoves, history
<1>3. CASE Motion
  <2>1. StationInv'
    BY <1>3, StationTypes DEF Motion
  <2>2. pushes' \in SUBSET Pushes
    BY <1>3, IntercomAssumption DEF Motion, Pushes
  <2> QED BY <1>3, <2>1, <2>2 DEF Motion, history
<1>4. CASE CallSignal
  <2>1. StationInv' /\ pressed \in 0 .. MaxRings
    BY <1>4, StationTypes DEF CallSignal, StationInv, Station!TypeOK
  <2>2. pushes' \in SUBSET Pushes
    BY <1>4, <2>1, NotifyTypes DEF CallSignal, CallStates
  <2> QED BY <1>4, <2>1, <2>2 DEF CallSignal, history
<1>5. CASE Reboot \/ Crash
  <2>1. StationInv'
    BY <1>5, StationTypes DEF Reboot, Crash
  <2> QED BY <1>5, <2>1, WatchTypes DEF Reboot, Crash
<1>6. CASE Recover
  BY <1>6, StationTypes DEF Recover, history
<1>7. CASE StartRefresh
  <2>1. reading' \in Readings
    BY <1>7, IntercomAssumption DEF StartRefresh, Readings, NoReading, CallStates
  <2> QED BY <1>7, <2>1, StationTypes DEF StartRefresh, history
<1>8. CASE DeviceAnswers
  <2>1. reading' \in Readings
    BY <1>8 DEF DeviceAnswers, Readings, CallStates, StationInv, Station!TypeOK
  <2> QED BY <1>8, <2>1, StationTypes, WatchTypes DEF DeviceAnswers
<1>9. CASE FinishRead
  <2>1. reading' \in Readings /\ stage' \in {"first", "loaded", "ready", "failed"}
    BY <1>9, IntercomAssumption
       DEF FinishRead, Settle, Readings, NoReading, CallStates
  <2>2. seenRing' \in 0 .. MaxRings
    BY <1>9 DEF FinishRead, Readings
  <2>3. rung' \in [Rings -> 0 .. 2]
    BY <1>9, AnnounceTypes DEF FinishRead
  <2>4. verdicts' \in SUBSET Verdicts
    BY <1>9 DEF FinishRead, Verdicts, Coord!Verdict
  <2> QED BY <1>9, <2>1, <2>2, <2>3, <2>4, StationTypes DEF FinishRead
<1>10. CASE FailRead
  <2>1. reading' \in Readings /\ stage' \in {"first", "loaded", "ready", "failed"}
    BY <1>10, IntercomAssumption
       DEF FailRead, Settle, Readings, NoReading, CallStates
  <2> QED BY <1>10, <2>1, StationTypes DEF FailRead, history
<1>11. CASE AddEntities
  BY <1>11, StationTypes DEF AddEntities, history
<1>12. CASE Setup
  <2>1. reading' \in Readings /\ reloads' \in 0 .. MaxReloads
    BY <1>12, IntercomAssumption DEF Setup, Readings, NoReading, CallStates
  <2> QED BY <1>12, <2>1, StationTypes DEF Setup
<1>13. ASSUME NEW p \in pushes, LosePush(p) \/ PushArrives(p)
       PROVE  LocalTypes'
  <2>1. CASE LosePush(p)
    BY <2>1, StationTypes DEF LosePush, history
  <2>2. CASE PushArrives(p)
    <3>1. rung' \in [Rings -> 0 .. 2]
      BY <2>2, AnnounceTypes DEF PushArrives
    <3>2. seenRing' \in 0 .. MaxRings /\ pushes' \in SUBSET Pushes
      BY <2>2 DEF PushArrives, Pushes
    <3> QED BY <2>2, <3>1, <3>2, StationTypes DEF PushArrives
  <2> QED BY <1>13, <2>1, <2>2
<1>14. CASE Tick
  <2>1. reading' \in Readings
    BY <1>14, IntercomAssumption DEF Tick, Readings
  <2> QED BY <1>14, <2>1, StationTypes DEF Tick, history
<1>15. CASE UNCHANGED vars
  BY <1>15, StationTypes DEF vars, history
<1> QED BY <1>1, <1>2, <1>3, <1>4, <1>5, <1>6, <1>7, <1>8, <1>9, <1>10,
           <1>11, <1>12, <1>13, <1>14, <1>15 DEF Next

LEMMA LocalInvariance == Spec => []LocalTypes
BY LocalInit, LocalPreserves, PTL DEF Spec

------------------------------------------------------------------------------
(* The coordinator in its surroundings.                                    *)

LEMMA CoordinatorStep ==
  ASSUME LocalTypes, [Next]_vars
  PROVE  [Coord!Next]_(Coord!vars)
<1> USE DEF Coord!Next
<1>1. CASE UNCHANGED coordVars
  BY <1>1 DEF coordVars, Coord!vars
<1>2. CASE FinishRead
  <2>1. reading.status \in Coord!CallStates \cup {Garbage}
    BY DEF LocalTypes, Readings, CallStates, Coord!CallStates
  <2> QED BY <1>2, <2>1 DEF FinishRead
<1>3. CASE FailRead
  BY <1>3 DEF FailRead
<1>4. CASE Setup
  BY <1>4 DEF Setup
<1>5. ASSUME NEW p \in pushes, PushArrives(p)
      PROVE  Coord!Next
  <2>1. p.status \in Coord!CallStates \cup {Coord!Unknown}
    BY DEF LocalTypes, Pushes, CallStates, Coord!CallStates, Coord!Unknown
  <2> QED BY <1>5, <2>1 DEF PushArrives
<1>6. CASE Tick
  BY <1>6 DEF Tick
<1>7. CASE \/ Press \/ StationMoves \/ Motion \/ CallSignal \/ Reboot \/ Crash
           \/ Recover \/ StartRefresh \/ DeviceAnswers \/ AddEntities
           \/ \E p \in pushes : LosePush(p)
  BY <1>1, <1>7 DEF Press, StationMoves, Motion, CallSignal, Reboot, Crash,
     Recover, StartRefresh, DeviceAnswers, AddEntities, LosePush
<1>8. CASE UNCHANGED vars
  BY <1>1, <1>8 DEF vars
<1> QED BY <1>2, <1>3, <1>4, <1>5, <1>6, <1>7, <1>8 DEF Next

\* The coordinator composed with the device, the network and Home Assistant does
\* nothing that Coordinator alone could not do: every property of it holds here.
THEOREM ImplementsCoordinator == Spec => Coord!Spec
<1>1. Init => Coord!Init
  BY DEF Init
<1> QED BY <1>1, CoordinatorStep, LocalInvariance, PTL DEF Spec, Coord!Spec

\* The coordinator of Intercom is the one of CoordinatorProofs.
LEMMA SameCoordinator ==
  /\ Coord!Init <=> Theory!Init
  /\ [Coord!Next]_(Coord!vars) <=> [Theory!Next]_(Theory!vars)
  /\ Coord!TypeOK <=> Theory!TypeOK
  /\ Coord!IntervalMatchesMode <=> Theory!IntervalMatchesMode
  /\ Coord!RingClockMatches <=> Theory!RingClockMatches
BY DEF
  Coord!Init, Coord!Next, Coord!vars, Coord!TypeOK, Coord!IntervalMatchesMode,
  Coord!RingClockMatches, Coord!ReadSucceeds, Coord!ReadFails,
  Coord!ReadFailsOverflowing, Coord!ReadUnparsable, Coord!PushEvent,
  Coord!PushEventOverflowing, Coord!Tick, Coord!Restart, Coord!ModeInterval,
  Coord!Count, Coord!Diverged, Coord!Silent, Coord!Demotes, Coord!Rescales,
  Coord!Degraded, Coord!StatusAfterRead, Coord!JudgesOnRead, Coord!Verdict,
  Coord!CallStates, Coord!Outcomes, Coord!Unknown, Coord!NoRing, Coord!Lesser,
  Coord!Greater, Coord!Tolerated, Coord!Excess, Coord!Overflows, Coord!Cap,
  Coord!Interval, Coord!AfterSuccess,
  Theory!Init, Theory!Next, Theory!vars, Theory!TypeOK,
  Theory!IntervalMatchesMode, Theory!RingClockMatches, Theory!ReadSucceeds,
  Theory!ReadFails, Theory!ReadFailsOverflowing, Theory!ReadUnparsable,
  Theory!PushEvent, Theory!PushEventOverflowing, Theory!Tick, Theory!Restart,
  Theory!ModeInterval, Theory!Count, Theory!Diverged, Theory!Silent,
  Theory!Demotes, Theory!Rescales, Theory!Degraded, Theory!StatusAfterRead,
  Theory!JudgesOnRead, Theory!Verdict, Theory!CallStates, Theory!Outcomes,
  Theory!Unknown, Theory!NoRing, Theory!Lesser, Theory!Greater,
  Theory!Tolerated, Theory!Excess, Theory!Overflows, Theory!Cap,
  Theory!Interval, Theory!AfterSuccess

CoordInv == Coord!TypeOK /\ Coord!IntervalMatchesMode /\ Coord!RingClockMatches

LEMMA CoordInvariance == Spec => []CoordInv
<1>1. Coord!Spec => Theory!Spec
  BY SameCoordinator, PTL DEF Coord!Spec, Theory!Spec
<1>2. Theory!Spec => []Theory!TypeOK
  BY Theory!TypeCorrect, CoordinatorConstants
<1>3. Theory!Spec => []Theory!IntervalMatchesMode
  BY Theory!IntervalIsRight, CoordinatorConstants
<1>4. Theory!Spec => []Theory!RingClockMatches
  BY Theory!RingClockIsRight, CoordinatorConstants
<1>5. Theory!TypeOK /\ Theory!IntervalMatchesMode /\ Theory!RingClockMatches
        => CoordInv
  BY SameCoordinator DEF CoordInv
<1> QED BY ImplementsCoordinator, <1>1, <1>2, <1>3, <1>4, <1>5, PTL

\* The timer is set to the interval in use.
TimerType == timer \in 0 .. MaxInterval \cup {NoTimer}

LEMMA TimerStep ==
  ASSUME Coord!TypeOK, Coord!TypeOK', TimerType, [Next]_vars
  PROVE  TimerType'
<1>1. updateInterval \in 1 .. MaxInterval /\ updateInterval' \in 1 .. MaxInterval
  BY DEF Coord!TypeOK
<1>2. Reschedule => TimerType'
  BY <1>1, CoordinatorConstants DEF Reschedule, TimerType
<1>3. CASE FinishRead \/ FailRead \/ AddEntities \/ Setup \/ StartRefresh
  BY <1>1, <1>2, <1>3, CoordinatorConstants
     DEF FinishRead, FailRead, AddEntities, Setup, StartRefresh, TimerType
<1>4. CASE Tick
  BY <1>4, CoordinatorConstants DEF Tick, TimerType
<1>5. ASSUME NEW p \in pushes, LosePush(p) \/ PushArrives(p)
      PROVE  TimerType'
  BY <1>2, <1>5 DEF LosePush, PushArrives, TimerType
<1>6. CASE \/ Press \/ StationMoves \/ Motion \/ CallSignal \/ Reboot \/ Crash
           \/ Recover \/ DeviceAnswers \/ UNCHANGED vars
  BY <1>6 DEF Press, StationMoves, Motion, CallSignal, Reboot, Crash, Recover,
     DeviceAnswers, vars, TimerType
<1> QED BY <1>3, <1>4, <1>5, <1>6 DEF Next

\* Every variable keeps its type, whatever is pressed, lost, garbled, reordered
\* and reloaded.
THEOREM TypeCorrect == Spec => []TypeOK
<1>1. Init => TimerType
  BY DEF Init, TimerType
<1>2. CoordInv => Coord!TypeOK
  BY DEF CoordInv
<1>3. Spec => []TimerType
  BY <1>1, <1>2, TimerStep, CoordInvariance, PTL DEF Spec
<1>4. CoordInv /\ LocalTypes /\ TimerType => TypeOK
  BY DEF CoordInv, LocalTypes, StationInv, TimerType, TypeOK
<1> QED BY <1>3, <1>4, CoordInvariance, LocalInvariance, PTL

------------------------------------------------------------------------------
(* The doorbell, as the integration is shipped: no pushes.                 *)

NoPushes  == pushes = {} /\ ~pushActive /\ ~pushProven
HasSample == reading.phase = "answered" /\ reading.status # Garbage
Heard     == callStatus = "ring"
Over(j)   == j < pressed \/ call # "ring"

\* What was noticed, announced and judged was there.
SeenInv ==
  /\ seenRing <= pressed
  /\ Heard => seenRing > 0
  /\ \A k \in Rings : rung[k] > 0 => k <= seenRing
  /\ \A k \in Judged : 0 < k /\ k <= seenRing

\* A sample is not older than what the coordinator has noticed, and tells the
\* truth of the rings before it.
SampleInv ==
  HasSample => /\ seenRing <= reading.ring /\ reading.ring <= pressed
               /\ IF reading.status = "ring" THEN reading.ring > 0
                                             ELSE Over(reading.ring)

\* Only a ring that the entry was loaded for is watched, and what is heard or has
\* been judged was announced, if it was watched.
HeardInv ==
  /\ stage # "ready" => \A k \in Rings : watch[k] = "no"
  /\ Heard => watch[seenRing] = "no" \/ rung[seenRing] > 0
  /\ \A k \in Judged : watch[k] = "no" \/ rung[k] > 0

\* And what was announced is judged as soon as it is not heard any more.
WatchInv ==
  /\ HeardInv
  /\ \A k \in Rings : watch[k] # "no" /\ rung[k] > 0 =>
       k \in Judged \/ (Heard /\ k = seenRing)

\* The first read and those of the timer are the only ones.
StageInv == reading.phase # "none" => stage \in {"first", "ready"}

BellInv == NoPushes /\ SeenInv /\ SampleInv /\ WatchInv

\* The steps, as far as the doorbell goes.  Nothing is sampled, noticed, announced
\* or judged, although a call may end, a sample be dropped, and the entry loaded.
StageMoves ==
  stage' # stage => \/ stage = "first" /\ stage' \in {"loaded", "failed"}
                    \/ stage = "loaded" /\ stage' = "ready"

Rests ==
  /\ UNCHANGED <<pressed, seenRing, rung, verdicts, reloads>>
  /\ Heard' <=> Heard
  /\ call' = call \/ call' # "ring"
  /\ HasSample' => HasSample /\ reading'.status = reading.status
                             /\ reading'.ring = reading.ring
  /\ \A k \in Rings : watch'[k] \in {watch[k], "no"}
  /\ StageMoves

\* The state is sampled.
Samples ==
  /\ UNCHANGED <<callStatus, call, pressed, seenRing, rung, verdicts, reloads,
                 watch, stage>>
  /\ HasSample' /\ reading'.status = call /\ reading'.ring = pressed

\* A sample tells of a ring that the coordinator did not know of, or that the one
\* it knows of is over.
Hears ==
  /\ HasSample /\ reading.status = "ring" /\ ~Heard
  /\ callStatus' = "ring" /\ seenRing' = reading.ring
  /\ AnnounceIf(TRUE, reading.ring)
  /\ ~HasSample' /\ stage' = IF stage = "first" THEN "loaded" ELSE stage
  /\ UNCHANGED <<call, pressed, verdicts, reloads, watch>>

Judges ==
  /\ HasSample /\ reading.status # "ring" /\ Heard
  /\ callStatus' = reading.status
  /\ verdicts' = verdicts \cup {[ring |-> seenRing, outcome |-> Coord!Verdict]}
  /\ ~HasSample' /\ StageMoves
  /\ UNCHANGED <<call, pressed, seenRing, rung, reloads, watch>>

LEMMA FinishReadKinds ==
  ASSUME LocalTypes, CoordInv, NoPushes, FinishRead
  PROVE  NoPushes' /\ (Rests \/ Hears \/ Judges)
<1> USE DEF LocalTypes, NoPushes
<1>1. /\ UNCHANGED <<call, pressed, reloads, watch, pushes>>
      /\ ~HasSample' /\ StageMoves /\ reading.phase = "answered"
  BY DEF FinishRead, stationVars, HasSample, NoReading, Settle, StageMoves
<1>2. CASE reading.status = Garbage
  BY <1>1, <1>2 DEF FinishRead, Coord!ReadUnparsable, Rests, Heard
<1>3. CASE reading.status # Garbage
  <2>1. reading.status \in CallStates /\ HasSample
    BY <1>1, <1>3 DEF Readings, HasSample
  <2>2. /\ Coord!ReadSucceeds(reading.status)
        /\ seenRing' = IF Coord!Diverged(reading.status) THEN reading.ring
                                                        ELSE seenRing
        /\ AnnounceIf(Coord!RingsOnRead(reading.status), reading.ring)
        /\ verdicts' = IF Coord!JudgesOnRead(reading.status)
                         THEN verdicts \cup {[ring    |-> seenRing,
                                              outcome |-> Coord!Verdict]}
                         ELSE verdicts
    BY <1>3 DEF FinishRead
  <2>3. NoPushes' /\ callStatus' = reading.status
    BY <1>1, <2>2 DEF Coord!ReadSucceeds, Coord!AfterSuccess, Coord!StatusAfterRead
  <2>4. /\ Coord!Diverged(reading.status) <=> reading.status = "ring" /\ ~Heard
        /\ Coord!RingsOnRead(reading.status) <=> Coord!Diverged(reading.status)
    BY DEF Coord!Diverged, Coord!RingsOnRead, Heard
  <2>5. Coord!JudgesOnRead(reading.status) <=> reading.status # "ring" /\ Heard
    BY DEF Coord!JudgesOnRead, Heard, CoordInv, Coord!RingClockMatches
  <2>6. CASE reading.status = "ring" /\ ~Heard
    <3>1. stage' = IF stage = "first" THEN "loaded" ELSE stage
      BY <2>2 DEF FinishRead, Settle, Coord!ReadSucceeds, Coord!AfterSuccess
    <3> QED BY <1>1, <2>1, <2>2, <2>3, <2>4, <2>5, <2>6, <3>1
            DEF Hears, AnnounceIf
  <2>7. CASE reading.status # "ring" /\ Heard
    BY <1>1, <2>1, <2>2, <2>3, <2>4, <2>5, <2>7 DEF Judges, AnnounceIf
  <2>8. CASE reading.status = "ring" <=> Heard
    <3>1. UNCHANGED <<seenRing, rung, verdicts>>
      BY <2>2, <2>4, <2>5, <2>8 DEF AnnounceIf
    <3>2. Heard' <=> Heard
      BY <2>3, <2>8 DEF Heard
    <3> QED BY <1>1, <2>3, <3>1, <3>2 DEF Rests
  <2> QED BY <2>3, <2>6, <2>7, <2>8
<1> QED BY <1>2, <1>3

\* A new coordinator.
Restarts ==
  /\ stage = "failed" \/ reloads' > reloads
  /\ ~Heard' /\ ~HasSample'
  /\ \A k \in Rings : watch'[k] = "no"
  /\ UNCHANGED <<call, pressed, seenRing, rung, verdicts>>

Presses ==
  /\ pressed' = pressed + 1
  /\ \A k \in Rings : watch'[k] = watch[k] \/ (k = pressed + 1 /\ stage = "ready")
                                           \/ watch'[k] = "no"
  /\ UNCHANGED <<callStatus, reading, stage, seenRing, rung, verdicts, reloads>>

LEMMA BellKinds ==
  ASSUME ~PushWired, LocalTypes, CoordInv, NoPushes, [Next]_vars
  PROVE  /\ NoPushes'
         /\ Rests \/ Samples \/ Hears \/ Judges \/ Restarts \/ Presses
<1> USE DEF LocalTypes, NoPushes
<1> DEFINE noticed == <<callStatus, pressed, seenRing, rung, verdicts, reloads>>
<1>1. Neglect => \A k \in Rings : watch'[k] \in {watch[k], "no"}
  BY DEF Neglect
<1>2. ASSUME UNCHANGED coordVars, UNCHANGED pushes, UNCHANGED noticed, StageMoves,
             call' = call \/ call' # "ring",
             UNCHANGED watch \/ Neglect,
             HasSample' => /\ HasSample /\ reading'.status = reading.status
                           /\ reading'.ring = reading.ring
      PROVE  NoPushes' /\ Rests
  BY <1>1, <1>2 DEF coordVars, Rests, Heard
<1>3. CASE Press
  <2>1. NoPushes'
    BY <1>3 DEF Press, Notify, coordVars
  <2>2. \A k \in Rings : watch'[k] = IF k = pressed + 1 THEN Watching ELSE watch[k]
    BY <1>3 DEF Press
  <2>3. Presses
    BY <1>3, <2>2 DEF Press, Presses, Station!Press, coordVars, Watching
  <2> QED BY <2>1, <2>3
<1>4. CASE StationMoves \/ CallSignal
  <2>1. UNCHANGED pushes /\ UNCHANGED history /\ UNCHANGED coordVars
        /\ UNCHANGED <<reading, stage, reloads>>
    BY <1>4 DEF StationMoves, CallSignal, Notify
  <2>2. call' # "ring" /\ UNCHANGED pressed
    BY <1>4 DEF StationMoves, CallSignal, Station!PickUp, Station!GiveUp,
                Station!EndCall, Station!CutShort, Station!Enter
  <2> QED BY <1>2, <2>1, <2>2 DEF history, coordVars, HasSample, StageMoves
<1>5. CASE Reboot \/ Crash
  <2>1. /\ call' = call \/ call' # "ring"
        /\ UNCHANGED <<pressed, seenRing, rung, verdicts, reading, stage, pushes,
                       reloads>>
        /\ UNCHANGED coordVars /\ Neglect
    BY <1>5 DEF Reboot, Crash, Station!CutShort, Station!Enter, stationVars
  <2> QED BY <1>2, <2>1 DEF coordVars, HasSample, StageMoves
<1>6. CASE Recover \/ StartRefresh \/ AddEntities
  <2>1. /\ UNCHANGED <<pressed, call, seenRing, rung, verdicts, pushes, reloads,
                       watch>>
        /\ UNCHANGED coordVars
        /\ StageMoves /\ (HasSample' => HasSample /\ reading' = reading)
    BY <1>6 DEF Recover, StartRefresh, AddEntities, stationVars, history,
                HasSample, StageMoves, NoReading
  <2> QED BY <1>2, <2>1 DEF coordVars
<1>7. CASE DeviceAnswers
  <2>1. /\ UNCHANGED <<pressed, call, seenRing, rung, verdicts, pushes, reloads,
                       stage>>
        /\ UNCHANGED coordVars
    BY <1>7 DEF DeviceAnswers, stationVars
  <2>2. \/ /\ reading' = [reading EXCEPT !.phase = "answered", !.status = call,
                                         !.ring = pressed]
           /\ UNCHANGED watch
        \/ /\ reading' = [reading EXCEPT !.phase = "answered", !.status = Garbage]
           /\ Neglect
    BY <1>7 DEF DeviceAnswers
  <2>3. \/ HasSample' /\ reading'.status = call /\ reading'.ring = pressed
           /\ UNCHANGED watch
        \/ ~HasSample' /\ Neglect
    BY <2>2 DEF HasSample, Readings, StationInv, Station!TypeOK
  <2>4. CASE HasSample'
    BY <2>1, <2>3, <2>4 DEF Samples, coordVars
  <2>5. CASE ~HasSample'
    BY <1>2, <2>1, <2>3, <2>5 DEF coordVars, StageMoves
  <2> QED BY <2>4, <2>5
<1>8. CASE FinishRead
  BY <1>8, FinishReadKinds
<1>9. CASE FailRead
  <2>1. /\ UNCHANGED <<pressed, call, seenRing, rung, verdicts, pushes, reloads,
                       watch, callStatus, pushActive, pushProven>>
        /\ StageMoves /\ ~HasSample'
    BY <1>9 DEF FailRead, Coord!ReadFails, Coord!ReadFailsOverflowing,
         stationVars, history, Settle, StageMoves, HasSample, NoReading
  <2> QED BY <2>1 DEF Rests, Heard
<1>10. CASE Setup
  <2>1. NoPushes' /\ ~Heard'
    BY <1>10 DEF Setup, Coord!Restart, Heard
  <2>2. Restarts
    BY <1>10, <2>1 DEF Setup, Restarts, HasSample, NoReading, stationVars
  <2> QED BY <2>1, <2>2
<1>11. CASE Tick
  <2>1. /\ UNCHANGED <<pressed, call, seenRing, rung, verdicts, pushes, reloads,
                       watch, callStatus, pushActive, pushProven, stage>>
        /\ reading'.phase = reading.phase /\ reading'.status = reading.status
        /\ reading'.ring = reading.ring
    BY <1>11 DEF Tick, Coord!Tick, Station!Age, history, Readings
  <2> QED BY <2>1 DEF Rests, Heard, HasSample, StageMoves
<1>12. CASE UNCHANGED vars
  BY <1>2, <1>12 DEF vars, history, stationVars, coordVars, HasSample, StageMoves
<1>13. ~Motion /\ ~ \E p \in pushes : LosePush(p) \/ PushArrives(p)
  BY DEF Motion
<1> QED BY <1>3, <1>4, <1>5, <1>6, <1>7, <1>8, <1>9, <1>10, <1>11, <1>12, <1>13
        DEF Next

LEMMA JudgedGrows ==
  ASSUME NEW k, NEW outcome,
         verdicts' = verdicts \cup {[ring |-> k, outcome |-> outcome]}
  PROVE  Judged' = Judged \cup {k}
<1>1. [ring |-> k, outcome |-> outcome].ring = k
  OBVIOUS
<1>2. \A j : j \in Judged' <=> \E v \in verdicts' : v.ring = j
  BY DEF Judged
<1>3. \A j : j \in Judged <=> \E v \in verdicts : v.ring = j
  BY DEF Judged
<1> QED BY <1>1, <1>2, <1>3

LEMMA JudgedTypes ==
  ASSUME LocalTypes
  PROVE  Judged \subseteq 0 .. MaxRings
BY DEF LocalTypes, Judged, Verdicts

\* What AnnounceIf does to the count of the ring that was noticed.
LEMMA Announces ==
  ASSUME LocalTypes, NEW k \in Rings, AnnounceIf(TRUE, k)
  PROVE  /\ \A j \in Rings : j # k => rung'[j] = rung[j]
         /\ stage = "ready"  => rung'[k] > 0
         /\ stage = "ready" /\ rung[k] = 0 => rung'[k] = 1
         /\ stage # "ready" => rung' = rung
BY DEF LocalTypes, AnnounceIf

LEMMA BellInit == Init => BellInv
BY DEF Init, BellInv, NoPushes, SeenInv, SampleInv, WatchInv, HeardInv, Heard, HasSample,
       NoReading, Judged, Coord!Init, Station!Init

LEMMA BellPreserves ==
  ASSUME ~PushWired, LocalTypes, LocalTypes', CoordInv, BellInv, [Next]_vars
  PROVE  BellInv'
<1> USE IntercomAssumption DEF BellInv
<1>1. NoPushes' /\ (Rests \/ Samples \/ Hears \/ Judges \/ Restarts \/ Presses)
  BY BellKinds
<1>2. /\ seenRing \in 0 .. MaxRings /\ pressed \in 0 .. MaxRings
      /\ pressed' \in 0 .. MaxRings
      /\ rung \in [Rings -> 0 .. 2] /\ rung' \in [Rings -> 0 .. 2]
      /\ Judged \subseteq 0 .. MaxRings
      /\ reading.ring \in 0 .. MaxRings
      /\ call = "ring" => pressed > 0
      /\ Judged \subseteq Rings /\ (Heard => seenRing \in Rings)
  BY JudgedTypes
     DEF LocalTypes, StationInv, Station!TypeOK, Readings, SeenInv, Rings
<1>3. UNCHANGED verdicts => Judged' = Judged
  BY DEF Judged
<1>4. CASE Rests
  <2>1. SeenInv'
    BY <1>3, <1>4 DEF Rests, SeenInv
  <2>2. SampleInv'
    BY <1>4 DEF Rests, SampleInv, Over
  <2>3. WatchInv'
    BY <1>2, <1>3, <1>4 DEF Rests, StageMoves, WatchInv, HeardInv
  <2> QED BY <1>1, <2>1, <2>2, <2>3
<1>5. CASE Samples
  <2>1. SeenInv' /\ WatchInv'
    BY <1>3, <1>5 DEF Samples, SeenInv, WatchInv, HeardInv, Heard
  <2>2. SampleInv'
    BY <1>2, <1>5 DEF Samples, SampleInv, SeenInv, Over
  <2> QED BY <1>1, <2>1, <2>2
<1>6. CASE Hears
  <2> DEFINE k == reading.ring
  <2>1. k \in Rings /\ k <= pressed /\ seenRing <= k
    BY <1>2, <1>6 DEF Hears, SampleInv, Rings
  <2>2. AnnounceIf(TRUE, k) /\ seenRing' = k
    BY <1>6 DEF Hears
  <2> HIDE DEF k
  <2>3. /\ \A j \in Rings : j # k => rung'[j] = rung[j]
        /\ stage = "ready" => rung'[k] > 0
        /\ stage # "ready" => rung' = rung
    BY <2>1, <2>2, Announces
  <2>4. SeenInv'
    <3>1. k \in 0 .. MaxRings /\ 0 < k
      BY <2>1 DEF Rings
    <3>2. \A j \in Rings : rung'[j] > 0 => j <= k
      BY <1>2, <2>1, <2>3, <3>1 DEF SeenInv, Rings
    <3>3. \A j \in Judged : 0 < j /\ j <= k
      BY <1>2, <2>1, <3>1 DEF SeenInv
    <3> QED BY <1>3, <1>6, <2>1, <2>2, <3>1, <3>2, <3>3 DEF Hears, SeenInv
  <2>5. WatchInv'
    <3>1. stage' # "ready" => stage # "ready"
      BY <1>6 DEF Hears
    <3>2. watch'[k] = "no" \/ rung'[k] > 0
      BY <1>6, <2>1, <2>3 DEF Hears, WatchInv, HeardInv
    <3>3. \A j \in Rings : rung[j] > 0 => rung'[j] > 0
      BY <1>2, <2>1, <2>3
    <3>4. \A j \in Judged : watch[j] = "no" \/ rung'[j] > 0
      BY <1>2, <3>3 DEF WatchInv, HeardInv
    <3>5. \A j \in Rings : watch[j] # "no" /\ rung'[j] > 0 => j \in Judged \/ j = k
      BY <1>6, <2>3 DEF Hears, WatchInv, HeardInv
    <3>6. Heard'
      BY <1>6 DEF Hears, Heard
    <3> QED BY <1>3, <1>6, <2>2, <3>1, <3>2, <3>4, <3>5, <3>6 DEF Hears, WatchInv, HeardInv
  <2>6. SampleInv'
    BY <1>6 DEF Hears, SampleInv
  <2> QED BY <1>1, <2>4, <2>5, <2>6
<1>7. CASE Judges
  <2>1. Judged' = Judged \cup {seenRing}
    BY <1>7, JudgedGrows DEF Judges
  <2>2. ~Heard'
    BY <1>7 DEF Judges, Heard
  <2>3. SeenInv'
    BY <1>2, <1>7, <2>1, <2>2 DEF Judges, SeenInv
  <2>4. WatchInv'
    BY <1>7, <2>1, <2>2 DEF Judges, WatchInv, HeardInv, StageMoves
  <2> QED BY <1>1, <1>7, <2>3, <2>4 DEF Judges, SampleInv
<1>8. CASE Restarts
  BY <1>1, <1>2, <1>3, <1>8 DEF Restarts, SeenInv, SampleInv, WatchInv, HeardInv
<1>9. CASE Presses
  <2>1. SeenInv' /\ SampleInv'
    <3>1. SeenInv'
      <4>1. seenRing <= pressed'
        BY <1>2, <1>9 DEF Presses, SeenInv
      <4> QED BY <1>3, <1>9, <4>1 DEF Presses, SeenInv, Heard
    <3> QED BY <1>2, <1>9, <3>1 DEF Presses, SampleInv, HasSample, Over
  <2>2. WatchInv'
    <3>1. (\A k \in Judged : k # pressed + 1) /\ seenRing # pressed + 1
      BY <1>2 DEF SeenInv
    <3>2. \A k \in Rings : rung[k] > 0 => k # pressed + 1
      BY <1>2 DEF SeenInv, Rings
    <3> QED BY <1>2, <1>3, <1>9, <3>1, <3>2 DEF Presses, WatchInv, HeardInv, Heard
  <2> QED BY <1>1, <2>1, <2>2
<1> QED BY <1>1, <1>4, <1>5, <1>6, <1>7, <1>8, <1>9

\* Without reloads of the entry: a coordinator that is new has noticed nothing,
FreshInv == stage \in {"first", "failed"} => seenRing = 0 /\ ~Heard

\* one that hears no ring has noticed none that still goes on,
OverInv ==
  /\ ~Heard => Over(seenRing)
  /\ HasSample /\ reading.status = "ring" /\ ~Heard => reading.ring > seenRing

\* and it judges what it announced before it hears the next.
OnceInv ==
  /\ \A k \in Rings : rung[k] <= 1
  /\ \A k \in Rings : rung[k] > 0 => k \in Judged \/ (Heard /\ k = seenRing)
  /\ Heard => seenRing \notin Judged

OnceBellInv == FreshInv /\ OverInv /\ OnceInv

LEMMA OnceBellInit == Init => OnceBellInv
BY DEF Init, OnceBellInv, FreshInv, OverInv, OnceInv, Heard, HasSample, Over,
       NoReading, Coord!Init, Station!Init

LEMMA OnceBellPreserves ==
  ASSUME ~PushWired, LocalTypes, CoordInv, StageInv, BellInv, OnceBellInv,
         reloads = 0, reloads' = 0, [Next]_vars
  PROVE  OnceBellInv'
<1> USE IntercomAssumption DEF OnceBellInv
<1>1. Rests \/ Samples \/ Hears \/ Judges \/ Restarts \/ Presses
  BY BellKinds DEF BellInv
<1>2. /\ seenRing \in 0 .. MaxRings /\ pressed \in 0 .. MaxRings
      /\ rung \in [Rings -> 0 .. 2]
      /\ Judged \subseteq 0 .. MaxRings
      /\ reading.ring \in 0 .. MaxRings
      /\ call = "ring" => pressed > 0
  BY JudgedTypes DEF LocalTypes, StationInv, Station!TypeOK, Readings
<1>3. UNCHANGED verdicts => Judged' = Judged
  BY DEF Judged
<1>4. SeenInv /\ SampleInv
  BY DEF BellInv
<1>5. CASE Rests
  BY <1>2, <1>3, <1>5 DEF Rests, StageMoves, FreshInv, OverInv, OnceInv, Over
<1>6. CASE Samples
  <2>1. Heard' <=> Heard
    BY <1>6 DEF Samples, Heard
  <2>2. OverInv'
    BY <1>2, <1>6, <2>1 DEF Samples, OverInv, Over
  <2> QED BY <1>3, <1>6, <2>1, <2>2 DEF Samples, FreshInv, OnceInv
<1>7. CASE Hears
  <2> DEFINE k == reading.ring
  <2>1. k \in Rings /\ seenRing < k
    BY <1>2, <1>4, <1>7 DEF Hears, SampleInv, OverInv, Rings
  <2>2. AnnounceIf(TRUE, k) /\ seenRing' = k /\ Heard' /\ ~HasSample'
    BY <1>7 DEF Hears, Heard
  <2> HIDE DEF k
  <2>3. rung[k] = 0 /\ k \notin Judged
    BY <1>2, <1>4, <2>1 DEF SeenInv, Rings
  <2>4. \A j \in Rings : rung'[j] = rung[j] \/ (j = k /\ rung'[j] = 1)
    BY <2>1, <2>2, <2>3, Announces DEF LocalTypes
  <2>5. OnceInv'
    BY <1>2, <1>3, <1>7, <2>1, <2>2, <2>3, <2>4 DEF Hears, OnceInv
  <2>6. FreshInv'
    BY <1>7 DEF Hears, FreshInv, HasSample, StageInv
  <2> QED BY <2>2, <2>5, <2>6 DEF OverInv
<1>8. CASE Judges
  <2>1. Judged' = Judged \cup {seenRing}
    BY <1>8, JudgedGrows DEF Judges
  <2>2. ~Heard' /\ ~HasSample'
    BY <1>8 DEF Judges, Heard
  <2>3. OnceInv'
    BY <1>8, <2>1, <2>2 DEF Judges, OnceInv
  <2>4. OverInv'
    BY <1>2, <1>4, <1>8, <2>2 DEF Judges, OverInv, Over, SampleInv
  <2> QED BY <1>8, <2>2, <2>3, <2>4 DEF Judges, FreshInv, StageMoves
<1>9. CASE Restarts
  <2>1. seenRing = 0 /\ Over(0)
    BY <1>2, <1>9 DEF Restarts, FreshInv, Over
  <2>2. \A k \in Rings : rung[k] = 0
    BY <1>2, <1>4, <2>1 DEF SeenInv, Rings
  <2> QED BY <1>2, <1>3, <1>9, <2>1, <2>2
          DEF Restarts, FreshInv, OverInv, OnceInv, Over
<1>10. CASE Presses
  <2>1. OverInv'
    BY <1>2, <1>4, <1>10 DEF Presses, OverInv, Over, SeenInv, SampleInv, Heard,
                             HasSample
  <2> QED BY <1>3, <1>10, <2>1 DEF Presses, FreshInv, OnceInv, Heard
<1> QED BY <1>1, <1>5, <1>6, <1>7, <1>8, <1>9, <1>10

LEMMA StagePreserves ==
  ASSUME StageInv, [Next]_vars
  PROVE  StageInv'
<1> USE DEF StageInv
<1>1. CASE \/ Press \/ StationMoves \/ Motion \/ CallSignal \/ Reboot \/ Crash
           \/ Recover
  BY <1>1 DEF Press, StationMoves, Motion, CallSignal, Reboot, Crash, Recover
<1>2. CASE StartRefresh \/ AddEntities \/ DeviceAnswers \/ FailRead \/ Setup
  BY <1>2 DEF StartRefresh, AddEntities, DeviceAnswers, FailRead, Setup, NoReading
<1>3. CASE FinishRead
  BY <1>3 DEF FinishRead, NoReading
<1>4. CASE Tick
  BY <1>4 DEF Tick
<1>5. ASSUME NEW p \in pushes, LosePush(p) \/ PushArrives(p)
      PROVE  StageInv'
  BY <1>5 DEF LosePush, PushArrives
<1>6. CASE UNCHANGED vars
  BY <1>6 DEF vars
<1> QED BY <1>1, <1>2, <1>3, <1>4, <1>5, <1>6 DEF Next

LEMMA StageInvariance == Spec => []StageInv
<1>1. Init => StageInv
  BY DEF Init, StageInv, NoReading
<1> QED BY <1>1, StagePreserves, PTL DEF Spec

LEMMA BellInvariance == ASSUME ~PushWired PROVE Spec => []BellInv
<1>1. BellInv /\ LocalTypes /\ LocalTypes' /\ CoordInv /\ [Next]_vars => BellInv'
  BY BellPreserves
<1> QED BY <1>1, BellInit, LocalInvariance, CoordInvariance, PTL DEF Spec

NotReloaded == reloads = 0

LEMMA OnceBellInvariance ==
  ASSUME ~PushWired
  PROVE  Spec /\ []NotReloaded => []OnceBellInv
<1>1. OnceBellInv /\ BellInv /\ StageInv /\ LocalTypes /\ CoordInv /\ NotReloaded
        /\ NotReloaded' /\ [Next]_vars => OnceBellInv'
  <2>1. NotReloaded /\ NotReloaded' => reloads = 0 /\ reloads' = 0
    BY DEF NotReloaded
  <2> QED BY <2>1, OnceBellPreserves
<1>2. Spec => []BellInv
  BY BellInvariance
<1> QED BY <1>1, <1>2, OnceBellInit, LocalInvariance, CoordInvariance,
           StageInvariance, PTL DEF Spec

\* As shipped, and until the entry is reloaded: "one ring must produce exactly one
\* doorbell event", never two, whatever is sampled, delayed, failed and retried.
THEOREM RingsOnce ==
  ASSUME ~PushWired
  PROVE  Spec /\ []NotReloaded => []OneEventPerRing
<1>1. OnceBellInv => OneEventPerRing
  BY DEF OnceBellInv, OnceInv, OneEventPerRing
<1>2. Spec /\ []NotReloaded => []OnceBellInv
  BY OnceBellInvariance
<1> QED BY <1>1, <1>2, PTL

\* As shipped, and until the entry is reloaded: no verdict is skipped, whatever
\* outage lies between the end of a ring and the next one.
THEOREM JudgesBeforeNext ==
  ASSUME ~PushWired
  PROVE  Spec /\ []NotReloaded => []JudgedBeforeNext
<1>1. LocalTypes /\ BellInv /\ OnceBellInv => JudgedBeforeNext
  <2> SUFFICES ASSUME LocalTypes, BellInv, OnceBellInv, NEW j \in Rings,
                      NEW k \in Rings, j < k, rung[j] > 0, rung[k] > 0
               PROVE  j \in Judged
    BY DEF JudgedBeforeNext
  <2>1. k <= seenRing /\ seenRing \in 0 .. MaxRings
    BY DEF BellInv, SeenInv, LocalTypes
  <2>2. j # seenRing
    BY <2>1, IntercomAssumption DEF Rings
  <2> QED BY <2>2 DEF OnceBellInv, OnceInv
<1>2. Spec => []BellInv
  BY BellInvariance
<1>3. Spec /\ []NotReloaded => []OnceBellInv
  BY OnceBellInvariance
<1> QED BY <1>1, <1>2, <1>3, LocalInvariance, PTL

------------------------------------------------------------------------------
(* The promise of Doorbell.                                                *)

LEMMA PromiseInit == Init => Bell!Init
<1>1. Init => Judged = {}
  BY DEF Init, Judged
<1> QED BY <1>1 DEF Init, Station!Init, Bell!Init, Rings, Bell!Rings

LEMMA PromiseStep ==
  ASSUME ~PushWired, LocalTypes, LocalTypes', CoordInv, BellInv, OnceBellInv,
         [Next]_vars
  PROVE  [Bell!Next]_(Bell!vars)
<1>1. Rests \/ Samples \/ Hears \/ Judges \/ Restarts \/ Presses
  BY BellKinds DEF BellInv
<1>2. /\ seenRing \in 0 .. MaxRings /\ pressed \in 0 .. MaxRings
      /\ pressed' \in 0 .. MaxRings
      /\ rung \in [Rings -> 0 .. 2]
      /\ Judged \subseteq 0 .. MaxRings
      /\ reading.ring \in 0 .. MaxRings
  BY JudgedTypes DEF LocalTypes, StationInv, Station!TypeOK, Readings
<1>3. UNCHANGED verdicts => Judged' = Judged
  BY DEF Judged
<1>4. SeenInv /\ SampleInv /\ OverInv /\ OnceInv
  BY DEF BellInv, OnceBellInv
<1> USE IntercomAssumption DEF Rings, Bell!Rings, Bell!vars
<1>5. CASE Rests \/ Samples \/ Restarts
  BY <1>3, <1>5 DEF Rests, Samples, Restarts
<1>6. CASE Presses
  <2>1. Bell!Press
    BY <1>2, <1>3, <1>6 DEF Presses, Bell!Press
  <2> QED BY <2>1 DEF Bell!Next
<1>7. CASE Hears
  <2> DEFINE k == reading.ring
  <2>1. k \in Rings /\ seenRing < k /\ k <= pressed
    BY <1>2, <1>4, <1>7 DEF Hears, SampleInv, OverInv
  <2>2. AnnounceIf(TRUE, k) /\ UNCHANGED <<pressed, verdicts>> /\ ~Heard
    BY <1>7 DEF Hears
  <2> HIDE DEF k
  <2>3. rung[k] = 0 /\ \A later \in Rings : later > k => rung[later] = 0
    BY <1>2, <1>4, <2>1 DEF SeenInv
  <2>4. \A later \in Rings : later >= k => later \notin Judged
    BY <1>2, <1>4, <2>1 DEF SeenInv
  <2>5. \A earlier \in Rings : earlier < k /\ rung[earlier] > 0
                                 => earlier \in Judged
    BY <1>4, <2>2 DEF OnceInv
  <2>6. CASE stage = "ready"
    <3>1. rung' = [rung EXCEPT ![k] = 1]
      BY <2>1, <2>2, <2>3, <2>6 DEF AnnounceIf
    <3>2. Bell!Announce(k)
      BY <1>3, <2>1, <2>2, <2>3, <2>4, <2>5, <3>1 DEF Bell!Announce
    <3> QED BY <2>1, <3>2 DEF Bell!Next
  <2>7. CASE stage # "ready"
    BY <1>3, <2>2, <2>7 DEF AnnounceIf
  <2> QED BY <2>6, <2>7
<1>8. CASE Judges
  <2>1. Judged' = Judged \cup {seenRing}
    BY <1>8, JudgedGrows DEF Judges
  <2>2. Heard /\ UNCHANGED <<pressed, rung>>
    BY <1>8 DEF Judges
  <2>3. seenRing \in Rings /\ seenRing <= pressed
    BY <1>2, <1>4, <2>2 DEF SeenInv
  <2>4. \A later \in Rings : later >= seenRing => later \notin Judged
    BY <1>2, <1>4, <2>2, <2>3 DEF SeenInv, OnceInv
  <2>5. Bell!Judge(seenRing)
    BY <2>1, <2>2, <2>3, <2>4 DEF Bell!Judge
  <2> QED BY <2>3, <2>5 DEF Bell!Next
<1> QED BY <1>1, <1>5, <1>6, <1>7, <1>8

\* As shipped, and until the entry is reloaded: the integration keeps the promise
\* of Doorbell, over a network that delays and fails, a device that hangs, garbles
\* and reboots, and a first refresh that is retried.
THEOREM ImplementsDoorbell ==
  ASSUME ~PushWired
  PROVE  Spec /\ []NotReloaded => KeepsPromise
<1>1. LocalTypes /\ LocalTypes' /\ CoordInv /\ BellInv /\ OnceBellInv
        /\ [Next]_vars => [Bell!Next]_(Bell!vars)
  BY PromiseStep
<1>2. Spec => []BellInv
  BY BellInvariance
<1>3. Spec /\ []NotReloaded => []OnceBellInv
  BY OnceBellInvariance
<1> QED BY <1>1, <1>2, <1>3, PromiseInit, LocalInvariance, CoordInvariance, PTL
        DEF Spec, KeepsPromise, Bell!Spec


------------------------------------------------------------------------------
(* Verdicts, with pushes or without.                                       *)

\* Whatever is on its way or was noticed is of a ring that has been pressed.
NoticedInv ==
  /\ seenRing <= pressed
  /\ Heard => seenRing > 0
  /\ \A k \in Judged : 0 < k /\ k <= pressed

UnderWayInv ==
  /\ HasSample => /\ reading.ring <= pressed
                  /\ reading.status = "ring" => reading.ring > 0
  /\ \A p \in pushes : p.ring <= pressed /\ (p.status = "ring" => p.ring > 0)

NewsInv == NoticedInv /\ UnderWayInv

\* A ring is noticed, by a read or by a push; its end is noticed; or neither.
Notices(k) ==
  /\ callStatus' = "ring" /\ seenRing' = k /\ k <= pressed
  /\ AnnounceIf(TRUE, k) /\ UNCHANGED <<verdicts, watch>>

Ends == /\ ~Heard' /\ UNCHANGED <<seenRing, rung>>
        /\ \/ UNCHANGED verdicts
           \/ Heard /\ \E outcome \in {"answered", "missed"} :
                verdicts' = verdicts \cup {[ring |-> seenRing, outcome |-> outcome]}

Keeps == (Heard' <=> Heard) /\ UNCHANGED <<seenRing, rung, verdicts>>

\* No ring is watched anew, and none by a coordinator that is.
Unwatches ==
  /\ \A k \in Rings : watch'[k] \in {watch[k], "no"}
  /\ stage' # "ready" => stage # "ready" \/ \A k \in Rings : watch'[k] = "no"

LEMMA ReadKinds ==
  ASSUME LocalTypes, NewsInv, FinishRead
  PROVE  (\E k \in Rings : Notices(k)) \/ Ends \/ Keeps
<1>1. CASE reading.status = Garbage
  BY <1>1 DEF FinishRead, Coord!ReadUnparsable, Keeps, Heard
<1>2. CASE reading.status # Garbage
  <2>1. /\ Coord!ReadSucceeds(reading.status)
        /\ seenRing' = IF Coord!Diverged(reading.status) THEN reading.ring
                                                        ELSE seenRing
        /\ AnnounceIf(Coord!RingsOnRead(reading.status), reading.ring)
        /\ verdicts' = IF Coord!JudgesOnRead(reading.status)
                         THEN verdicts \cup {[ring    |-> seenRing,
                                              outcome |-> Coord!Verdict]}
                         ELSE verdicts
        /\ UNCHANGED watch
    BY <1>2 DEF FinishRead
  <2>2. callStatus' = reading.status
    BY <2>1 DEF Coord!ReadSucceeds, Coord!AfterSuccess, Coord!StatusAfterRead
  <2>3. /\ Coord!Diverged(reading.status) <=> reading.status = "ring" /\ ~Heard
        /\ Coord!RingsOnRead(reading.status) <=> Coord!Diverged(reading.status)
    BY DEF Coord!Diverged, Coord!RingsOnRead, Coord!Demotes, Heard
  <2>4. Coord!JudgesOnRead(reading.status) => reading.status # "ring" /\ Heard
    BY DEF Coord!JudgesOnRead, Heard
  <2>5. CASE reading.status = "ring" /\ ~Heard
    <3>1. reading.ring \in Rings /\ reading.ring <= pressed
      BY <1>2, <2>5 DEF NewsInv, UnderWayInv, HasSample, FinishRead, LocalTypes,
                        Readings, Rings
    <3>2. Notices(reading.ring)
      BY <2>1, <2>2, <2>3, <2>4, <2>5, <3>1 DEF Notices, AnnounceIf
    <3> QED BY <3>1, <3>2
  <2>6. CASE reading.status = "ring" /\ Heard
    BY <2>1, <2>2, <2>3, <2>4, <2>6 DEF Keeps, AnnounceIf, Heard
  <2>7. CASE reading.status # "ring"
    <3>1. ~Heard' /\ UNCHANGED <<seenRing, rung, watch>>
      BY <2>1, <2>2, <2>3, <2>7 DEF AnnounceIf, Heard
    <3>2. Coord!Verdict \in {"answered", "missed"}
      BY DEF Coord!Verdict
    <3> QED BY <2>1, <2>4, <3>1, <3>2 DEF Ends
  <2> QED BY <2>5, <2>6, <2>7
<1> QED BY <1>1, <1>2

LEMMA PushKinds ==
  ASSUME LocalTypes, NewsInv, NEW p \in pushes, PushArrives(p)
  PROVE  (\E k \in Rings : Notices(k)) \/ Ends \/ Keeps
<1>1. p.ring <= pressed /\ (p.status = "ring" => p.ring \in Rings)
  BY DEF NewsInv, UnderWayInv, LocalTypes, Pushes, Rings
<1>2. UNCHANGED <<verdicts, watch>>
  BY DEF PushArrives
<1>3. CASE Coord!PushEventOverflowing /\ UNCHANGED <<rung, seenRing, timer>>
  BY <1>2, <1>3 DEF Coord!PushEventOverflowing, Keeps, Heard
<1>4. CASE /\ Coord!PushEvent(p.status)
           /\ AnnounceIf(Coord!RingsOnPush(p.status), p.ring)
           /\ seenRing' = IF Coord!RingsOnPush(p.status) THEN p.ring ELSE seenRing
  <2>1. callStatus' = IF p.status = Unknown THEN callStatus ELSE p.status
    BY <1>4 DEF Coord!PushEvent, Coord!Unknown
  <2>2. Coord!RingsOnPush(p.status) <=> p.status = "ring" /\ ~Heard
    BY DEF Coord!RingsOnPush, Heard
  <2>3. CASE p.status = "ring" /\ ~Heard
    BY <1>1, <1>2, <1>4, <2>1, <2>2, <2>3 DEF Notices, AnnounceIf
  <2>4. CASE ~(p.status = "ring" /\ ~Heard)
    BY <1>2, <1>4, <2>1, <2>2, <2>4 DEF Keeps, Ends, AnnounceIf, Heard
  <2> QED BY <2>3, <2>4
<1> QED BY <1>3, <1>4 DEF PushArrives

LEMMA NoticedPreserves ==
  ASSUME LocalTypes, NoticedInv, HeardInv, pressed' = pressed, Unwatches,
         (\E k \in Rings : Notices(k)) \/ Ends \/ Keeps
  PROVE  NoticedInv' /\ HeardInv'
<1> USE DEF NoticedInv, HeardInv, Unwatches
<1>1. /\ seenRing \in 0 .. MaxRings /\ pressed \in 0 .. MaxRings
      /\ rung \in [Rings -> 0 .. 2] /\ Judged \subseteq Rings
      /\ Heard => seenRing \in Rings
  BY IntercomAssumption, JudgedTypes
     DEF LocalTypes, StationInv, Station!TypeOK, Rings
<1>2. UNCHANGED verdicts => Judged' = Judged
  BY DEF Judged
<1>3. ASSUME NEW k \in Rings, Notices(k)
      PROVE  NoticedInv' /\ HeardInv'
  <2>1. /\ \A j \in Rings : j # k => rung'[j] = rung[j]
        /\ stage = "ready"  => rung'[k] > 0
        /\ stage # "ready" => rung' = rung
    BY <1>3, Announces DEF Notices
  <2>2. \A j \in Rings : rung[j] > 0 => rung'[j] > 0
    BY <1>1, <2>1
  <2>3. Heard' /\ k > 0 /\ Judged' = Judged
    BY <1>2, <1>3 DEF Notices, Heard, Rings
  <2> QED BY <1>1, <1>3, <2>1, <2>2, <2>3 DEF Notices
<1>4. CASE Ends
  <2>1. CASE UNCHANGED verdicts
    BY <1>1, <1>2, <1>4, <2>1 DEF Ends
  <2>2. CASE ~UNCHANGED verdicts
    <3>1. Heard /\ Judged' = Judged \cup {seenRing}
      BY <1>4, <2>2, JudgedGrows DEF Ends
    <3> QED BY <1>1, <1>4, <3>1 DEF Ends
  <2> QED BY <2>1, <2>2
<1>5. CASE Keeps
  BY <1>1, <1>2, <1>5 DEF Keeps
<1> QED BY <1>3, <1>4, <1>5

\* What a step does to the samples and pushes under way.
LEMMA UnderWayPreserves ==
  ASSUME LocalTypes, UnderWayInv, [Next]_vars
  PROVE  UnderWayInv'
<1> USE DEF UnderWayInv
<1>1. /\ pressed \in 0 .. MaxRings /\ (call = "ring" => pressed > 0)
      /\ \A p \in pushes : p.ring \in 0 .. MaxRings
      /\ reading \in Readings
  BY DEF LocalTypes, StationInv, Station!TypeOK, Pushes
<1>2. ASSUME NEW status, NEW k \in 0 .. MaxRings, Notify(status, k),
             k <= pressed', status = "ring" => k > 0, pressed' \in Int, pressed <= pressed'
      PROVE  \A p \in pushes' : p.ring <= pressed' /\ (p.status = "ring" => p.ring > 0)
  <2>1. \A p \in pushes' : p \in pushes \/ (p.ring = k /\ p.status = status)
    BY <1>2 DEF Notify
  <2> QED BY <1>1, <1>2, <2>1
<1>3. CASE Press
  <2>1. pressed' = pressed + 1 /\ pressed + 1 \in 0 .. MaxRings
        /\ reading' = reading /\ Notify("ring", pressed + 1)
    BY <1>1, <1>3, IntercomAssumption DEF Press, Station!Press
  <2>2. \A p \in pushes' : p.ring <= pressed' /\ (p.status = "ring" => p.ring > 0)
    BY <1>1, <1>2, <2>1
  <2> QED BY <1>1, <2>1, <2>2 DEF HasSample, Readings
<1>4. CASE StationMoves \/ CallSignal
  <2>1. pressed' = pressed /\ reading' = reading
        /\ \E status \in {"onCall", "idle"} : Notify(status, pressed)
    BY <1>4 DEF StationMoves, CallSignal, Station!PickUp, Station!GiveUp,
                Station!EndCall, Station!CutShort
  <2>2. \A p \in pushes' : p.ring <= pressed' /\ (p.status = "ring" => p.ring > 0)
    BY <1>1, <1>2, <2>1
  <2> QED BY <2>1, <2>2 DEF HasSample
<1>5. CASE Motion
  BY <1>1, <1>5 DEF Motion, stationVars, HasSample
<1>6. CASE DeviceAnswers
  <2>1. UNCHANGED <<pressed, pushes>>
    BY <1>6 DEF DeviceAnswers, stationVars
  <2>2. HasSample' => reading'.ring = pressed /\ reading'.status = call
    BY <1>1, <1>6 DEF DeviceAnswers, HasSample, Readings
  <2> QED BY <1>1, <2>1, <2>2
<1>7. CASE FinishRead \/ FailRead \/ Setup \/ StartRefresh
  BY <1>7 DEF FinishRead, FailRead, Setup, StartRefresh, HasSample, NoReading,
              stationVars
<1>8. CASE Tick
  <2>1. /\ UNCHANGED <<pressed, pushes>>
        /\ reading'.phase = reading.phase /\ reading'.status = reading.status
        /\ reading'.ring = reading.ring
    BY <1>1, <1>8 DEF Tick, Station!Age, Readings
  <2> QED BY <2>1 DEF HasSample
<1>9. ASSUME NEW p \in pushes, LosePush(p) \/ PushArrives(p)
      PROVE  UnderWayInv'
  BY <1>9 DEF LosePush, PushArrives, HasSample, stationVars
<1>10. CASE Reboot \/ Crash \/ Recover \/ AddEntities \/ UNCHANGED vars
  BY <1>10 DEF Reboot, Crash, Recover, AddEntities, vars, HasSample, stationVars,
               Station!CutShort
<1> QED BY <1>3, <1>4, <1>5, <1>6, <1>7, <1>8, <1>9, <1>10 DEF Next

LEMMA NewsPreserves ==
  ASSUME LocalTypes, NewsInv, HeardInv, [Next]_vars
  PROVE  NewsInv' /\ HeardInv'
<1>1. NoticedInv /\ UnderWayInv'
  BY UnderWayPreserves DEF NewsInv
<1> SUFFICES NoticedInv' /\ HeardInv'
  BY <1>1 DEF NewsInv
<1>2. Neglect => \A k \in Rings : watch'[k] \in {watch[k], "no"}
  BY DEF Neglect
<1>3. CASE Press
  <2>1. /\ pressed' = pressed + 1
        /\ UNCHANGED <<callStatus, stage, seenRing, rung, verdicts>>
    BY <1>3 DEF Press, Station!Press, coordVars
  <2>2. \A k \in Rings : watch'[k] = IF k = pressed + 1 THEN Watching ELSE watch[k]
    BY <1>3 DEF Press, LocalTypes
  <2>3. stage # "ready" => Watching = "no"
    BY DEF Watching
  <2>4. /\ seenRing \in 0 .. MaxRings /\ pressed \in 0 .. MaxRings
        /\ Judged \subseteq Rings /\ Judged' = Judged
        /\ Heard => seenRing \in Rings
    BY <1>1, <2>1, JudgedTypes, IntercomAssumption
       DEF LocalTypes, StationInv, Station!TypeOK, Rings, NoticedInv, Judged
  <2>5. NoticedInv'
    <3>1. seenRing' <= pressed'
      BY <1>1, <2>1, <2>4 DEF NoticedInv
    <3>2. \A k \in Judged' : 0 < k /\ k <= pressed'
      <4> SUFFICES ASSUME NEW k \in Judged' PROVE 0 < k /\ k <= pressed'
        OBVIOUS
      <4>1. k \in Judged /\ k \in 1 .. MaxRings
        BY <2>4 DEF Rings
      <4>2. 0 < k /\ k <= pressed
        BY <1>1, <4>1 DEF NoticedInv
      <4> QED BY <2>1, <2>4, <4>1, <4>2
    <3> QED BY <1>1, <2>1, <3>1, <3>2 DEF NoticedInv, Heard
  <2>6. \A k \in Judged : k # pressed + 1
    BY <1>1, <2>4 DEF NoticedInv
  <2>7. HeardInv'
    BY <1>1, <2>1, <2>2, <2>3, <2>4, <2>6 DEF HeardInv, NoticedInv, Heard
  <2> QED BY <2>5, <2>7
<1>4. CASE FinishRead
  <2>1. pressed' = pressed /\ Unwatches
    BY <1>4 DEF FinishRead, Settle, stationVars, Unwatches
  <2> QED BY <1>1, <1>4, <2>1, ReadKinds, NoticedPreserves
<1>5. ASSUME NEW p \in pushes, PushArrives(p)
      PROVE  NoticedInv' /\ HeardInv'
  <2>1. pressed' = pressed /\ Unwatches
    BY <1>5 DEF PushArrives, stationVars, Unwatches
  <2> QED BY <1>1, <1>5, <2>1, PushKinds, NoticedPreserves
<1>6. CASE Setup
  <2>1. pressed' = pressed /\ Unwatches
    BY <1>6 DEF Setup, stationVars, Unwatches
  <2>2. Ends
    BY <1>6 DEF Setup, Coord!Restart, Ends, Heard
  <2> QED BY <1>1, <2>1, <2>2, NoticedPreserves
<1>7. CASE FailRead
  <2>1. pressed' = pressed /\ Unwatches
    BY <1>7 DEF FailRead, Settle, stationVars, history, Unwatches
  <2>2. Keeps
    BY <1>7 DEF FailRead, Coord!ReadFails, Coord!ReadFailsOverflowing, history,
                Keeps, Heard
  <2> QED BY <1>1, <2>1, <2>2, NoticedPreserves
<1>8. CASE Tick
  <2>1. pressed' = pressed /\ Unwatches
    BY <1>8 DEF Tick, Station!Age, history, Unwatches
  <2>2. Keeps
    BY <1>8 DEF Tick, Coord!Tick, history, Keeps, Heard
  <2> QED BY <1>1, <2>1, <2>2, NoticedPreserves
<1>9. CASE \/ StationMoves \/ CallSignal \/ Motion \/ Reboot \/ Crash \/ Recover
           \/ StartRefresh \/ DeviceAnswers \/ AddEntities \/ UNCHANGED vars
           \/ \E p \in pushes : LosePush(p)
  <2>1. /\ UNCHANGED <<pressed, callStatus, seenRing, rung, verdicts>>
        /\ UNCHANGED watch \/ Neglect
        /\ stage' # "ready" => stage # "ready"
    BY <1>9 DEF StationMoves, CallSignal, Motion, Reboot, Crash, Recover,
       StartRefresh, DeviceAnswers, AddEntities, LosePush, vars, coordVars, history,
       stationVars, Station!PickUp, Station!GiveUp, Station!EndCall, Station!CutShort
  <2>2. Unwatches /\ Keeps
    BY <1>2, <2>1 DEF Unwatches, Keeps, Heard
  <2> QED BY <1>1, <2>1, <2>2, NoticedPreserves
<1> QED BY <1>3, <1>4, <1>5, <1>6, <1>7, <1>8, <1>9 DEF Next

\* Whatever is lost, delayed, reordered, fails, hangs and is reloaded: no verdict
\* without a ring, and none of a ring that was watched and not announced.
THEOREM VerdictsAreOfRings == Spec => []VerdictsHaveRings
<1>1. Init => NewsInv /\ HeardInv
  BY DEF Init, NewsInv, NoticedInv, UnderWayInv, HeardInv, Heard, HasSample,
         NoReading, Judged, Coord!Init, Station!Init
<1>2. Spec => [](NewsInv /\ HeardInv)
  BY <1>1, NewsPreserves, LocalInvariance, PTL DEF Spec
<1>3. LocalTypes /\ NewsInv /\ HeardInv => VerdictsHaveRings
  <2> SUFFICES ASSUME LocalTypes, NewsInv, HeardInv, NEW v \in verdicts
               PROVE  v.ring > 0 /\ (watch[v.ring] # "no" => rung[v.ring] > 0)
    BY DEF VerdictsHaveRings
  <2>1. v.ring \in Judged /\ v.ring \in 0 .. MaxRings
    BY DEF Judged, LocalTypes, Verdicts
  <2> QED BY <2>1 DEF NewsInv, NoticedInv, HeardInv
<1> QED BY <1>2, <1>3, LocalInvariance, PTL
==============================================================================
