------------------------------ MODULE Intercom ------------------------------
(***************************************************************************)
(* The integration at work: Coordinator composed with the DoorStation it   *)
(* watches, the network between them, and the part of Home Assistant that  *)
(* schedules the reads (DataUpdateCoordinator, external: modelled from how *)
(* the coordinator uses it).                                               *)
(*                                                                         *)
(* A callStatus read is not one step: the device samples its state at one  *)
(* moment (DeviceAnswers) and the coordinator processes the answer later   *)
(* (FinishRead), with anything in between.  Refreshes exclude one another. *)
(* One that falls due during another one waits for it, and the timer is    *)
(* set again whenever one finishes and whenever a push updates the data.   *)
(*                                                                         *)
(* As shipped, nothing calls async_handle_push_event or configure_host:    *)
(* that is PushWired = FALSE.                                              *)
(***************************************************************************)
EXTENDS Integers, FiniteSets

CONSTANTS
  Tolerance, MaxInterval, MaxExponent,                         \* Backoff
  PollInterval, HealthInterval, PushTimeout, Threshold, MaxFailures,
  RingTimeout, MinOnCall, MaxRings,                            \* DoorStation
  ReadTime,    \* the longest a read of callStatus takes
  Garbled,     \* the device may answer with something that does not parse
  PushWired,   \* the device posts its events to a webhook
  MaxPushes,   \* bound: events under way at once
  MaxReloads   \* bound: reloads of the entry

\* What Backoff and Coordinator assume of their constants.
ASSUME CoordinatorConstants ==
  /\ Tolerance \in Nat
  /\ MaxInterval \in Nat \ {0}
  /\ MaxExponent \in Nat \ {0}
  /\ \A k \in 1 .. MaxExponent : 2^k >= 2
  /\ PollInterval   \in Nat \ {0}
  /\ HealthInterval \in Nat \ {0}
  /\ PushTimeout    \in Nat
  /\ Threshold      \in Nat
  /\ PollInterval <= MaxInterval /\ HealthInterval <= MaxInterval
  /\ MaxFailures \in Nat
  /\ MaxFailures > Tolerance + MaxExponent
  /\ PollInterval * 2^MaxExponent >= MaxInterval
  /\ HealthInterval * 2^MaxExponent >= MaxInterval

ASSUME IntercomAssumption ==
  /\ RingTimeout \in Nat \ {0}
  /\ MinOnCall   \in Nat
  /\ MaxRings    \in Nat
  /\ ReadTime   \in Nat
  /\ Garbled    \in BOOLEAN
  /\ PushWired  \in BOOLEAN
  /\ MaxPushes  \in Nat
  /\ MaxReloads \in Nat

VARIABLES
  callStatus, pushProven, pushDegraded, lastOutcome, pushActive, sincePush,
  sinceRing, failures, updateInterval, lastUpdateSuccess,      \* Coordinator
  call, callAge, pressed, pickedUp, cutShort,                  \* DoorStation
  stage,     \* how far async_setup_entry is: "first" refresh, "loaded" (before
             \* the platforms are set up), "ready", "failed" (to be retried)
  timer,     \* ticks until the scheduled refresh, or NoTimer
  reading,   \* the read under way
  up,        \* the device answers its HTTP port
  pushes,    \* events on their way to the webhook, in no order
  reloads,   \* reloads so far
  seenRing,  \* history: the last ring the coordinator took notice of
  rung,      \* history: rung[k] counts the events fired for ring k, up to 2
  verdicts,  \* history: [ring, outcome] of every verdict given
  watch      \* history: watch[k] tells what became of ring k's observer: "up"
             \* when the entry was loaded and the device answered from the press
             \* on, "well" when moreover no failure was being recovered from

coordVars   == <<callStatus, pushProven, pushDegraded, lastOutcome, pushActive,
                 sincePush, sinceRing, failures, updateInterval,
                 lastUpdateSuccess>>
stationVars == <<call, callAge, pressed, pickedUp, cutShort>>
history     == <<seenRing, rung, verdicts, watch>>
vars == <<coordVars, stationVars, stage, timer, reading, up, pushes, reloads,
          history>>

Coord   == INSTANCE Coordinator
Station == INSTANCE DoorStation

Rings      == 1 .. MaxRings
CallStates == {"idle", "ring", "onCall"}
Unknown    == "none"
Garbage    == "garbage"
NoTimer    == -1

Readings == [phase  : {"none", "sent", "answered"},
             status : CallStates \cup {Garbage},
             ring   : 0 .. MaxRings,
             age    : 0 .. ReadTime]
NoReading == [phase |-> "none", status |-> "idle", ring |-> 0, age |-> 0]
Pushes    == [status : CallStates \cup {Unknown}, ring : 0 .. MaxRings]
Verdicts  == [ring : 0 .. MaxRings, outcome : {"answered", "missed"}]

Judged == {v.ring : v \in verdicts}

TypeOK ==
  /\ Coord!TypeOK
  /\ Station!TypeOK
  /\ stage    \in {"first", "loaded", "ready", "failed"}
  /\ timer    \in 0 .. MaxInterval \cup {NoTimer}
  /\ reading  \in Readings
  /\ up       \in BOOLEAN
  /\ pushes   \in SUBSET Pushes
  /\ reloads  \in 0 .. MaxReloads
  /\ seenRing \in 0 .. MaxRings
  /\ rung     \in [Rings -> 0 .. 2]
  /\ verdicts \in SUBSET Verdicts
  /\ watch    \in [Rings -> {"no", "up", "well"}]

Init ==
  /\ Coord!Init
  /\ Station!Init
  /\ stage    = "first"
  /\ timer    = NoTimer
  /\ reading  = NoReading
  /\ up       = TRUE
  /\ pushes   = {}
  /\ reloads  = 0
  /\ seenRing = 0
  /\ rung     = [k \in Rings |-> 0]
  /\ verdicts = {}
  /\ watch    = [k \in Rings |-> "no"]

------------------------------------------------------------------------------
(* History.                                                                *)

\* What the coordinator would need to know at a press to hear it in time.
Watching ==
  IF stage # "ready" \/ ~up THEN "no"
  ELSE IF /\ failures = 0 /\ lastUpdateSuccess /\ reading.status # Garbage
          /\ \/ callStatus = "idle" /\ reading.status = "idle"
             \/ pressed > 0 /\ watch[pressed] = "well"
                /\ cutShort[pressed] = "idle"
  THEN "well" ELSE "up"

\* The ring now under way, or the last one, went unobserved for a while.
Neglect == watch' = [k \in Rings |-> IF k = pressed THEN "no" ELSE watch[k]]

\* The events fired by a ring, heard only once the event entity listens.
AnnounceIf(rings, k) ==
  rung' = IF rings /\ stage = "ready" /\ k \in Rings
            THEN [rung EXCEPT ![k] = IF @ < 2 THEN @ + 1 ELSE 2]
            ELSE rung

------------------------------------------------------------------------------
(* The device and the network.                                             *)

\* The device posts its new state, or says nothing.
Notify(status, k) ==
  \/ UNCHANGED pushes
  \/ /\ PushWired /\ up /\ Cardinality(pushes) < MaxPushes
     /\ pushes' = pushes \cup {[status |-> status, ring |-> k]}

Press ==
  /\ Station!Press
  /\ Notify("ring", pressed + 1)
  /\ watch' = [watch EXCEPT ![pressed + 1] = Watching]
  /\ UNCHANGED <<coordVars, stage, timer, reading, up, reloads, seenRing, rung,
                 verdicts>>

StationMoves ==
  /\ \/ (Station!PickUp \/ Station!GiveUp) /\ Notify("onCall", pressed)
     \/ Station!EndCall /\ Notify("idle", pressed)
  /\ UNCHANGED <<coordVars, stage, timer, reading, up, reloads, history>>

\* An event that carries no call state, such as motion detection.
Motion ==
  /\ PushWired /\ up /\ Cardinality(pushes) < MaxPushes
  /\ pushes' = pushes \cup {[status |-> Unknown, ring |-> 0]}
  /\ UNCHANGED <<coordVars, stationVars, stage, timer, reading, up, reloads,
                 history>>

LosePush(p) ==
  /\ pushes' = pushes \ {p}
  /\ UNCHANGED <<coordVars, stationVars, stage, timer, reading, up, reloads,
                 history>>

\* A button: a call signal, which may do nothing (the device says OK to each of
\* them in any state), or a reboot.  The refresh that follows is StartRefresh.
CallSignal ==
  /\ stage = "ready" /\ up
  /\ \/ Station!PickUp   /\ Notify("onCall", pressed)
     \/ Station!CutShort /\ Notify("idle", pressed)
  /\ UNCHANGED <<coordVars, stage, timer, reading, up, reloads, history>>

Reboot ==
  /\ stage = "ready" /\ up
  /\ up' = FALSE
  /\ Station!CutShort \/ (call = "idle" /\ UNCHANGED stationVars)
  /\ Neglect
  /\ UNCHANGED <<coordVars, stage, timer, reading, pushes, reloads, seenRing, rung,
                 verdicts>>

\* The device's HTTP server hangs, or comes back.
Crash ==
  /\ up /\ up' = FALSE
  /\ Neglect
  /\ UNCHANGED <<coordVars, stationVars, stage, timer, reading, pushes, reloads,
                 seenRing, rung, verdicts>>

Recover ==
  /\ ~up /\ up' = TRUE
  /\ UNCHANGED <<coordVars, stationVars, stage, timer, reading, pushes, reloads,
                 history>>

------------------------------------------------------------------------------
(* A refresh.                                                              *)

Due == timer = 0 \/ (stage = "first" /\ reading.phase = "none")

\* The timer, or an entity through async_request_refresh, starts a read.
\* Setting up the entry starts the first one.
StartRefresh ==
  /\ reading.phase = "none"
  /\ stage \in {"first", "ready"}
  /\ reading' = [NoReading EXCEPT !.phase = "sent"]
  /\ timer'   = NoTimer
  /\ UNCHANGED <<coordVars, stationVars, stage, up, pushes, reloads, history>>

DeviceAnswers ==
  /\ reading.phase = "sent" /\ up
  /\ \/ /\ reading' = [reading EXCEPT !.phase = "answered", !.status = call,
                                      !.ring = pressed]
        /\ UNCHANGED watch
     \/ /\ Garbled
        /\ reading' = [reading EXCEPT !.phase = "answered", !.status = Garbage]
        /\ Neglect
  /\ UNCHANGED <<coordVars, stationVars, stage, timer, up, pushes, reloads,
                 seenRing, rung, verdicts>>

\* _schedule_refresh, after a refresh or a push: nobody listens before the
\* platforms are set up, and a refresh that is already due stays due.
Reschedule ==
  timer' = IF stage # "ready" THEN NoTimer
           ELSE IF timer = 0 THEN 0
           ELSE updateInterval'

\* The first refresh decides whether the entry is set up.
Settle ==
  stage' = IF stage # "first" THEN stage
           ELSE IF lastUpdateSuccess' THEN "loaded" ELSE "failed"

FinishRead ==
  /\ reading.phase = "answered"
  /\ IF reading.status = Garbage
       THEN /\ Coord!ReadUnparsable
            /\ UNCHANGED <<seenRing, rung, verdicts>>
       ELSE /\ Coord!ReadSucceeds(reading.status)
            /\ seenRing' = IF Coord!Diverged(reading.status) THEN reading.ring
                                                            ELSE seenRing
            /\ AnnounceIf(Coord!RingsOnRead(reading.status), reading.ring)
            /\ verdicts' = IF Coord!JudgesOnRead(reading.status)
                             THEN verdicts \cup {[ring    |-> seenRing,
                                                  outcome |-> Coord!Verdict]}
                             ELSE verdicts
  /\ reading' = NoReading
  /\ Settle /\ Reschedule
  /\ UNCHANGED <<stationVars, up, pushes, reloads, watch>>

FailRead ==
  /\ reading.phase = "sent" /\ ~up
  /\ Coord!ReadFails \/ Coord!ReadFailsOverflowing
  /\ reading' = NoReading
  /\ Settle /\ Reschedule
  /\ UNCHANGED <<stationVars, up, pushes, reloads, history>>

------------------------------------------------------------------------------
(* The rest of Home Assistant.                                             *)

\* async_forward_entry_setups: the entities start to listen, and with the
\* first of them the timer runs.
AddEntities ==
  /\ stage = "loaded" /\ stage' = "ready"
  /\ timer' = updateInterval
  /\ UNCHANGED <<coordVars, stationVars, reading, up, pushes, reloads, history>>

\* A new coordinator: the entry is reloaded when its options change, and set up
\* again after ConfigEntryNotReady.  The device must answer the probes for that.
Setup ==
  /\ up
  /\ \/ stage = "failed" /\ UNCHANGED reloads
     \/ stage = "ready" /\ reloads < MaxReloads /\ reloads' = reloads + 1
  /\ Coord!Restart
  /\ stage'    = "first"
  /\ timer'    = NoTimer
  /\ reading'  = NoReading
  /\ watch'    = [k \in Rings |-> "no"]
  /\ UNCHANGED <<stationVars, up, pushes, seenRing, rung, verdicts>>

\* The webhook hands an event to async_handle_push_event.
PushArrives(p) ==
  /\ stage = "ready"
  /\ pushes' = pushes \ {p}
  /\ \/ /\ Coord!PushEvent(p.status)
        /\ AnnounceIf(Coord!RingsOnPush(p.status), p.ring)
        /\ seenRing' = IF Coord!RingsOnPush(p.status) THEN p.ring ELSE seenRing
        /\ Reschedule
     \/ /\ Coord!PushEventOverflowing
        /\ UNCHANGED <<rung, seenRing, timer>>
  /\ UNCHANGED <<stationVars, stage, reading, up, reloads, verdicts, watch>>

\* Time passes, unless something is due that takes no longer to start.
Tick ==
  /\ reading.phase # "none" => reading.age < ReadTime
  /\ reading.phase = "none" => ~Due
  /\ Station!Age
  /\ Coord!Tick
  /\ timer'   = IF timer > 0 THEN timer - 1 ELSE timer
  /\ reading' = IF reading.phase = "none"
                  THEN reading ELSE [reading EXCEPT !.age = @ + 1]
  /\ UNCHANGED <<stage, up, pushes, reloads, history>>

Next ==
  \/ Press \/ StationMoves \/ Motion \/ CallSignal \/ Reboot \/ Crash \/ Recover
  \/ StartRefresh \/ DeviceAnswers \/ FinishRead \/ FailRead
  \/ AddEntities \/ Setup
  \/ \E p \in pushes : LosePush(p) \/ PushArrives(p)
  \/ Tick

Spec == Init /\ [][Next]_vars

\* What the event loop, its timers and the request timeout of the client
\* guarantee: time goes on, a refresh that is due starts, and a read that was
\* sent ends one way or the other.
Fairness ==
  /\ WF_vars(Tick)
  /\ WF_vars(Due /\ StartRefresh)
  /\ WF_vars(DeviceAnswers \/ FailRead)
  /\ WF_vars(FinishRead)
  /\ WF_vars(AddEntities)
  /\ WF_vars(stage = "failed" /\ Setup)
  /\ WF_vars(StationMoves /\ Station!GiveUp)

FairSpec == Spec /\ Fairness

------------------------------------------------------------------------------
(* Properties.                                                             *)

\* "One ring must produce exactly one doorbell event" (TestDoorbellLogic):
\* never two, whatever is sampled, delayed, failed and retried in between.
OneEventPerRing == \A k \in Rings : rung[k] <= 1

\* A ring that was announced has its event "when the call ends, either `answered`
\* or `missed`" (README.md:171) before the next ring is announced: no verdict is
\* skipped, not even over an outage.
JudgedBeforeNext ==
  \A j, k \in Rings : j < k /\ rung[j] > 0 /\ rung[k] > 0 => j \in Judged

\* The longest it takes a change of the device to be processed in good health:
\* it just missed the sample of one read, and the next starts an interval later.
Latency == PollInterval + 2 * ReadTime

\* A ring that goes on longer than that has been announced.
AnnouncedInTime ==
  call = "ring" /\ callAge > Latency /\ watch[pressed] = "well" => rung[pressed] > 0

\* One that lasted longer than that has been announced before it ends, or never
\* will be, with push as without: the watchdog "is what prevents the silent failure
\* mode" (README.md:101), that the doorbell stops working and nobody notices.
NoRingMissed ==
  [][call = "ring" /\ call' # "ring" /\ callAge > Latency /\ watch[pressed] = "well"
       => \/ rung[pressed] > 0
          \/ \E p \in pushes \cup {reading} : p.status = "ring"]_vars

\* A ring that was announced and ended longer ago than that has been judged.
JudgedInTime ==
  pressed > 0 /\ call # "ring" /\ callAge > Latency =>
    (watch[pressed] = "well" /\ rung[pressed] > 0 => pressed \in Judged)

\* A ring that runs out is not taken for an answered one: the stopwatch of the
\* coordinator, which starts and stops late, still tells it from one that was
\* picked up or rejected.
UnansweredIsMissed ==
  \A v \in verdicts :
    watch[v.ring] = "well" /\ v.outcome = "answered" =>
      v.ring \in pickedUp \/ cutShort[v.ring] = "ring"

\* A verdict is given only of a ring that was announced, when the entry was
\* loaded and the device answered at the press.
VerdictsHaveRings ==
  \A v \in verdicts : v.ring > 0 /\ (watch[v.ring] # "no" => rung[v.ring] > 0)

\* Whatever pushes were lost, delayed or reordered, the coordinator ends up
\* with the state the device settles in.
StateConverges ==
  \A status \in {"idle", "onCall"} :
    <>[](up /\ pushes = {} /\ call = status) => <>[](callStatus = status)

\* What the entities promise of the doorbell, over all of the above.
Bell == INSTANCE Doorbell WITH judged <- Judged
KeepsPromise == Bell!Spec

\* A device that stays dead is reported, and not reported alive again.
DeadIsReported == <>[]~up => <>[]~lastUpdateSuccess

\* A device that stays up is read at the interval of the mode again, however
\* long the outage before, unless events keep coming.
RecoversFromOutage ==
  <>[](up /\ pushes = {}) => <>[](/\ lastUpdateSuccess /\ failures = 0
                                 /\ updateInterval = Coord!ModeInterval(pushActive, 0))
==============================================================================
