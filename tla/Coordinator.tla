----------------------------- MODULE Coordinator -----------------------------
(***************************************************************************)
(* HikvisionIntercomCoordinator (coordinator.py).                          *)
(*                                                                         *)
(* Every handler of the coordinator runs from one await to the next without*)
(* a pause, so each is one action here: what the callStatus read does once *)
(* its answer is in, what it does when it fails, and the push callback.    *)
(* This module puts no condition on the order, the timing or the content   *)
(* of reads and pushes; Intercom composes it with the door station, the    *)
(* network and Home Assistant's scheduler.                                 *)
(*                                                                         *)
(* A time.monotonic() stamp is kept as its age in ticks, which saturates   *)
(* just past the only value it is ever compared with.                      *)
(***************************************************************************)
EXTENDS Backoff

CONSTANTS
  PollInterval,    \* DEFAULT_POLL_INTERVAL
  HealthInterval,  \* HEALTHCHECK_INTERVAL
  PushTimeout,     \* PUSH_WATCHDOG_TIMEOUT
  Threshold,       \* the answered_ring_threshold option
  MaxFailures      \* where the failure counter of the model saturates

\* HealthInterval <= MaxInterval and the last computable doubling reaching the
\* cap hold of the values in const.py (1, 30 and 60 seconds, 2**1023).
ASSUME CoordinatorAssumption ==
  /\ PollInterval   \in Nat \ {0}
  /\ HealthInterval \in Nat \ {0}
  /\ PushTimeout    \in Nat
  /\ Threshold      \in Nat
  /\ PollInterval <= MaxInterval /\ HealthInterval <= MaxInterval
  /\ MaxFailures \in Nat
  /\ MaxFailures > Tolerance + MaxExponent
  /\ PollInterval * 2^MaxExponent >= MaxInterval
  /\ HealthInterval * 2^MaxExponent >= MaxInterval

VARIABLES
  callStatus,        \* data.call_status
  pushProven,        \* data.push_proven
  pushDegraded,      \* data.push_degraded
  lastOutcome,       \* data.last_call_answered
  pushActive,        \* _push_active
  sincePush,         \* age of _last_push
  sinceRing,         \* age of _ring_started_at, or NoRing for None
  failures,          \* _backoff.failures
  updateInterval,    \* update_interval, in ticks
  lastUpdateSuccess  \* last_update_success of the DataUpdateCoordinator

vars == <<callStatus, pushProven, pushDegraded, lastOutcome, pushActive,
          sincePush, sinceRing, failures, updateInterval, lastUpdateSuccess>>

CallStates == {"idle", "ring", "onCall"}
Outcomes   == {"answered", "missed"}
Unknown    == "none"   \* a push without call_status; no outcome yet
NoRing     == -1

TypeOK ==
  /\ callStatus        \in CallStates
  /\ pushProven        \in BOOLEAN
  /\ pushDegraded      \in BOOLEAN
  /\ lastOutcome       \in Outcomes \cup {Unknown}
  /\ pushActive        \in BOOLEAN
  /\ sincePush         \in 0 .. PushTimeout + 1
  /\ sinceRing         \in (0 .. Threshold) \cup {NoRing}
  /\ failures          \in 0 .. MaxFailures
  /\ updateInterval    \in 1 .. MaxInterval
  /\ lastUpdateSuccess \in BOOLEAN

------------------------------------------------------------------------------
(* The poll interval.                                                      *)

\* _interval_for_mode
ModeInterval(active, count) ==
  Interval(IF active THEN HealthInterval ELSE PollInterval, count)

\* The failure count after one more.
Count_TolerableOnly == Lesser(failures + 1, Tolerance)
Count == Lesser(failures + 1, MaxFailures)

------------------------------------------------------------------------------
(* What the handler of a successful read decides, in terms of the state    *)
(* it finds when the answer arrives.                                       *)

\* A ring the coordinator does not know of.
Diverged_EveryRead(status) == status = "ring"
Diverged(status) == status = "ring" /\ callStatus # "ring"

Silent == sincePush > PushTimeout

\* _check_push_watchdog calls _downgrade_to_polling
Demotes(status) ==
  pushActive /\ (Diverged(status) \/ (Silent /\ status # "idle"))

\* The interval is computed anew: a run of failures is over, or push is.
Rescales_NotOnRecovery(status) == Demotes(status)
Rescales_NotOnDemotion(status) == failures > 0
Rescales(status) == failures > 0 \/ Demotes(status)

\* push_degraded, from the mode the read leaves the coordinator in.
Degraded_StaleMode(active) == pushProven /\ ~pushActive
Degraded(active) == pushProven /\ ~active

\* The state a read leaves behind: what the device said, whatever the mode.
StatusAfterRead_PushTrusted(status) ==
  IF pushActive /\ ~Demotes(status) THEN callStatus ELSE status
StatusAfterRead(status) == status

\* _async_update_data calls _fire_ring
RingsOnRead_FallingEdge(status) == callStatus = "ring" /\ status # "ring"
RingsOnRead_NotOnRecovery(status) == failures = 0 /\ Diverged(status)
RingsOnRead(status) == ~(pushActive /\ ~Demotes(status)) /\ Diverged(status)

\* _track_call_outcome judges the ring that just ended.
JudgesOnRead_OnCallOnly(status) ==
  callStatus = "ring" /\ status = "onCall" /\ sinceRing # NoRing
JudgesOnRead_IdleOnly(status) ==
  callStatus # "idle" /\ status = "idle" /\ sinceRing # NoRing
JudgesOnRead(status) ==
  callStatus = "ring" /\ status # "ring" /\ sinceRing # NoRing

Verdict_OffByOne == IF sinceRing <= Threshold THEN "answered" ELSE "missed"
Verdict == IF sinceRing < Threshold THEN "answered" ELSE "missed"

\* async_handle_push_event calls _fire_ring
RingsOnPush(status) == status = "ring" /\ callStatus # "ring"

------------------------------------------------------------------------------
Init ==
  /\ callStatus        = "idle"
  /\ pushProven        = FALSE
  /\ pushDegraded      = FALSE
  /\ lastOutcome       = Unknown
  /\ pushActive        = FALSE
  /\ sincePush         = 0
  /\ sinceRing         = NoRing
  /\ failures          = 0
  /\ updateInterval    = ModeInterval(FALSE, 0)
  /\ lastUpdateSuccess = TRUE

\* _async_update_data, the read returned `status'.
ReadSucceeds(status) ==
  /\ failures' = AfterSuccess(failures)
  /\ pushActive' = (pushActive /\ ~Demotes(status))
  /\ updateInterval' = IF Rescales(status) THEN ModeInterval(pushActive', failures')
                                          ELSE updateInterval
  /\ callStatus' = StatusAfterRead(status)
  /\ pushDegraded' = Degraded(pushActive')
  /\ sinceRing' = IF Diverged(status) THEN 0
                  ELSE IF JudgesOnRead(status) THEN NoRing
                  ELSE sinceRing
  /\ lastOutcome' = IF JudgesOnRead(status) THEN Verdict ELSE lastOutcome
  /\ lastUpdateSuccess' = TRUE
  /\ UNCHANGED <<pushProven, sincePush>>

\* _handle_read_failure: an IsapiError.  A tolerated failure returns the old
\* data, which Home Assistant takes for a successful update.
ReadFails ==
  /\ ~Overflows(Count)
  /\ failures' = Count
  /\ updateInterval' = ModeInterval(pushActive, Count)
  /\ lastUpdateSuccess' = Tolerated(Count)
  /\ UNCHANGED <<callStatus, pushProven, pushDegraded, lastOutcome, pushActive,
                 sincePush, sinceRing>>

\* The same, when interval() raises: the count is kept, the interval is not
\* updated, and Home Assistant logs an unexpected error.
ReadFailsOverflowing ==
  /\ Overflows(Count)
  /\ failures' = Count
  /\ lastUpdateSuccess' = FALSE
  /\ UNCHANGED <<callStatus, pushProven, pushDegraded, lastOutcome, pushActive,
                 sincePush, sinceRing, updateInterval>>

\* The read raised what _async_update_data does not catch: ParseError is not
\* an IsapiError, and parse_call_status trips over an unexpected shape.
ReadUnparsable ==
  /\ lastUpdateSuccess' = FALSE
  /\ UNCHANGED <<callStatus, pushProven, pushDegraded, lastOutcome, pushActive,
                 sincePush, sinceRing, failures, updateInterval>>

\* async_handle_push_event
PushEvent(status) ==
  /\ pushActive \/ ~Overflows(failures)
  /\ sincePush' = 0
  /\ pushActive' = TRUE
  /\ updateInterval' = IF pushActive THEN updateInterval
                                     ELSE ModeInterval(TRUE, failures)
  /\ callStatus' = IF status = Unknown THEN callStatus ELSE status
  /\ pushProven' = TRUE
  /\ pushDegraded' = FALSE
  /\ lastUpdateSuccess' = TRUE
  /\ UNCHANGED <<lastOutcome, sinceRing, failures>>

\* The same, when interval() raises after _push_active was set.
PushEventOverflowing ==
  /\ ~pushActive /\ Overflows(failures)
  /\ sincePush' = 0
  /\ pushActive' = TRUE
  /\ UNCHANGED <<callStatus, pushProven, pushDegraded, lastOutcome, sinceRing,
                 failures, updateInterval, lastUpdateSuccess>>

\* One tick of time.monotonic().
Tick ==
  /\ sincePush' = Lesser(sincePush + 1, PushTimeout + 1)
  /\ sinceRing' = IF sinceRing = NoRing THEN NoRing
                                        ELSE Lesser(sinceRing + 1, Threshold)
  /\ UNCHANGED <<callStatus, pushProven, pushDegraded, lastOutcome, pushActive,
                 failures, updateInterval, lastUpdateSuccess>>

\* The entry is reloaded: async_setup_entry builds a new coordinator.
Restart ==
  /\ callStatus'        = "idle"
  /\ pushProven'        = FALSE
  /\ pushDegraded'      = FALSE
  /\ lastOutcome'       = Unknown
  /\ pushActive'        = FALSE
  /\ sincePush'         = 0
  /\ sinceRing'         = NoRing
  /\ failures'          = 0
  /\ updateInterval'    = ModeInterval(FALSE, 0)
  /\ lastUpdateSuccess' = TRUE

Next ==
  \/ \E status \in CallStates : ReadSucceeds(status)
  \/ ReadFails
  \/ ReadFailsOverflowing
  \/ ReadUnparsable
  \/ \E status \in CallStates \cup {Unknown} : PushEvent(status)
  \/ PushEventOverflowing
  \/ Tick
  \/ Restart

Spec == Init /\ [][Next]_vars

------------------------------------------------------------------------------
(* Properties.                                                             *)

\* The interval the next refresh is scheduled with is the one the current
\* mode and failure count call for, although it is stored by five handlers
\* and recomputed only where each of them believes it changed.
IntervalMatchesMode ==
  updateInterval = IF Overflows(failures) THEN MaxInterval
                                          ELSE ModeInterval(pushActive, failures)

\* A push channel that once delivered and has been given up is always flagged
\* by the diagnostic sensor, whichever reads, failures and pushes came since.
DemotionIsFlagged == pushProven /\ ~pushActive => pushDegraded

\* As long as no push has changed the state, the ring stopwatch runs exactly
\* while the coordinator believes the bell is ringing.
RingClockMatches ==
  ~pushProven => (callStatus = "ring" <=> sinceRing # NoRing)
==============================================================================
