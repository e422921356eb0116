---------------------------- MODULE Availability ----------------------------
(***************************************************************************)
(* Coordinator with the history its availability is judged by: what the    *)
(* reads came to since the last one that succeeded.  It is kept apart from *)
(* the counter of the code, which push events and bad answers pass by.     *)
(***************************************************************************)
EXTENDS Coordinator

VARIABLES
  failed,  \* reads that failed since the last that succeeded, up to Tolerance + 1
  news     \* what came last: "data" (an answer, a push or a new start),
           \* "failure" or "garbage"

history == <<failed, news>>

OneMore(n) == Lesser(n + 1, Tolerance + 1)

HistoryOK ==
  /\ failed \in 0 .. Tolerance + 1
  /\ news   \in {"data", "failure", "garbage"}

Fresh == failed = 0 /\ news = "data"

Takes(what, count) == failed' = count /\ news' = what

HistoryInit == Init /\ Fresh

HistoryNext ==
  \/ (\E status \in CallStates : ReadSucceeds(status)) /\ Takes("data", 0)
  \/ Restart /\ Takes("data", 0)
  \/ (ReadFails \/ ReadFailsOverflowing) /\ Takes("failure", OneMore(failed))
  \/ ReadUnparsable /\ Takes("garbage", failed)
  \/ /\ \E status \in CallStates \cup {Unknown} : PushEvent(status)
     /\ Takes("data", failed)
  \/ (PushEventOverflowing \/ Tick) /\ UNCHANGED history

HistorySpec == HistoryInit /\ [][HistoryNext]_<<vars, history>>

------------------------------------------------------------------------------
(* Properties.                                                             *)

\* The entities are available exactly when they should be: the last thing heard
\* was an answer or a push, or else a failure and no more than Tolerance reads
\* have failed since the last that succeeded (const.py:22).  An answer that does
\* not parse makes them unavailable at once, and the next tolerated failure
\* available again.
AvailabilityMatchesReads ==
  lastUpdateSuccess <=> news = "data" \/ (news = "failure" /\ failed <= Tolerance)
=============================================================================
