-------------------------- MODULE CoordinatorProofs --------------------------
(***************************************************************************)
(* Theorems about Coordinator, for all values of its constants: the type   *)
(* invariant, the interval, the demotion flag, the ring stopwatch and, by  *)
(* its history, the availability of the entities.                          *)
(***************************************************************************)
EXTENDS Availability, TLAPS

USE DEF NoRing, AfterSuccess

\* 2**k is an integer, and at least two: all the policy uses of it.
LEMMA PowersGrow ==
  ASSUME NEW k \in 1 .. MaxExponent
  PROVE  2^k \in Int /\ 2^k >= 2
<1>1. 2^k \in Int
  <2>1. k \in Nat
    BY BackoffAssumption
  <2> QED BY <2>1, SMT
<1> QED BY <1>1, DoublingAssumption

\* A product with a factor of at least two is at least the other factor.
LEMMA ProductGrows ==
  ASSUME NEW a \in Nat \ {0}, NEW b \in Int, b >= 2
  PROVE  a * b \in Int /\ a * b >= 1
PROOF BY SMT

\* The stretched interval stays between one tick and the cap, for any base the
\* cap does not cut, wherever it can be computed.
LEMMA IntervalBounds ==
  ASSUME NEW base \in Nat \ {0}, base <= MaxInterval,
         NEW count \in Nat, ~Overflows(count)
  PROVE  Interval(base, count) \in 1 .. MaxInterval
<1> USE BackoffAssumption
<1>1. CASE Excess(count) <= 0
  BY <1>1 DEF Interval
<1>2. CASE Excess(count) > 0
  <2> DEFINE e == Excess(count)
  <2>1. e \in 1 .. MaxExponent
    BY <1>2 DEF Excess, Overflows
  <2>2. 2^e \in Int /\ 2^e >= 2
    BY <2>1, PowersGrow
  <2> HIDE DEF e
  <2>3. base * 2^e \in Int /\ base * 2^e >= 1
    BY <2>2, ProductGrows
  <2>4. Interval(base, count) = Lesser(base * 2^e, Cap(base))
    BY <1>2, <2>1 DEF Interval, e
  <2>5. Cap(base) = MaxInterval
    BY DEF Cap, Greater
  <2> QED BY <2>3, <2>4, <2>5 DEF Lesser
<1> QED BY <1>1, <1>2 DEF Excess

\* Both modes have such a base.
LEMMA ModeIntervalBounds ==
  ASSUME NEW active \in BOOLEAN, NEW count \in Nat, ~Overflows(count)
  PROVE  ModeInterval(active, count) \in 1 .. MaxInterval
<1> DEFINE base == IF active THEN HealthInterval ELSE PollInterval
<1>1. base \in Nat \ {0} /\ base <= MaxInterval
  BY CoordinatorAssumption
<1> HIDE DEF base
<1>2. Interval(base, count) \in 1 .. MaxInterval
  BY <1>1, IntervalBounds
<1> QED BY <1>2 DEF ModeInterval, base

\* The last interval that can be computed is the cap, so that the one kept when
\* the computation fails is the cap as well.
LEMMA LastIntervalIsCap ==
  ASSUME NEW active \in BOOLEAN
  PROVE  ModeInterval(active, Tolerance + MaxExponent) = MaxInterval
<1> DEFINE base == IF active THEN HealthInterval ELSE PollInterval
<1>1. base \in Nat \ {0} /\ base <= MaxInterval
  BY CoordinatorAssumption
<1>2. base * 2^MaxExponent >= MaxInterval
  BY CoordinatorAssumption
<1>3. 2^MaxExponent \in Int
  BY BackoffAssumption, PowersGrow
<1> HIDE DEF base
<1>4. base * 2^MaxExponent \in Int
  BY <1>1, <1>3
<1>5. Excess(Tolerance + MaxExponent) = MaxExponent
  BY BackoffAssumption DEF Excess
<1>6. Interval(base, Tolerance + MaxExponent)
        = Lesser(base * 2^MaxExponent, Cap(base))
  BY <1>5, BackoffAssumption DEF Interval
<1>7. Cap(base) = MaxInterval
  BY <1>1, BackoffAssumption DEF Cap, Greater
<1>8. Lesser(base * 2^MaxExponent, MaxInterval) = MaxInterval
  BY <1>2, <1>4, BackoffAssumption DEF Lesser
<1> QED BY <1>6, <1>7, <1>8 DEF ModeInterval, base

\* No failure, no stretching: the interval of a count that does not overflow.
LEMMA ZeroDoesNotOverflow == ~Overflows(0)
  BY BackoffAssumption DEF Overflows, Excess

------------------------------------------------------------------------------
(* The invariant.                                                          *)

IInv == TypeOK /\ IntervalMatchesMode /\ DemotionIsFlagged /\ RingClockMatches

LEMMA InitEstablishes == Init => IInv
<1> SUFFICES ASSUME Init PROVE IInv
  OBVIOUS
<1>1. ModeInterval(FALSE, 0) \in 1 .. MaxInterval
  BY ModeIntervalBounds, ZeroDoesNotOverflow
<1>2. TypeOK
  <2>1. updateInterval \in 1 .. MaxInterval
    BY <1>1 DEF Init
  <2>2. sincePush \in 0 .. PushTimeout + 1 /\ failures \in 0 .. MaxFailures
    BY CoordinatorAssumption DEF Init
  <2> QED BY <2>1, <2>2 DEF Init, TypeOK, CallStates
<1>3. IntervalMatchesMode
  BY ZeroDoesNotOverflow DEF Init, IntervalMatchesMode
<1>4. DemotionIsFlagged /\ RingClockMatches
  BY DEF Init, DemotionIsFlagged, RingClockMatches
<1> QED BY <1>2, <1>3, <1>4 DEF IInv

LEMMA ReadSucceedsPreserves ==
  ASSUME IInv, NEW status \in CallStates, ReadSucceeds(status)
  PROVE  IInv'
<1>1. pushActive' \in BOOLEAN
  BY DEF ReadSucceeds
<1>2. ModeInterval(pushActive', 0) \in 1 .. MaxInterval
  BY <1>1, ModeIntervalBounds, ZeroDoesNotOverflow
<1>3. TypeOK'
  <2>1. updateInterval' \in 1 .. MaxInterval
    BY <1>2 DEF IInv, TypeOK, ReadSucceeds
  <2>2. sinceRing' \in (0 .. Threshold) \cup {NoRing}
    BY CoordinatorAssumption DEF IInv, TypeOK, ReadSucceeds
  <2>3. lastOutcome' \in Outcomes \cup {Unknown}
    BY DEF IInv, TypeOK, ReadSucceeds, Verdict, Outcomes
  <2>4. callStatus' \in CallStates /\ failures' \in 0 .. MaxFailures
    BY CoordinatorAssumption DEF ReadSucceeds, StatusAfterRead
  <2>5. pushDegraded' \in BOOLEAN /\ lastUpdateSuccess' \in BOOLEAN
    BY DEF ReadSucceeds, Degraded
  <2> QED BY <1>1, <2>1, <2>2, <2>3, <2>4, <2>5 DEF IInv, TypeOK, ReadSucceeds
<1>4. IntervalMatchesMode'
  <2>1. CASE Rescales(status)
    BY <2>1, ZeroDoesNotOverflow DEF IntervalMatchesMode, ReadSucceeds
  <2>2. CASE ~Rescales(status)
    <3>1. failures = 0
      BY <2>2 DEF Rescales, IInv, TypeOK
    <3>2. pushActive' = pushActive
      BY <2>2 DEF Rescales, ReadSucceeds, IInv, TypeOK
    <3>3. updateInterval' = ModeInterval(pushActive, 0)
      BY <2>2, <3>1, ZeroDoesNotOverflow
         DEF IInv, IntervalMatchesMode, ReadSucceeds
    <3> QED BY <3>2, <3>3, ZeroDoesNotOverflow
            DEF IntervalMatchesMode, ReadSucceeds
  <2> QED BY <2>1, <2>2
<1>5. DemotionIsFlagged'
  BY DEF DemotionIsFlagged, ReadSucceeds, Degraded
<1>6. RingClockMatches'
  BY CoordinatorAssumption
     DEF IInv, TypeOK, RingClockMatches, ReadSucceeds, StatusAfterRead, Diverged,
         JudgesOnRead, CallStates
<1> QED BY <1>3, <1>4, <1>5, <1>6 DEF IInv

\* The failure that makes the count overflow finds the interval at the cap.
LEMMA OverflowingFailure ==
  ASSUME IInv, ReadFailsOverflowing
  PROVE  IInv'
<1>1. Overflows(Count) /\ failures' = Count
  BY DEF ReadFailsOverflowing
<1>2. Count \in 0 .. MaxFailures /\ Count <= failures + 1
  BY CoordinatorAssumption DEF IInv, TypeOK, Count, Lesser
<1>3. TypeOK'
  BY <1>1, <1>2 DEF IInv, TypeOK, ReadFailsOverflowing
<1>4. updateInterval = MaxInterval
  <2>1. CASE Overflows(failures)
    BY <2>1 DEF IInv, IntervalMatchesMode
  <2>2. CASE ~Overflows(failures)
    <3>1. failures = Tolerance + MaxExponent
      BY <1>1, <1>2, <2>2, BackoffAssumption DEF Overflows, Excess, IInv, TypeOK
    <3>2. updateInterval = ModeInterval(pushActive, failures)
      BY <2>2 DEF IInv, IntervalMatchesMode
    <3> QED BY <3>1, <3>2, LastIntervalIsCap DEF IInv, TypeOK
  <2> QED BY <2>1, <2>2
<1>5. IntervalMatchesMode'
  BY <1>1, <1>4 DEF IntervalMatchesMode, ReadFailsOverflowing
<1>6. DemotionIsFlagged' /\ RingClockMatches'
  BY DEF IInv, DemotionIsFlagged, RingClockMatches, ReadFailsOverflowing
<1> QED BY <1>3, <1>5, <1>6 DEF IInv

LEMMA FailurePreserves ==
  ASSUME IInv, ReadFails
  PROVE  IInv'
<1>1. /\ ~Overflows(Count) /\ failures' = Count
      /\ updateInterval' = ModeInterval(pushActive, Count)
      /\ lastUpdateSuccess' = Tolerated(Count)
  BY DEF ReadFails
<1>2. Count \in 0 .. MaxFailures
  BY CoordinatorAssumption DEF IInv, TypeOK, Count, Lesser
<1>3. updateInterval' \in 1 .. MaxInterval
  BY <1>1, <1>2, ModeIntervalBounds DEF IInv, TypeOK
<1>4. lastUpdateSuccess' \in BOOLEAN
  BY <1>1 DEF Tolerated
<1>5. TypeOK'
  BY <1>1, <1>2, <1>3, <1>4 DEF IInv, TypeOK, ReadFails
<1>6. pushActive' = pushActive
  BY DEF ReadFails
<1>7. IntervalMatchesMode'
  BY <1>1, <1>6 DEF IntervalMatchesMode
<1>8. DemotionIsFlagged' /\ RingClockMatches'
  BY DEF IInv, DemotionIsFlagged, RingClockMatches, ReadFails
<1> QED BY <1>5, <1>7, <1>8 DEF IInv

LEMMA PushPreserves ==
  ASSUME IInv, NEW status \in CallStates \cup {Unknown}, PushEvent(status)
  PROVE  IInv'
<1>1. TypeOK'
  <2>1. updateInterval' \in 1 .. MaxInterval
    <3>1. CASE pushActive
      BY <3>1 DEF IInv, TypeOK, PushEvent
    <3>2. CASE ~pushActive
      <4>1. failures \in Nat /\ ~Overflows(failures)
        BY <3>2 DEF IInv, TypeOK, PushEvent
      <4>2. ModeInterval(TRUE, failures) \in 1 .. MaxInterval
        BY <4>1, ModeIntervalBounds
      <4> QED BY <3>2, <4>2 DEF PushEvent
    <3> QED BY <3>1, <3>2
  <2>2. callStatus' \in CallStates
    BY DEF IInv, TypeOK, PushEvent, Unknown
  <2>3. sincePush' \in 0 .. PushTimeout + 1
    BY CoordinatorAssumption DEF PushEvent
  <2> QED BY <2>1, <2>2, <2>3 DEF IInv, TypeOK, PushEvent
<1>2. IntervalMatchesMode'
  <2>1. CASE pushActive
    BY <2>1 DEF IInv, TypeOK, IntervalMatchesMode, PushEvent
  <2>2. CASE ~pushActive
    BY <2>2 DEF IInv, TypeOK, IntervalMatchesMode, PushEvent
  <2> QED BY <2>1, <2>2
<1>3. DemotionIsFlagged' /\ RingClockMatches'
  BY DEF DemotionIsFlagged, RingClockMatches, PushEvent
<1> QED BY <1>1, <1>2, <1>3 DEF IInv

LEMMA OverflowingPush ==
  ASSUME IInv, PushEventOverflowing
  PROVE  IInv'
<1>1. TypeOK'
  BY CoordinatorAssumption DEF IInv, TypeOK, PushEventOverflowing
<1>2. IntervalMatchesMode'
  BY DEF IInv, IntervalMatchesMode, PushEventOverflowing
<1>3. DemotionIsFlagged' /\ RingClockMatches'
  BY DEF IInv, DemotionIsFlagged, RingClockMatches, PushEventOverflowing
<1> QED BY <1>1, <1>2, <1>3 DEF IInv

LEMMA TickPreserves ==
  ASSUME IInv, Tick
  PROVE  IInv'
<1>1. sincePush' \in 0 .. PushTimeout + 1
  BY CoordinatorAssumption DEF IInv, TypeOK, Tick, Lesser
<1>2. /\ sinceRing' \in (0 .. Threshold) \cup {NoRing}
      /\ sinceRing' = NoRing <=> sinceRing = NoRing
  BY CoordinatorAssumption DEF IInv, TypeOK, Tick, Lesser
<1>3. TypeOK'
  BY <1>1, <1>2 DEF IInv, TypeOK, Tick
<1>4. IntervalMatchesMode' /\ DemotionIsFlagged'
  BY DEF IInv, IntervalMatchesMode, DemotionIsFlagged, Tick
<1>5. RingClockMatches'
  BY <1>2 DEF IInv, RingClockMatches, Tick
<1> QED BY <1>3, <1>4, <1>5 DEF IInv

LEMMA RestartPreserves ==
  ASSUME Restart
  PROVE  IInv'
<1>1. ModeInterval(FALSE, 0) \in 1 .. MaxInterval
  BY ModeIntervalBounds, ZeroDoesNotOverflow
<1>2. TypeOK'
  <2>1. updateInterval' \in 1 .. MaxInterval
    BY <1>1 DEF Restart
  <2>2. sincePush' \in 0 .. PushTimeout + 1 /\ failures' \in 0 .. MaxFailures
    BY CoordinatorAssumption DEF Restart
  <2> QED BY <2>1, <2>2 DEF Restart, TypeOK, CallStates
<1>3. IntervalMatchesMode'
  BY ZeroDoesNotOverflow DEF Restart, IntervalMatchesMode
<1>4. DemotionIsFlagged' /\ RingClockMatches'
  BY DEF Restart, DemotionIsFlagged, RingClockMatches
<1> QED BY <1>2, <1>3, <1>4 DEF IInv

\* Every handler of the coordinator, at any moment, preserves the invariant.
LEMMA StepPreserves == IInv /\ [Next]_vars => IInv'
<1> SUFFICES ASSUME IInv, [Next]_vars PROVE IInv'
  OBVIOUS
<1>1. CASE \E status \in CallStates : ReadSucceeds(status)
  BY <1>1, ReadSucceedsPreserves
<1>2. CASE ReadFails
  BY <1>2, FailurePreserves
<1>3. CASE ReadFailsOverflowing
  BY <1>3, OverflowingFailure
<1>4. CASE ReadUnparsable
  <2>1. TypeOK'
    BY <1>4 DEF IInv, TypeOK, ReadUnparsable
  <2> QED BY <1>4, <2>1 DEF IInv, IntervalMatchesMode, DemotionIsFlagged,
                            RingClockMatches, ReadUnparsable
<1>5. CASE \E status \in CallStates \cup {Unknown} : PushEvent(status)
  BY <1>5, PushPreserves
<1>6. CASE PushEventOverflowing
  BY <1>6, OverflowingPush
<1>7. CASE Tick
  BY <1>7, TickPreserves
<1>8. CASE Restart
  BY <1>8, RestartPreserves
<1>9. CASE UNCHANGED vars
  <2>1. TypeOK'
    BY <1>9 DEF IInv, TypeOK, vars
  <2> QED BY <1>9, <2>1 DEF IInv, IntervalMatchesMode, DemotionIsFlagged,
                            RingClockMatches, vars
<1> QED BY <1>1, <1>2, <1>3, <1>4, <1>5, <1>6, <1>7, <1>8, <1>9 DEF Next

LEMMA Invariance == Spec => []IInv
<1> QED BY InitEstablishes, StepPreserves, PTL DEF Spec

------------------------------------------------------------------------------
(* The theorems.                                                           *)

\* Type correctness.
THEOREM TypeCorrect == Spec => []TypeOK
<1>1. IInv => TypeOK
  BY DEF IInv
<1> QED BY <1>1, Invariance, PTL

\* The stored interval is always the one the mode and the failures call for.
THEOREM IntervalIsRight == Spec => []IntervalMatchesMode
<1>1. IInv => IntervalMatchesMode
  BY DEF IInv
<1> QED BY <1>1, Invariance, PTL

\* A push channel that was given up is always flagged.
THEOREM DemotionAlwaysFlagged == Spec => []DemotionIsFlagged
<1>1. IInv => DemotionIsFlagged
  BY DEF IInv
<1> QED BY <1>1, Invariance, PTL

\* The stopwatch runs exactly during a known ring, while there are no pushes.
THEOREM RingClockIsRight == Spec => []RingClockMatches
<1>1. IInv => RingClockMatches
  BY DEF IInv
<1> QED BY <1>1, Invariance, PTL

------------------------------------------------------------------------------
(* Availability, judged by the history.                                    *)

\* The history is only looked on: it takes no step of the coordinator away and
\* adds none.
LEMMA HistoryOnlyWatches == HistorySpec => Spec
<1>1. HistoryInit => Init
  BY DEF HistoryInit
<1>2. [HistoryNext]_<<vars, history>> => [Next]_vars
  <2>1. HistoryNext => Next
    BY DEF HistoryNext, Next
  <2> QED BY <2>1
<1> QED BY <1>1, <1>2, PTL DEF HistorySpec, Spec

\* The counter of the code is the number of reads that failed since the last
\* that succeeded, as far as the tolerance tells them apart: it starts at
\* nothing, every failure adds to it and every success resets it.
CounterIsRight == failed = Lesser(failures, Tolerance + 1)

HInv == HistoryOK /\ CounterIsRight /\ AvailabilityMatchesReads

LEMMA HistoryInitEstablishes == HistoryInit => HInv
BY BackoffAssumption
   DEF HistoryInit, Init, Fresh, HInv, HistoryOK, CounterIsRight, Lesser,
       AvailabilityMatchesReads

\* One more failure, on both counts.
LEMMA FailureCounts ==
  ASSUME TypeOK, HInv
  PROVE  /\ OneMore(failed) \in 0 .. Tolerance + 1
         /\ OneMore(failed) = Lesser(Count, Tolerance + 1)
         /\ OneMore(failed) <= Tolerance <=> Count <= Tolerance
BY BackoffAssumption, CoordinatorAssumption
   DEF TypeOK, HInv, HistoryOK, CounterIsRight, Lesser, OneMore, Count

LEMMA HistoryStepPreserves ==
  TypeOK /\ HInv /\ [HistoryNext]_<<vars, history>> => HInv'
<1> SUFFICES ASSUME TypeOK, HInv, [HistoryNext]_<<vars, history>> PROVE HInv'
  OBVIOUS
<1> USE DEF HInv, HistoryOK, CounterIsRight, AvailabilityMatchesReads, Takes
<1>1. CASE \/ (\E status \in CallStates : ReadSucceeds(status)) /\ Takes("data", 0)
           \/ Restart /\ Takes("data", 0)
  <2>1. failures' = 0 /\ lastUpdateSuccess' /\ Takes("data", 0)
    BY <1>1 DEF ReadSucceeds, Restart
  <2>2. Lesser(0, Tolerance + 1) = 0 /\ 0 \in 0 .. Tolerance + 1
    BY BackoffAssumption DEF Lesser
  <2> QED BY <2>1, <2>2
<1>2. CASE ReadFails /\ Takes("failure", OneMore(failed))
  <2>1. failures' = Count /\ (lastUpdateSuccess' <=> Count <= Tolerance)
    BY <1>2 DEF ReadFails, Tolerated
  <2> QED BY <1>2, <2>1, FailureCounts
<1>3. CASE ReadFailsOverflowing /\ Takes("failure", OneMore(failed))
  <2>1. failures' = Count /\ ~lastUpdateSuccess' /\ Count - Tolerance > MaxExponent
    BY <1>3 DEF ReadFailsOverflowing, Overflows, Excess
  <2>2. ~(Count <= Tolerance)
    BY <2>1, BackoffAssumption, CoordinatorAssumption DEF TypeOK, Count, Lesser
  <2> QED BY <1>3, <2>1, <2>2, FailureCounts
<1>4. CASE ReadUnparsable /\ Takes("garbage", failed)
  BY <1>4 DEF ReadUnparsable
<1>5. CASE /\ \E status \in CallStates \cup {Unknown} : PushEvent(status)
           /\ Takes("data", failed)
  BY <1>5 DEF PushEvent
<1>6. CASE (PushEventOverflowing \/ Tick) /\ UNCHANGED history
  BY <1>6 DEF PushEventOverflowing, Tick, history
<1>7. CASE UNCHANGED <<vars, history>>
  BY <1>7 DEF vars, history
<1> QED BY <1>1, <1>2, <1>3, <1>4, <1>5, <1>6, <1>7 DEF HistoryNext

\* The entities are available exactly when the reads since the last success say
\* so, whatever bad answers and pushes come between them.
THEOREM AvailabilityIsRight == HistorySpec => []AvailabilityMatchesReads
<1>1. HistorySpec => []TypeOK
  BY HistoryOnlyWatches, TypeCorrect, PTL
<1>2. HistorySpec => []HInv
  BY <1>1, HistoryInitEstablishes, HistoryStepPreserves, PTL DEF HistorySpec
<1>3. HInv => AvailabilityMatchesReads
  BY DEF HInv
<1> QED BY <1>2, <1>3, PTL
==============================================================================
