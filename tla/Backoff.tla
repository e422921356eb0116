------------------------------- MODULE Backoff -------------------------------
(***************************************************************************)
(* FailureBackoff (backoff.py): the policy that turns a run of failed      *)
(* callStatus reads into a poll interval.  The counter itself is kept by   *)
(* the coordinator; the operators here are the three methods, as functions *)
(* of that counter.                                                        *)
(***************************************************************************)
EXTENDS Integers

CONSTANTS
  Tolerance,    \* failures absorbed before the outage is reported
  MaxInterval,  \* cap of a stretched interval
  MaxExponent   \* largest k for which base * 2**k can be computed: base is a
                \* float, so 2**k is converted to one (1023 on a double)

ASSUME BackoffAssumption ==
  /\ Tolerance   \in Nat
  /\ MaxInterval \in Nat \ {0}
  /\ MaxExponent \in Nat \ {0}

\* True of every power of two; stated because no prover here knows it.
ASSUME DoublingAssumption == \A k \in 1 .. MaxExponent : 2^k >= 2

Lesser(a, b)  == IF a <= b THEN a ELSE b
Greater(a, b) == IF a >= b THEN a ELSE b

\* The counter that record_success leaves.
AfterSuccess_Kept(failures) == failures
AfterSuccess(failures) == 0

\* The result of record_failure once the counter has become `failures'.
Tolerated_OffByOne(failures) == failures < Tolerance
Tolerated(failures) == failures <= Tolerance

Excess(failures) == failures - Tolerance

\* 2**excess no longer fits a float: interval() raises OverflowError.
Overflows(failures) == Excess(failures) > MaxExponent

\* The cap never drops below the base.
Cap(base) == Greater(MaxInterval, base)

\* interval(), where it returns.
Interval_Uncapped(base, failures) ==
  IF failures <= Tolerance THEN base ELSE base * 2^Excess(failures)
Interval(base, failures) ==
  IF Excess(failures) <= 0 THEN base
                           ELSE Lesser(base * 2^Excess(failures), Cap(base))
==============================================================================
