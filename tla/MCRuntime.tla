------------------------------ MODULE MCRuntime ------------------------------
(* Instances of Runtime for TLC. *)
EXTENDS Runtime

CONSTANTS i1, i2

OneDay == {0}
TwoItems == {i1, i2}
OneItem == {i1}

\* A backoff within a clock unit, and a Retry-After after which the pulse is
\* just stale.
ShortAndLong == {0, 2}

\* A Retry-After longer than the pulse may go without a beat.
LongerThanPulse == {0, 3}
=============================================================================
