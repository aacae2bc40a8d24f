--------------------------- MODULE MCNotification ---------------------------
(* Instances of Notification for TLC. *)
EXTENDS Notification, TLC

CONSTANTS i1, i2

OneDay == {0}
TwoDays == {0, 1}
TwoItems == {i1, i2}
OneItem == {i1}

\* A backoff within a clock unit, one across units, and a Retry-After that
\* may reach past the cutoff.
ShortAndLong == {0, 2}

Symmetry == Permutations(TwoItems)
=============================================================================
