----------------------------- MODULE MCReadiness -----------------------------
(* Instances of Readiness for TLC. *)
EXTENDS Readiness

CONSTANTS p1, p2

TwoProbes == {p1, p2}
TwoChecks == {"database", "redis"}
=============================================================================
