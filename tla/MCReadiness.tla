---------------------------- MODULE MCReadiness ----------------------------
(* Values of the constants of Readiness for TLC: two probes are enough for *)
(* one to wait behind the other's call and to meet its outcome.            *)
EXTENDS Readiness, TLC

CONSTANTS p1, p2

TwoProbes == {p1, p2}
=============================================================================
