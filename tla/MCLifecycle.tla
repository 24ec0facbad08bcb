----------------------------- MODULE MCLifecycle -----------------------------
(* Small instances of Lifecycle for TLC. *)
EXTENDS Lifecycle

CONSTANTS p1, p2, s1, s2, w1

TwoStarts == {p1, p2}
TwoStops  == {s1, s2}
OneWait   == {w1}
=============================================================================
