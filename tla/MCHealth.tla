------------------------------ MODULE MCHealth ------------------------------
(* Small instances of Health for TLC. *)
EXTENDS Health

CONSTANTS p1, p2, c1

TwoProbes   == {p1, p2}
OneCheck    == {c1}
=============================================================================
