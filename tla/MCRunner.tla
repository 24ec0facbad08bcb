------------------------------ MODULE MCRunner ------------------------------
(* Small instances of Runner for TLC. *)
EXTENDS Runner

AllButLast == 1..(N - 1)
=============================================================================
