------------------------------ MODULE MCWorker ------------------------------
(* A small instance of Worker for TLC. *)
EXTENDS Worker

CONSTANTS t1, t2

TwoTasks == {t1, t2}
=============================================================================
