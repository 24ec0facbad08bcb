------------------------------- MODULE MCApp -------------------------------
(* A small instance of App for TLC. *)
EXTENDS App

CONSTANTS q1, q2

TwoRequests == {q1, q2}

\* The database retries; the cache keeps the default of a single attempt.
DbRetries == [db |-> 4, cache |-> 0]
=============================================================================
