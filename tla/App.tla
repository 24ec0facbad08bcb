--------------------------------- MODULE App ---------------------------------
(***************************************************************************)
(* A program that core.ApplicationRunner runs with a PostgresDB, a         *)
(* RedisCache and an HTTPServer in that order, as examples/orders/main.go  *)
(* does: the services start concurrently, requests use the backends while  *)
(* they connect, run and stop, and the services are stopped in reverse.    *)
(*                                                                         *)
(* Lifecycle and Runner have modules of their own; this one is about what  *)
(* the resources meet.  Stop of each service is its stop closure, since    *)
(* every Start has returned before the first Stop (eg.Wait).               *)
(***************************************************************************)
EXTENDS Connect, FiniteSets

CONSTANT Requests   \* the HTTP requests, each served once

VARIABLES signalled,   \* the context of Run is done: SIGINT, SIGTERM or the caller
          failed,      \* a Start returned an error, which ends the group's context
          server,      \* the HTTPServer's Start: starting, serving or failed
          accepting,   \* net/http serves the listener
          phase,       \* run, then the steps of the shutdown, then exited
          serverStop,  \* what HTTPServer.Stop returned: pending, nil or error
          rpc          \* where each request is, or how it was answered

appVars == <<signalled, failed, server, accepting, phase, serverStop>>
vars == <<connectVars, appVars, rpc>>

Init ==
  /\ ConnectInit
  /\ signalled = FALSE /\ failed = FALSE
  /\ server = "starting" /\ accepting = FALSE
  /\ phase = "run" /\ serverStop = "pending"
  /\ rpc = [q \in Requests |-> "new"]

\* The context that the runner's errgroup hands to every Start.
GroupDone == signalled \/ failed

-----------------------------------------------------------------------------
(* Starting *)

Cancel ==
  /\ phase = "run" /\ ~signalled
  /\ signalled' = TRUE
  /\ UNCHANGED <<connectVars, failed, server, accepting, phase, serverStop, rpc>>

\* A backend's Connect takes a step; giving up ends the group.
Connects(b) ==
  /\ phase = "run"
  /\ ConnectStep(b, GroupDone)
  /\ failed' = (failed \/ cpc'[b] = "failed")
  /\ UNCHANGED <<signalled, server, accepting, phase, serverStop, rpc>>

\* Listen, then Serve in a goroutine of its own.
Listen ==
  /\ phase = "run" /\ server = "starting"
  /\ \/ server' = "serving" /\ accepting' = TRUE /\ UNCHANGED failed
     \/ server' = "failed" /\ failed' = TRUE /\ UNCHANGED accepting
  /\ UNCHANGED <<connectVars, signalled, phase, serverStop, rpc>>

\* Serve returns an error, which is only logged: the server stays "ready".
ServeFails ==
  /\ phase # "exited" /\ accepting
  /\ accepting' = FALSE
  /\ UNCHANGED <<connectVars, signalled, failed, server, phase, serverStop, rpc>>

-----------------------------------------------------------------------------
(* Requests *)

Active == {q \in Requests : rpc[q] \in {"cacheGet", "db", "conn", "cacheSet"}}
Proceeds(q, to) == rpc' = [rpc EXCEPT ![q] = to] /\ UNCHANGED <<connectVars, appVars>>

\* GetProduct begins with the cache, CreateOrder with the transaction.
Arrives(q) ==
  /\ phase # "exited" /\ accepting /\ rpc[q] = "new"
  /\ \E first \in {"cacheGet", "db"} : Proceeds(q, first)

\* RedisCache has no readiness gate: on a nil client the call panics, and the
\* router's RecoverPanics answers 500.  An error of the cache is logged.
CacheCall(q) ==
  /\ phase # "exited" /\ rpc[q] \in {"cacheGet", "cacheSet"}
  /\ \/ handle["cache"] = "nil" /\ Proceeds(q, "panicked")
     \/ handle["cache"] # "nil" /\ rpc[q] = "cacheGet" /\ Proceeds(q, "db")
     \/ handle["cache"] = "open" /\ rpc[q] = "cacheGet" /\ Proceeds(q, "answered")
     \/ handle["cache"] # "nil" /\ rpc[q] = "cacheSet" /\ Proceeds(q, "answered")

\* Fault: the pool is used without waiting for the Ready channel.
NoGate == TRUE

\* readyQuerier.wait and WithTx: core.WaitReady on the pool's Ready channel.
PassesGate == ready["db"]

\* Begin or a query takes a connection, unless the pool is gone.
DbAnswer == [nil |-> "nilPool", open |-> "conn",
             closing |-> "closedPool", closed |-> "closedPool"]

DbCall(q) ==
  /\ phase # "exited" /\ rpc[q] = "db" /\ PassesGate
  /\ Proceeds(q, DbAnswer[handle["db"]])

\* The transaction or the rows are done and the connection goes back.
DbDone(q) ==
  /\ phase # "exited" /\ rpc[q] = "conn"
  /\ \E next \in {"cacheSet", "answered"} : Proceeds(q, next)

\* The router's Timeout ends the request's context, and so the wait at the gate.
GateTimesOut(q) ==
  /\ phase # "exited" /\ rpc[q] = "db" /\ ~PassesGate
  /\ Proceeds(q, "answered")

-----------------------------------------------------------------------------
(* Stopping: the server, then the cache, then the database *)

\* Fault: the shutdown waits for every service to have been ready.
EveryServiceReady == GroupDone /\ server # "starting" /\ \A b \in Backends : ready[b]

\* eg.Wait: every Start has returned.
StartsReturned ==
  /\ GroupDone
  /\ server # "starting"
  /\ \A b \in Backends : cpc[b] \in {"failed", "cancelled"} \/ ready[b]

\* Fault: the runner goes through the services in order, so the database
\* is stopped while the server still serves.
StopDbFirst ==
  /\ phase = "run" /\ StartsReturned /\ handle["db"] = "open"
  /\ handle' = [handle EXCEPT !["db"] = "closing"]
  /\ phase' = "closingPool"
  /\ UNCHANGED <<cpc, attempt, delay, waited, live, ready, signalled, failed, server, accepting, serverStop, rpc>>

\* Shutdown closes the listener first.  A server that never listened has no
\* stop closure and its Stop returns nil.
StopServer ==
  /\ phase = "run" /\ StartsReturned
  /\ accepting' = FALSE
  /\ \/ server = "serving" /\ phase' = "draining" /\ UNCHANGED serverStop
     \/ server = "failed" /\ phase' = "stopCache" /\ serverStop' = "nil"
  /\ UNCHANGED <<connectVars, signalled, failed, server, rpc>>

\* Then it waits for the requests, or for its context: the runner derives it
\* from the context of Run, so after a signal it is done already.
Drains ==
  /\ phase = "draining"
  /\ \/ Active = {} /\ serverStop' = "nil"
     \/ Active # {} /\ serverStop' = "error"
  /\ phase' = "stopCache"
  /\ UNCHANGED <<connectVars, signalled, failed, server, accepting, rpc>>

StopCache ==
  /\ phase = "stopCache"
  /\ \/ handle["cache"] = "nil" /\ UNCHANGED <<handle, live>>
     \/ /\ handle["cache"] = "open"
        /\ handle' = [handle EXCEPT !["cache"] = "closed"]
        /\ live' = [live EXCEPT !["cache"] = @ - 1]
  /\ phase' = "stopDb"
  /\ UNCHANGED <<cpc, attempt, delay, waited, ready, signalled, failed, server, accepting, serverStop, rpc>>

\* pgxpool.Close turns new callers away at once ...
StopDb ==
  /\ phase = "stopDb"
  /\ \/ handle["db"] = "nil" /\ phase' = "exited" /\ UNCHANGED handle
     \/ /\ handle["db"] = "open"
        /\ handle' = [handle EXCEPT !["db"] = "closing"]
        /\ phase' = "closingPool"
  /\ UNCHANGED <<cpc, attempt, delay, waited, live, ready, signalled, failed, server, accepting, serverStop, rpc>>

\* ... and waits for every connection, whatever its context says.
PoolClosed ==
  /\ phase = "closingPool" /\ \A q \in Requests : rpc[q] # "conn"
  /\ handle' = [handle EXCEPT !["db"] = "closed"]
  /\ live' = [live EXCEPT !["db"] = @ - 1]
  /\ phase' = "exited"
  /\ UNCHANGED <<cpc, attempt, delay, waited, ready, signalled, failed, server, accepting, serverStop, rpc>>

-----------------------------------------------------------------------------
Serve(q) == CacheCall(q) \/ DbCall(q) \/ DbDone(q) \/ GateTimesOut(q)
Stopping == StopServer \/ Drains \/ StopCache \/ StopDb \/ PoolClosed

Next ==
  \/ Cancel \/ Listen \/ ServeFails \/ Stopping
  \/ \E b \in Backends : Connects(b)
  \/ \E q \in Requests : Arrives(q) \/ Serve(q)

Spec == Init /\ [][Next]_vars

\* Goroutines that can go on do; signals, failures of Serve and new requests
\* need not come.
FairSpec ==
  /\ Spec
  /\ WF_vars(Listen) /\ WF_vars(Stopping)
  /\ \A b \in Backends : WF_vars(Connects(b))
  /\ \A q \in Requests : WF_vars(Serve(q))

-----------------------------------------------------------------------------
\* ADR-0003: the gates keep callers from the pool until it is stored, so "database
\* pool is not initialized" is never the answer to a request.
GateHolds == \A q \in Requests : rpc[q] # "nilPool"

\* Services stop in reverse order, so a request finds the pool closed only if
\* HTTPServer.Stop has reported that it left requests behind.
ClosedOnlyIfReported ==
  \A q \in Requests : rpc[q] = "closedPool" => serverStop = "error"

\* A signal or a failed start ends the program, although pool.Close ignores
\* its context and Serve may have died: everything it waits for comes.
AppEnds == GroupDone ~> phase = "exited"
=============================================================================
