------------------------------- MODULE Worker -------------------------------
(***************************************************************************)
(* workerkit: AsynqClient and AsynqServer over asynq and Redis, and the    *)
(* InMemoryClient (workerkit/memqueue) that stands in for the client in    *)
(* tests.  Every task is enqueued by a goroutine of its own.               *)
(*                                                                         *)
(* asynq is external.  Enqueue stores a task in Redis or fails, possibly   *)
(* after storing it.  A started server hands pending tasks to at most      *)
(* Concurrency workers, each of which waits for the goroutine in which the *)
(* handler runs; Stop only ends that; Shutdown ends it too and waits for   *)
(* the workers.  After a timeout of its own they put their tasks back and  *)
(* leave the handlers running.  A started server's own writes to Redis are *)
(* taken to succeed.                                                       *)
(***************************************************************************)
EXTENDS Integers, SequencesExt

CONSTANTS Tasks, Concurrency,
          MaxRetry,     \* asynq's retries of a failing task
          MaxOptions,   \* bound: options of a call
          MaxResets     \* bound: calls of InMemoryClient.Reset

ASSUME WorkerAssumption == {Concurrency, MaxRetry, MaxOptions, MaxResets} \subseteq Nat

VARIABLES adapter,       \* the Enqueuer: AsynqClient or InMemoryClient
          clientReady,   \* AsynqClient's Ready channel is closed
          clientClosed,  \* its stop closure has closed the asynq client
          call,          \* per task: where its Enqueue or EnqueueContext is
          opts,          \* per task: the scheduling options passed on to asynq
          wanted,        \* per task: the last schedule that its caller gave
          state,         \* per task: its state in Redis
          retried,       \* per task: retries so far
          handling,      \* the tasks whose handler runs
          server,        \* the asynq server's state
          stop,          \* AsynqServer's stop closure
          stopCtxDone,   \* its context is done
          mem,           \* InMemoryClient.tasks
          memId,         \* per task: the number in the ID it was given, 0 if none
          resets         \* how often Reset has cleared it

clientVars == <<adapter, clientReady, clientClosed, call, opts, wanted>>
serverVars == <<state, retried, handling, server, stop, stopCtxDone>>
memVars    == <<mem, memId, resets>>
vars == <<clientVars, serverVars, memVars>>

Options == {"ProcessIn", "ZeroSchedule", "ProcessAt", "Queue"}

Init ==
  /\ adapter \in {"asynq", "memory"}
  /\ clientReady = FALSE /\ clientClosed = FALSE
  /\ call = [t \in Tasks |-> "new"]
  /\ opts = [t \in Tasks |-> {}]
  /\ wanted = [t \in Tasks |-> {}]
  /\ state = [t \in Tasks |-> "absent"]
  /\ retried = [t \in Tasks |-> 0]
  /\ handling = {}
  /\ server = "new" /\ stop = "none" /\ stopCtxDone = FALSE
  /\ mem = <<>>
  /\ memId = [t \in Tasks |-> 0]
  /\ resets = 0

-----------------------------------------------------------------------------
(* EnqueueOptions: ProcessIn and ProcessAt, zero when they are not set *)

NoOptions == [ProcessIn |-> 0, ProcessAt |-> 0]

\* Fault: WithProcessAt leaves an earlier WithProcessIn in place.
ApplyKeeping(o, opt) ==
  CASE opt = "ProcessIn" -> [ProcessIn |-> 1, ProcessAt |-> 0]
    [] opt = "ZeroSchedule" -> NoOptions
    [] opt = "ProcessAt" -> [o EXCEPT !.ProcessAt = 1]
    [] OTHER -> o

\* WithProcessIn and WithProcessAt clear each other.  ZeroSchedule is either of
\* them with a zero value, which counts as none; Queue is any other option.
Apply(o, opt) ==
  CASE opt = "ProcessIn" -> [ProcessIn |-> 1, ProcessAt |-> 0]
    [] opt = "ZeroSchedule" -> NoOptions
    [] opt = "ProcessAt" -> [ProcessIn |-> 0, ProcessAt |-> 1]
    [] OTHER -> o

\* toAsynqOpts: the scheduling options that reach asynq, or memqueue's record.
toAsynqOpts(options) ==
  LET o == FoldLeft(Apply, NoOptions, options)
  IN  {f \in DOMAIN o : o[f] > 0}

\* What the comments on WithProcessIn and WithProcessAt say: a schedule counts
\* if only other options come after it.
LastSchedule(options) ==
  {f \in {"ProcessIn", "ProcessAt"} :
     \E i \in DOMAIN options :
        options[i] = f /\ \A j \in DOMAIN options : j > i => options[j] = "Queue"}

\* A call comes with some options.
Given(t) ==
  \E os \in SeqOf(Options, MaxOptions) :
     /\ opts' = [opts EXCEPT ![t] = toAsynqOpts(os)]
     /\ wanted' = [wanted EXCEPT ![t] = LastSchedule(os)]

-----------------------------------------------------------------------------
(* AsynqClient *)

CallIs(t, c) == call' = [call EXCEPT ![t] = c]

\* Connect of the client contacts nothing, so it cannot fail.
ClientStarts ==
  /\ adapter = "asynq" /\ ~clientReady /\ ~clientClosed
  /\ clientReady' = TRUE
  /\ UNCHANGED <<adapter, clientClosed, call, opts, wanted, serverVars, memVars>>

ClientStops ==
  /\ clientReady /\ ~clientClosed
  /\ clientClosed' = TRUE
  /\ UNCHANGED <<adapter, clientReady, call, opts, wanted, serverVars, memVars>>

\* Enqueue does not wait for readiness, EnqueueContext does.
Enqueue(t) ==
  /\ adapter = "asynq" /\ call[t] = "new"
  /\ Given(t)
  /\ \/ ~clientReady /\ CallIs(t, "refused")
     \/ clientReady /\ CallIs(t, "sent")
     \/ CallIs(t, "waiting")
  /\ UNCHANGED <<adapter, clientReady, clientClosed, serverVars, memVars>>

WaitEnds(t) ==
  /\ call[t] = "waiting"
  /\ \/ clientReady /\ CallIs(t, "sent")
     \/ CallIs(t, "refused")   \* the caller's context is done
  /\ UNCHANGED <<adapter, clientReady, clientClosed, opts, wanted, serverVars, memVars>>

Stored(t) ==
  state' = [state EXCEPT ![t] = IF opts[t] = {} THEN "pending" ELSE "scheduled"]

\* asynq writes the task to Redis.
Send(t) ==
  /\ call[t] = "sent"
  /\ \/ ~clientClosed /\ Stored(t) /\ CallIs(t, "ok")
     \/ ~clientClosed /\ Stored(t) /\ CallIs(t, "failed")   \* the reply is lost
     \/ CallIs(t, "failed") /\ UNCHANGED state
  /\ UNCHANGED <<adapter, clientReady, clientClosed, opts, wanted, retried, handling,
                 server, stop, stopCtxDone, memVars>>

-----------------------------------------------------------------------------
(* AsynqServer: processing *)

\* The tasks that a worker has: it waits for the handler, and Redis holds the
\* task for it.
Active == {t \in Tasks : state[t] = "active"}
Becomes(t, s) == state' = [state EXCEPT ![t] = s]

ServerStarts ==
  /\ adapter = "asynq" /\ server = "new"
  /\ server' \in {"running", "failed"}
  /\ UNCHANGED <<clientVars, state, retried, handling, stop, stopCtxDone, memVars>>

\* Scheduled tasks and retries fall due.
Forward(t) ==
  /\ server = "running" /\ state[t] = "scheduled" /\ Becomes(t, "pending")
  /\ UNCHANGED <<clientVars, retried, handling, server, stop, stopCtxDone, memVars>>

Dequeue(t) ==
  /\ server = "running" /\ state[t] = "pending" /\ Cardinality(Active) < Concurrency
  /\ Becomes(t, "active")
  /\ handling' = handling \cup {t}
  /\ UNCHANGED <<clientVars, retried, server, stop, stopCtxDone, memVars>>

\* The handler that HandleFunc registered returns: nil, or an error, after
\* which asynq retries the task or archives it.  Once the task has been put
\* back, nobody waits for what its handler returns.
Handled(t) ==
  /\ t \in handling
  /\ handling' = handling \ {t}
  /\ \/ t \notin Active /\ UNCHANGED <<state, retried>>
     \/ t \in Active /\ Becomes(t, "completed") /\ UNCHANGED retried
     \/ /\ t \in Active /\ retried[t] < MaxRetry /\ Becomes(t, "scheduled")
        /\ retried' = [retried EXCEPT ![t] = @ + 1]
     \/ t \in Active /\ retried[t] = MaxRetry /\ Becomes(t, "archived") /\ UNCHANGED retried
  /\ UNCHANGED <<clientVars, server, stop, stopCtxDone, memVars>>

-----------------------------------------------------------------------------
(* AsynqServer: the stop closure and the goroutine it starts *)

StopCalled ==
  /\ server = "running" /\ stop = "none"
  /\ stop' = "waiting"
  /\ stopCtxDone' \in BOOLEAN   \* the runner's context may be done already
  /\ UNCHANGED <<clientVars, state, retried, handling, server, memVars>>

\* The goroutine calls server.Shutdown.
ShutdownBegins ==
  /\ stop # "none" /\ server \in {"running", "stopped"}
  /\ server' = "draining"
  /\ UNCHANGED <<clientVars, state, retried, handling, stop, stopCtxDone, memVars>>

\* Shutdown's timeout is over, and a worker puts its task back and ends.
PutBack(t) ==
  /\ server = "draining" /\ t \in Active
  /\ Becomes(t, "pending")
  /\ UNCHANGED <<clientVars, retried, handling, server, stop, stopCtxDone, memVars>>

\* Every worker has ended: Shutdown returns and the goroutine closes done.
ShutdownEnds ==
  /\ server = "draining" /\ Active = {}
  /\ server' = "closed"
  /\ UNCHANGED <<clientVars, state, retried, handling, stop, stopCtxDone, memVars>>

StopCtxEnds ==
  /\ stop = "waiting" /\ ~stopCtxDone
  /\ stopCtxDone' = TRUE
  /\ UNCHANGED <<clientVars, state, retried, handling, server, stop, memVars>>

\* Fault: the closure does not wait for the goroutine.
StopAtOnce ==
  /\ stop = "waiting" /\ stop' = "nil"
  /\ UNCHANGED <<clientVars, state, retried, handling, server, stopCtxDone, memVars>>

StopSeesDone ==
  /\ stop = "waiting" /\ server = "closed"
  /\ stop' = "nil"
  /\ UNCHANGED <<clientVars, state, retried, handling, server, stopCtxDone, memVars>>

\* Fault: the closure waits for Shutdown only.
StopIgnoresCtx == FALSE /\ UNCHANGED vars

\* server.Stop has an effect only if the goroutine has not come to Shutdown.
StopTimesOut ==
  /\ stop = "waiting" /\ stopCtxDone
  /\ stop' = "error"
  /\ server' = IF server = "running" THEN "stopped" ELSE server
  /\ UNCHANGED <<clientVars, state, retried, handling, stopCtxDone, memVars>>

-----------------------------------------------------------------------------
(* InMemoryClient: every operation holds the mutex *)

\* Fault: the ID is taken from the length before the task is appended.
MemEnqueueEarlyId(t) ==
  /\ adapter = "memory" /\ call[t] = "new"
  /\ Given(t)
  /\ mem' = Append(mem, t) /\ memId' = [memId EXCEPT ![t] = Len(mem)]
  /\ CallIs(t, "ok")
  /\ UNCHANGED <<adapter, clientReady, clientClosed, serverVars, resets>>

\* Enqueue and EnqueueContext store the task, and the new length is its ID.
MemEnqueue(t) ==
  /\ adapter = "memory" /\ call[t] = "new"
  /\ Given(t)
  /\ mem' = Append(mem, t)
  /\ memId' = [memId EXCEPT ![t] = Len(mem')]
  /\ CallIs(t, "ok")
  /\ UNCHANGED <<adapter, clientReady, clientClosed, serverVars, resets>>

\* EnqueueContext with a context that is done.
MemRefuses(t) ==
  /\ adapter = "memory" /\ call[t] = "new"
  /\ CallIs(t, "refused")
  /\ UNCHANGED <<adapter, clientReady, clientClosed, opts, wanted, serverVars, memVars>>

MemReset ==
  /\ adapter = "memory" /\ resets < MaxResets
  /\ mem' = <<>>
  /\ resets' = resets + 1
  /\ UNCHANGED <<clientVars, serverVars, memId>>

-----------------------------------------------------------------------------
Next ==
  \/ ClientStarts \/ ClientStops \/ ServerStarts
  \/ StopCalled \/ StopCtxEnds \/ StopSeesDone \/ StopTimesOut
  \/ ShutdownBegins \/ ShutdownEnds \/ MemReset
  \/ \E t \in Tasks : Enqueue(t) \/ WaitEnds(t) \/ Send(t)
                        \/ Forward(t) \/ Dequeue(t) \/ Handled(t) \/ PutBack(t)
                        \/ MemEnqueue(t) \/ MemRefuses(t)

Spec == Init /\ [][Next]_vars

\* The closure's select goes on when it can, and its context has a deadline.
\* Nothing is assumed of handlers, and so of Shutdown.
FairSpec ==
  /\ Spec
  /\ WF_vars(StopCtxEnds) /\ WF_vars(StopSeesDone \/ StopTimesOut)

-----------------------------------------------------------------------------
\* If AsynqServer.Stop returns nil (server.go:54-56), the server is closed and
\* no task is left in a worker's hands, to wait until its lease has expired:
\* each is done, or in the queue or the archive.  That does not mean that no
\* handler runs: one that outlasts asynq's ShutdownTimeout goes on, and may
\* meet a cache and a database that have been closed, but its task is back in
\* the queue and will be handled again.
SettledWhenNil ==
  stop = "nil" => /\ server = "closed"
                  /\ Active = {}
                  /\ \A t \in handling : state[t] = "pending"

\* Stop returns although a handler may hang: by its deadline at the latest.
StopReturns == stop = "waiting" ~> stop \in {"nil", "error"}

\* enqueuer.go:91-108: WithProcessIn and WithProcessAt clear each other, so
\* asynq gets at most one of them, the last that was given.
LastScheduleWins == \A t \in Tasks : opts[t] = wanted[t]

\* The ID that memqueue gives a task is its place among Tasks(), whatever was
\* enqueued or reset in between.
IdNamesTask == \A i \in DOMAIN mem : memId[mem[i]] = i
=============================================================================
