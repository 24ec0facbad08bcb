------------------------------- MODULE Runner -------------------------------
(***************************************************************************)
(* core.ApplicationRunner (core/runner.go): Run starts every registered    *)
(* service in a goroutine of an errgroup, with a watcher goroutine for the *)
(* start deadline of those that signal readiness, waits for all of them,   *)
(* and then stops the services one by one in reverse order of registration,*)
(* sharing out what is left of the shutdown timeout.                       *)
(*                                                                         *)
(* A context is "live" or holds its Err().  The services are any Component:*)
(* what their Start and Stop may do is StartReturns and StopReturns.       *)
(***************************************************************************)
EXTENDS Integers

CONSTANTS N,                \* len(r.services); service i is r.services[i-1]
          ShutdownTimeout,  \* r.shutdownTimeout, in some unit of time
          StartDeadline,    \* r.startDeadline > 0
          Readyable,        \* the services with a readiness channel
          LongestStop       \* bound: how long a Stop takes at most

Services == 1..N

ASSUME RunnerAssumption ==
  /\ N \in Nat
  /\ ShutdownTimeout \in Nat
  /\ StartDeadline \in BOOLEAN
  /\ Readyable \subseteq Services
  /\ LongestStop \in Nat

VARIABLES phase,      \* of Run
          ctx,        \* the context of Run: the caller's, or a signal
          egCtx,      \* the errgroup's context
          svcCtx,     \* each service's context
          groupErr,   \* the first error that the errgroup was given
          spawned,    \* how many services the loop of startSupervisor has started
          startPC, startErr, ready,   \* the Start goroutines
          watchPC,    \* the start deadline watchers
          cur,        \* services still to stop, the loop variable i+1
          remaining, budget, graceful, stopPC, stopErrs,
          spent,      \* the time that the Stops have taken
          late        \* some Stop went on after its context was done

ctxVars   == <<ctx, egCtx, svcCtx, groupErr>>
startVars == <<spawned, startPC, startErr, ready, watchPC>>
stopVars  == <<cur, remaining, budget, graceful, stopPC, stopErrs, spent, late>>
vars == <<phase, ctxVars, startVars, stopVars>>

Ends      == {"canceled", "deadlineExceeded"}
Contexts  == {"live"} \cup Ends
StartErrs == {"nil", "failure"} \cup Ends
GroupErrs == {"nil", "failure", "startDeadline"} \cup Ends

TypeOK ==
  /\ phase \in {"running", "stopping", "returned"}
  /\ ctx \in Contexts
  /\ egCtx \in Contexts
  /\ svcCtx \in [Services -> Contexts]
  /\ groupErr \in GroupErrs
  /\ spawned \in 0..N
  /\ startPC \in [Services -> {"unborn", "starting", "serving", "returned", "collected"}]
  /\ startErr \in [Services -> StartErrs]
  /\ ready \subseteq Services
  /\ watchPC \in [Services -> {"none", "watching", "expired", "reported", "returned"}]
  /\ cur \in 0..N
  /\ remaining \in 0..ShutdownTimeout
  /\ budget \in 0..ShutdownTimeout
  /\ graceful \in BOOLEAN
  /\ stopPC \in [Services -> {"pending", "stopping", "stopped"}]
  /\ stopErrs \subseteq Services
  /\ spent \in Nat
  /\ late \in BOOLEAN

Init ==
  /\ phase = "running"
  /\ ctx = "live"
  /\ egCtx = "live"
  /\ svcCtx = [i \in Services |-> "live"]
  /\ groupErr = "nil"
  /\ spawned = 0
  /\ startPC = [i \in Services |-> "unborn"]
  /\ startErr = [i \in Services |-> "nil"]
  /\ ready = {}
  /\ watchPC = [i \in Services |-> "none"]
  /\ cur = N
  /\ remaining = ShutdownTimeout
  /\ budget = 0
  /\ graceful = FALSE
  /\ stopPC = [i \in Services |-> "pending"]
  /\ stopErrs = {}
  /\ spent = 0
  /\ late = FALSE

-----------------------------------------------------------------------------
(* Contexts and the errgroup *)

\* A context is done once and for all.
Done(c, end) == IF c = "live" THEN end ELSE c

\* Fault: the services' contexts are not derived from the group's.
Detached(end) == svcCtx

\* The services' contexts end with the group's.
Derived(end) == [i \in Services |-> Done(svcCtx[i], end)]

EndGroup(end) ==
  /\ egCtx' = Done(egCtx, end)
  /\ svcCtx' = Derived(end)

CancelSvc(i) == svcCtx' = [svcCtx EXCEPT ![i] = Done(@, "canceled")]

\* The caller cancels, a signal arrives, or the caller's deadline passes.
CtxEnds ==
  /\ phase # "returned"
  /\ ctx = "live"
  /\ ctx' \in Ends
  /\ EndGroup(ctx')
  /\ UNCHANGED <<phase, groupErr, startVars, stopVars>>

\* Fault: the last error wins.
IsLast(err) == TRUE

\* errOnce: the group keeps the first error.
IsFirst(err) == groupErr = "nil"

\* A goroutine of the group returns err.
RecordError(err) ==
  \/ /\ IsFirst(err)
     /\ groupErr' = err
     /\ EndGroup("canceled")
  \/ /\ ~IsFirst(err)
     /\ UNCHANGED <<groupErr, egCtx, svcCtx>>

-----------------------------------------------------------------------------
(* startSupervisor *)

\* The loop starts service i, and its watcher where there is one to start.
Spawn ==
  /\ phase = "running" /\ spawned < N
  /\ LET i == spawned + 1 IN
       /\ spawned' = i
       /\ startPC' = [startPC EXCEPT ![i] = "starting"]
       /\ watchPC' = [watchPC EXCEPT ![i] =
                        IF StartDeadline /\ i \in Readyable THEN "watching" ELSE "none"]
  /\ UNCHANGED <<phase, ctxVars, startErr, ready, stopVars>>

\* Inside Start, the service closes its readiness channel.
BecomesReady(i) ==
  /\ startPC[i] = "starting"
  /\ startPC' = [startPC EXCEPT ![i] = "serving"]
  /\ ready' = ready \cup {i}
  /\ UNCHANGED <<phase, ctxVars, spawned, startErr, watchPC, stopVars>>

\* Start returns, with its context's error only when that is done, and the
\* OnComponentStart hook runs.
StartReturns(i) ==
  /\ startPC[i] \in {"starting", "serving"}
  /\ startPC' = [startPC EXCEPT ![i] = "returned"]
  /\ \E err \in {"nil", "failure", svcCtx[i]} \ {"live"} :
       startErr' = [startErr EXCEPT ![i] = err]
  /\ UNCHANGED <<phase, ctxVars, spawned, ready, watchPC, stopVars>>

\* Fault: every context error counts as a clean end.
NotContextError(err) == err \notin {"nil"} \cup Ends

\* err != nil && !errors.Is(err, context.Canceled)
IsStartError(err) == err \notin {"nil", "canceled"}

\* The Start goroutine ends: cancelSvc, and its error goes to the group.
StartCollected(i) ==
  /\ startPC[i] = "returned"
  /\ startPC' = [startPC EXCEPT ![i] = "collected"]
  /\ \/ IsStartError(startErr[i]) /\ RecordError(startErr[i]) /\ UNCHANGED ctx
     \/ ~IsStartError(startErr[i]) /\ CancelSvc(i) /\ UNCHANGED <<ctx, egCtx, groupErr>>
  /\ UNCHANGED <<phase, spawned, startErr, ready, watchPC, stopVars>>

WatchGoes(i, from, to) ==
  /\ watchPC[i] = from
  /\ watchPC' = [watchPC EXCEPT ![i] = to]
  /\ UNCHANGED <<phase, spawned, startPC, startErr, ready, stopVars>>

\* The three cases of the watcher's select.  The context error is returned
\* as it is; the deadline cancels the service before it is reported.
WatchReady(i) ==
  /\ i \in ready
  /\ WatchGoes(i, "watching", "returned")
  /\ UNCHANGED ctxVars

WatchExpires(i) ==
  /\ WatchGoes(i, "watching", "expired")
  /\ CancelSvc(i)
  /\ UNCHANGED <<ctx, egCtx, groupErr>>

WatchReports(i) ==
  /\ WatchGoes(i, "expired", "reported")
  /\ RecordError("startDeadline")
  /\ UNCHANGED ctx

WatchCancelled(i) ==
  /\ egCtx # "live"
  /\ WatchGoes(i, "watching", "returned")
  /\ RecordError(egCtx)
  /\ UNCHANGED ctx

\* Fault: the group is waited for only until its first error.
FirstErrorOrAll == groupErr # "nil" \/ \A i \in Services : startPC[i] = "collected"

\* Every goroutine of the group has ended.
AllCollected ==
  \A i \in Services : startPC[i] = "collected" /\ watchPC[i] \notin {"watching", "expired"}

\* eg.Wait returns, which also cancels the group's context.
WaitReturns ==
  /\ phase = "running" /\ spawned = N
  /\ AllCollected
  /\ phase' = "stopping"
  /\ EndGroup("canceled")
  /\ UNCHANGED <<ctx, groupErr, startVars, stopVars>>

-----------------------------------------------------------------------------
(* shutdownOrchestrator *)

\* Faults: a service may use up all that is left; each has the whole timeout.
AllThatIsLeft == remaining
WholeTimeout  == ShutdownTimeout

\* remainingTimeout / time.Duration(i+1)
Share == remaining \div cur

\* Fault: in order of registration.
Forward(k) == N + 1 - k

\* r.services[i]
Reverse(k) == k

\* The service's Stop is called with a context derived from Run's.
StopCall ==
  /\ phase = "stopping" /\ cur > 0
  /\ stopPC[Reverse(cur)] = "pending"
  /\ stopPC' = [stopPC EXCEPT ![Reverse(cur)] = "stopping"]
  /\ budget' = Share
  /\ graceful' = (ctx = "live" /\ Share > 0)
  /\ UNCHANGED <<phase, ctxVars, startVars, cur, remaining, stopErrs, spent, late>>

\* How long the Stop under way takes if it obeys its context.
Allowed == IF graceful THEN budget ELSE 0

\* Fault: no floor at zero.
Unclamped(elapsed) == remaining - elapsed

\* remainingTimeout -= elapsed, not below zero.
Left(elapsed) == IF elapsed <= remaining THEN remaining - elapsed ELSE 0

\* Stop returns after some time, with or without an error.  It may go on after
\* its context is done, as one that waits in pgxpool.Close does.
StopReturns ==
  /\ phase = "stopping" /\ cur > 0
  /\ stopPC[Reverse(cur)] = "stopping"
  /\ stopPC' = [stopPC EXCEPT ![Reverse(cur)] = "stopped"]
  /\ \E elapsed \in 0..LongestStop :
       /\ remaining' = Left(elapsed)
       /\ spent' = spent + elapsed
       /\ late' = (late \/ elapsed > Allowed)
  /\ stopErrs' \in {stopErrs, stopErrs \cup {Reverse(cur)}}
  /\ cur' = cur - 1
  /\ UNCHANGED <<phase, ctxVars, startVars, budget, graceful>>

\* i >= 0 no longer holds.
LoopEnds == cur = 0

\* Run returns the group's error joined with those of the Stops.
RunReturns ==
  /\ phase = "stopping"
  /\ LoopEnds
  /\ phase' = "returned"
  /\ UNCHANGED <<ctxVars, startVars, stopVars>>

-----------------------------------------------------------------------------
ServiceNext(i) ==
  \/ BecomesReady(i) \/ StartReturns(i) \/ StartCollected(i)
  \/ WatchReady(i) \/ WatchExpires(i) \/ WatchReports(i) \/ WatchCancelled(i)

RunNext == Spawn \/ WaitReturns \/ StopCall \/ StopReturns \/ RunReturns

Next == CtxEnds \/ RunNext \/ \E i \in Services : ServiceNext(i)

Spec == Init /\ [][Next]_vars

\* Run itself never blocks but in eg.Wait and in a Stop, which returns; a
\* watcher's timer fires; a Start returns once its context is done, though
\* not before.
Fairness ==
  /\ WF_vars(RunNext)
  /\ \A i \in Services :
       /\ WF_vars(svcCtx[i] # "live" /\ StartReturns(i))
       /\ WF_vars(StartCollected(i))
       /\ WF_vars(WatchReady(i) \/ WatchExpires(i) \/ WatchReports(i) \/ WatchCancelled(i))

FairSpec == Spec /\ Fairness

-----------------------------------------------------------------------------
(* Properties *)

\* Run calls shutdownOrchestrator only after eg.Wait (runner.go:130-131,197):
\* no Stop is called while any service's Start or watcher still runs, which
\* is what spares Lifecycle the race of Stop with a Start that signals ready.
StopAfterStart ==
  \A i \in Services : stopPC[i] # "pending" =>
    \A j \in Services : startPC[j] = "collected" /\ watchPC[j] \notin {"watching", "expired"}

\* "shuts services down in reverse registration order" (runner.go:20,
\* TestRunShutdownOrder), and "shuts everything down" (runner.go:123): a
\* service is not asked to stop before every service registered after it has
\* stopped, and when Run returns, whatever went wrong, all of them have been.
StoppedInReverse ==
  /\ \A i, j \in Services : i < j /\ stopPC[i] # "pending" => stopPC[j] = "stopped"
  /\ phase = "returned" => \A i \in Services : stopPC[i] = "stopped"

\* "the total budget for shutting down all services" (runner.go:59): as long
\* as the Stops obey their contexts, the shutdown takes no longer than that.
WithinTimeout == ~late => spent <= ShutdownTimeout

\* remaining/(i+1) (runner.go:208): services that obey their contexts never
\* eat into the share of those stopped after them, whatever time they take
\* and however the divisions round.
FairShare ==
  \A i \in Services : stopPC[i] = "stopping" /\ ~late => budget >= ShutdownTimeout \div N

\* What Run reports is a cause and not a consequence (runner.go:157,187,190):
\* a context error only if Run's own context ended that way, otherwise the
\* failure of a Start or a missed deadline.  So a cancellation that one of
\* these sets off, through the group or through cancelSvc, never comes before
\* it.  Once Run's own context has ended, its error may come first and hide a
\* failure; and of a missed deadline and the failure that cancelSvc provokes in
\* the Start, either may come first.
RootCauseKept ==
  /\ groupErr \in Ends => ctx = groupErr
  /\ groupErr = "failure" => \E i \in Services : startErr[i] = "failure"
  /\ groupErr = "startDeadline" => \E i \in Services : watchPC[i] = "reported"

\* "joins any start/shutdown errors" (runner.go:123): if Run returns nil, no
\* Start returned an error other than Canceled, no start deadline expired and
\* no Stop failed.
NilMeansClean ==
  phase = "returned" /\ groupErr = "nil" /\ stopErrs = {} =>
    \A i \in Services : startErr[i] \in {"nil", "canceled"} /\ watchPC[i] # "reported"

\* Run "blocks until ctx is cancelled or a signal is received"
\* (runner.go:122): from then on it comes to an end by itself.
CancelEndsRun == (ctx # "live") ~> (phase = "returned")

\* A service that fails, or misses its start deadline, takes the whole run
\* down (runner.go:157,171-188).
FailureEndsRun ==
  \A i \in Services :
    (startErr[i] = "failure" \/ watchPC[i] = "expired") ~> (phase = "returned")

\* "how long each Readyable service may take to become ready"
\* (runner.go:69): with a deadline, no service stays in its start for ever.
DeadlineEnforced ==
  \A i \in Services :
    (StartDeadline /\ i \in Readyable /\ startPC[i] = "starting")
      ~> (i \in ready \/ phase = "returned")

\* "gracefully shuts down on Stop" (serverkit/server.go:23) and "the total
\* budget for shutting down all services" (runner.go:59): the context given
\* to a Stop is live when it is called.
StopGetsItsBudget == \A i \in Services : stopPC[i] = "stopping" => graceful

\* "blocks until ctx is cancelled or a signal is received, then shuts
\* everything down and joins any start/shutdown errors" (runner.go:122-123):
\* a run that is cancelled, in which nothing failed, returns nil.
CancelledRunIsClean ==
  /\ phase = "returned" /\ ctx = "canceled" /\ stopErrs = {}
  /\ \A i \in Services : startErr[i] \in {"nil", "canceled"}
  => groupErr \in {"nil", "startDeadline"}
=============================================================================
