------------------------------ MODULE Lifecycle ------------------------------
(***************************************************************************)
(* core.Lifecycle (core/lifecycle.go), the primitive that every adapter of *)
(* the kit embeds.  One instance is shared by goroutines that call Start,  *)
(* Stop and WaitReady in any order.  A step is what a goroutine does       *)
(* between two points where another one can interfere: the acquisition of  *)
(* l.mu, the call of a closure, the close of a channel, a blocking receive.*)
(*                                                                         *)
(* A Start call p owns the resource that its Connect acquires, and p also  *)
(* stands for the stop closure of that resource.  The definitions marked   *)
(* "Fault" are not part of Next: they say how the next definition could be *)
(* got wrong, and the properties are shown to notice.                      *)
(***************************************************************************)
EXTENDS Naturals

CONSTANTS Starters,   \* calls of Start
          Stoppers,   \* calls of Stop
          Waiters,    \* calls of WaitReady
          None        \* nil

ASSUME NoneAssumption == None \notin Starters \cup Stoppers

VARIABLES mu,         \* the Stop call that holds l.mu over its closure, or None
          ready,      \* l.ready is closed
          stopFunc,   \* l.stopFunc
          stopped,    \* l.stopped
          startPC,    \* where each Start call is
          stopPC,     \* where each Stop call is
          waitPC,     \* where each WaitReady call is
          ctxDone,    \* the calls whose context is done
          opened,     \* the Start calls whose Connect returned a stop closure
          calls       \* how often each of these closures has been invoked

vars == <<mu, ready, stopFunc, stopped, startPC, stopPC, waitPC, ctxDone,
          opened, calls>>

\* A Start call ends "failed" with the error of Connect, "stopped" with the
\* result of the closure it called itself, "done" with ctx.Err().
StartPCs == {"idle", "connecting", "connected", "releasing", "publishing",
             "serving", "failed", "stopped", "done", "panicked"}
StopPCs  == {"idle", "locking", "closing", "returned"}
WaitPCs  == {"waiting", "nil", "ctxErr"}

TypeOK ==
  /\ mu \in Stoppers \cup {None}
  /\ ready \in BOOLEAN
  /\ stopFunc \in Starters \cup {None}
  /\ stopped \in BOOLEAN
  /\ startPC \in [Starters -> StartPCs]
  /\ stopPC \in [Stoppers -> StopPCs]
  /\ waitPC \in [Waiters -> WaitPCs]
  /\ ctxDone \subseteq Starters \cup Waiters
  /\ opened \subseteq Starters
  /\ calls \in [Starters -> Nat]

Init ==
  /\ mu = None
  /\ ready = FALSE
  /\ stopFunc = None
  /\ stopped = FALSE
  /\ startPC = [p \in Starters |-> "idle"]
  /\ stopPC = [s \in Stoppers |-> "idle"]
  /\ waitPC = [w \in Waiters |-> "waiting"]
  /\ ctxDone = {}
  /\ opened = {}
  /\ calls = [p \in Starters |-> 0]

\* A second close(l.ready) panics, which ends the process.
Crashed == \E p \in Starters : startPC[p] = "panicked"

-----------------------------------------------------------------------------
(* Start *)

GoStart(p, from, to) ==
  /\ startPC[p] = from
  /\ startPC' = [startPC EXCEPT ![p] = to]

StartCall(p) ==
  /\ GoStart(p, "idle", "connecting")
  /\ UNCHANGED <<mu, ready, stopFunc, stopped, stopPC, waitPC, ctxDone, opened, calls>>

\* Connect fails (a nil Connect always does), or returns a stop closure, or
\* a nil one.
ConnectReturns(p) ==
  /\ \/ GoStart(p, "connecting", "failed") /\ UNCHANGED opened
     \/ GoStart(p, "connecting", "connected") /\ opened' \in {opened, opened \cup {p}}
  /\ UNCHANGED <<mu, ready, stopFunc, stopped, stopPC, waitPC, ctxDone, calls>>

\* The closure of p is invoked.
Invoke(p) == calls' = [calls EXCEPT ![p] = @ + 1]

\* Fault: Start does not look at l.stopped after Connect.
StoppedIgnored == FALSE

\* The condition of Start's locked section.
StoppedMeanwhile == stopped

\* Fault: Start calls the closure without giving up l.mu first.
MuKept(p) == p

\* l.mu as Start leaves it before it calls the closure of a late resource.
MuAtLateRelease(p) == None

\* The locked section of Start when a Stop has come first: Start itself calls
\* the closure of the resource it has just acquired, outside the lock.
StartReleases(p) ==
  /\ mu = None
  /\ StoppedMeanwhile
  /\ \/ /\ p \in opened
        /\ GoStart(p, "connected", "releasing")
        /\ Invoke(p)
        /\ mu' = MuAtLateRelease(p)
     \/ /\ p \notin opened
        /\ GoStart(p, "connected", "stopped")
        /\ UNCHANGED <<calls, mu>>
  /\ UNCHANGED <<ready, stopFunc, stopped, stopPC, waitPC, ctxDone, opened>>

\* The locked section of Start otherwise: the closure is left to Stop.
StartStores(p) ==
  /\ mu = None
  /\ ~StoppedMeanwhile
  /\ GoStart(p, "connected", "publishing")
  /\ stopFunc' = IF p \in opened THEN p ELSE None
  /\ UNCHANGED <<mu, ready, stopped, stopPC, waitPC, ctxDone, opened, calls>>

\* The closure that Start called returns, and so does Start.
StartReleased(p) ==
  /\ GoStart(p, "releasing", "stopped")
  /\ UNCHANGED <<mu, ready, stopFunc, stopped, stopPC, waitPC, ctxDone, opened, calls>>

CloseReady(p) ==
  /\ GoStart(p, "publishing", IF ready THEN "panicked" ELSE "serving")
  /\ ready' = TRUE
  /\ UNCHANGED <<mu, stopFunc, stopped, stopPC, waitPC, ctxDone, opened, calls>>

\* <-ctx.Done()
StartWakes(p) ==
  /\ p \in ctxDone
  /\ GoStart(p, "serving", "done")
  /\ UNCHANGED <<mu, ready, stopFunc, stopped, stopPC, waitPC, ctxDone, opened, calls>>

-----------------------------------------------------------------------------
(* Stop *)

GoStop(s, from, to) ==
  /\ stopPC[s] = from
  /\ stopPC' = [stopPC EXCEPT ![s] = to]

StopCall(s) ==
  /\ GoStop(s, "idle", "locking")
  /\ UNCHANGED <<mu, ready, stopFunc, stopped, startPC, waitPC, ctxDone, opened, calls>>

\* Fault: Stop does not look whether it has run before.
NeverStopped == FALSE

\* The early return of Stop.
AlreadyStopped == stopped

\* Fault: Stop gives up l.mu before it calls the closure.
MuDropped(s) == None

\* l.mu is held over the closure (defer l.mu.Unlock()).
MuOverClosure(s) == s

\* Stop gets l.mu; the first one to do so invokes the stored closure.
StopLocks(s) ==
  /\ mu = None
  /\ stopped' = TRUE
  /\ \/ /\ ~AlreadyStopped /\ stopFunc # None
        /\ GoStop(s, "locking", "closing")
        /\ Invoke(stopFunc)
        /\ mu' = MuOverClosure(s)
     \/ /\ AlreadyStopped \/ stopFunc = None
        /\ GoStop(s, "locking", "returned")
        /\ UNCHANGED <<calls, mu>>
  /\ UNCHANGED <<ready, stopFunc, startPC, waitPC, ctxDone, opened>>

\* Fault: Stop returns the closure's error without unlocking.
MuLeaked == mu

\* The deferred unlock.
MuReleased == None

\* The closure returns, and so does Stop.
StopReleased(s) ==
  /\ GoStop(s, "closing", "returned")
  /\ mu' = MuReleased
  /\ UNCHANGED <<ready, stopFunc, stopped, startPC, waitPC, ctxDone, opened, calls>>

-----------------------------------------------------------------------------
(* WaitReady, and the callers' contexts *)

\* The select takes either case when both are possible.
WaitReturns(w) ==
  /\ waitPC[w] = "waiting"
  /\ \/ ready /\ waitPC' = [waitPC EXCEPT ![w] = "nil"]
     \/ w \in ctxDone /\ waitPC' = [waitPC EXCEPT ![w] = "ctxErr"]
  /\ UNCHANGED <<mu, ready, stopFunc, stopped, startPC, stopPC, ctxDone, opened, calls>>

\* The context that a caller gave to Start or WaitReady is cancelled.
Cancel(c) ==
  /\ c \notin ctxDone
  /\ ctxDone' = ctxDone \cup {c}
  /\ UNCHANGED <<mu, ready, stopFunc, stopped, startPC, stopPC, waitPC, opened, calls>>

-----------------------------------------------------------------------------
StartNext(p) ==
  \/ StartCall(p) \/ ConnectReturns(p) \/ StartReleases(p) \/ StartStores(p)
  \/ StartReleased(p) \/ CloseReady(p) \/ StartWakes(p)

StopNext(s) == StopCall(s) \/ StopLocks(s) \/ StopReleased(s)

Next ==
  /\ ~Crashed
  /\ \/ \E p \in Starters : StartNext(p)
     \/ \E s \in Stoppers : StopNext(s)
     \/ \E w \in Waiters : WaitReturns(w)
     \/ \E c \in Starters \cup Waiters : Cancel(c)

Spec == Init /\ [][Next]_vars

\* Whether and when Start and Stop are called and contexts are cancelled is
\* the callers' choice.  A call that is under way gets on: the scheduler runs
\* its goroutine, l.mu is granted to a waiting caller, and Connect and the
\* stop closures return.
Fairness ==
  /\ \A p \in Starters :
       WF_vars(~Crashed /\ ~(startPC[p] = "idle") /\ StartNext(p))
  /\ \A s \in Stoppers :
       WF_vars(~Crashed /\ ~(stopPC[s] = "idle") /\ StopNext(s))
  /\ \A w \in Waiters : WF_vars(~Crashed /\ WaitReturns(w))

FairSpec == Spec /\ Fairness

-----------------------------------------------------------------------------
(* Properties *)

\* "Stop invokes the stop closure returned by Connect at most once"
\* (lifecycle.go:73): whichever of Start and Stop invokes it, and however
\* many Start and Stop calls race, no stop closure is invoked twice.
ReleaseAtMostOnce == \A p \in Starters : calls[p] <= 1

\* p has left its closure in l.stopFunc.
Stored(p) == startPC[p] \in {"publishing", "serving", "done", "panicked"}

\* "exactly-once stopping semantics" (lifecycle.go:10): once Stop has run,
\* every resource whose Start is past its locked section has had its closure
\* invoked, by Stop or by Start, unless another Start call stored a closure
\* of its own over it.
NoLeak ==
  \A p \in opened :
    (/\ stopped
     /\ startPC[p] # "connected"
     /\ \A q \in Starters \ {p} : ~Stored(q)) => calls[p] = 1

\* Stop holds l.mu while the closure runs (lifecycle.go:78-87): no Stop
\* call, the ones that find l.stopped set included, returns while the closure
\* that another Stop call invoked is still running.
StopWaitsForRelease ==
  \A s, t \in Stoppers : ~(stopPC[s] = "returned" /\ stopPC[t] = "closing")

\* The life of each resource as ReleaseOnce sees it; a closure invoked twice
\* is in none of its states.
resource ==
  [p \in Starters |->
     IF p \notin opened THEN IF calls[p] = 0 THEN "absent" ELSE "misused"
     ELSE IF calls[p] = 0 THEN "open" ELSE IF calls[p] = 1 THEN "released" ELSE "misused"]

Abstract == INSTANCE ReleaseOnce WITH Owners <- Starters

\* Lifecycle implements ReleaseOnce: no closure is invoked before its Connect
\* has returned it, and none twice (lifecycle.go:57-64, 81-88).
ImplementsReleaseOnce == Abstract!Spec

\* No caller hangs: Stop always returns, Start returns once its context is
\* done, WaitReady returns once its own is done or readiness is signalled
\* (lifecycle.go:56, 69, 78, 95).
CallsReturn ==
  /\ \A s \in Stoppers : (stopPC[s] = "locking") ~> (Crashed \/ stopPC[s] = "returned")
  /\ \A p \in Starters :
       (p \in ctxDone /\ startPC[p] # "idle")
         ~> (Crashed \/ startPC[p] \in {"failed", "stopped", "done"})
  /\ \A w \in Waiters :
       (ready \/ w \in ctxDone) ~> (Crashed \/ waitPC[w] # "waiting")
=============================================================================
