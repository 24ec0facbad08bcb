---------------------------- MODULE RunnerProofs ----------------------------
(***************************************************************************)
(* Proofs about Runner, for any number of services, any shutdown timeout   *)
(* and any behaviour of the services.                                      *)
(***************************************************************************)
EXTENDS Runner, TLAPS

\* The supervisor and the shutdown loop do not overlap, and the loop has
\* stopped exactly the services above cur.
LoopInv ==
  /\ phase = "running" => cur = N /\ \A i \in Services : stopPC[i] = "pending"
  /\ phase # "running" => AllCollected
  /\ phase = "returned" => cur = 0
  /\ \A i \in Services : /\ i > cur => stopPC[i] = "stopped"
                         /\ i < cur => stopPC[i] = "pending"
                         /\ i = cur => stopPC[i] # "stopped"

\* While the Stops so far have obeyed their contexts, no time is unaccounted
\* for, and what is left holds a fair share for each of the rest.
TimeInv ==
  /\ \A i \in Services : stopPC[i] = "stopping" => budget = remaining \div cur
  /\ ~late =>
       /\ spent + remaining = ShutdownTimeout
       /\ N > 0 => remaining >= cur * (ShutdownTimeout \div N)

\* Where a context error can come from.
ContextInv ==
  /\ egCtx # "live" /\ groupErr = "nil" /\ phase = "running" => ctx = egCtx
  /\ \A i \in Services :
       /\ svcCtx[i] = "deadlineExceeded" => ctx = "deadlineExceeded"
       /\ startErr[i] = "deadlineExceeded" => ctx = "deadlineExceeded"

\* A Start that has not returned has no error yet, and what the loop has not
\* started has not begun.
StartInv ==
  \A i \in Services :
    /\ startPC[i] \in {"unborn", "starting", "serving"} => startErr[i] = "nil"
    /\ i > spawned => startPC[i] = "unborn" /\ watchPC[i] = "none"

\* An error that was reported has reached the group.
ReportInv ==
  groupErr = "nil" =>
    \A i \in Services : /\ startPC[i] = "collected" => startErr[i] \in {"nil", "canceled"}
                        /\ watchPC[i] # "reported"

-----------------------------------------------------------------------------
(* Arithmetic of the shares *)

\* Integer division rounds down (runner.go:208).
LEMMA DivBounds ==
  ASSUME NEW r \in Nat, NEW k \in Nat \ {0}
  PROVE  /\ r \div k \in Nat
         /\ k * (r \div k) <= r
         /\ r < k * (r \div k) + k
  BY SMT

\* A quotient is at least q when the dividend holds k times q.
LEMMA DivAtLeast ==
  ASSUME NEW r \in Nat, NEW k \in Nat \ {0}, NEW q \in Nat, r >= k * q
  PROVE  r \div k >= q
  BY DivBounds, SMT

\* Taking no more than one share leaves the rest their shares.
LEMMA ShareLeft ==
  ASSUME NEW r \in Nat, NEW k \in Nat \ {0}, NEW q \in Nat, r >= k * q,
         NEW e \in Nat, e <= r \div k
  PROVE  e <= r /\ r - e >= (k - 1) * q
  BY DivBounds, DivAtLeast, SMT

-----------------------------------------------------------------------------
(* Type correctness *)

\* A share of what is left is no more than that, and the Stop under way takes
\* some natural number of units.
LEMMA ShareType ==
  ASSUME TypeOK, cur > 0
  PROVE  Share \in 0..ShutdownTimeout
<1>1. remaining \in Nat /\ cur \in Nat \ {0} /\ remaining <= ShutdownTimeout
  BY RunnerAssumption DEF TypeOK
<1>2. remaining \div cur \in Nat /\ cur * (remaining \div cur) <= remaining
  BY <1>1, DivBounds
<1>3. remaining \div cur <= remaining BY <1>1, <1>2, SMT
<1> QED BY <1>1, <1>2, <1>3, RunnerAssumption DEF Share

\* Contexts stay contexts, and errors errors, when the group is given one.
LEMMA GroupType ==
  /\ TypeOK => \A end \in Ends : EndGroup(end) => egCtx' \in Contexts /\ svcCtx' \in [Services -> Contexts]
  /\ TypeOK => \A i \in Services : CancelSvc(i) => svcCtx' \in [Services -> Contexts]
  /\ TypeOK => \A err \in GroupErrs : RecordError(err) =>
       egCtx' \in Contexts /\ svcCtx' \in [Services -> Contexts] /\ groupErr' \in GroupErrs
<1>1. TypeOK => \A end \in Ends : EndGroup(end) => egCtx' \in Contexts /\ svcCtx' \in [Services -> Contexts]
  BY DEF TypeOK, EndGroup, Derived, Done, Contexts
<1>2. TypeOK => \A i \in Services : CancelSvc(i) => svcCtx' \in [Services -> Contexts]
  BY DEF TypeOK, CancelSvc, Done, Contexts, Ends
<1>3. TypeOK => \A err \in GroupErrs : RecordError(err) =>
       egCtx' \in Contexts /\ svcCtx' \in [Services -> Contexts] /\ groupErr' \in GroupErrs
  BY <1>1 DEF TypeOK, RecordError, Ends
<1> QED BY <1>1, <1>2, <1>3

\* Every variable keeps its type through every step of runner.go.
LEMMA TypeStep == TypeOK /\ [Next]_vars => TypeOK'
<1> SUFFICES ASSUME TypeOK, [Next]_vars PROVE TypeOK'
  OBVIOUS
<1> USE RunnerAssumption DEF TypeOK, ctxVars, startVars, stopVars
<1>1. CASE CtxEnds BY <1>1, GroupType DEF CtxEnds, Contexts
<1>2. CASE RunNext
  <2>1. CASE Spawn BY <2>1 DEF Spawn, Services
  <2>2. CASE WaitReturns BY <2>2, GroupType DEF WaitReturns, Ends
  <2>3. CASE StopCall BY <2>3, ShareType DEF StopCall
  <2>4. CASE StopReturns
    <3>1. late' \in BOOLEAN BY <2>4 DEF StopReturns
    <3>2. PICK elapsed \in 0..LongestStop : remaining' = Left(elapsed) /\ spent' = spent + elapsed
      BY <2>4 DEF StopReturns
    <3>3. remaining' \in 0..ShutdownTimeout /\ spent' \in Nat
      BY <3>2 DEF Left
    <3>4. stopErrs' \subseteq Services /\ cur' \in 0..N
      BY <2>4 DEF StopReturns, Reverse, Services
    <3> QED BY <2>4, <3>1, <3>3, <3>4 DEF StopReturns
  <2>5. CASE RunReturns BY <2>5 DEF RunReturns
  <2> QED BY <1>2, <2>1, <2>2, <2>3, <2>4, <2>5 DEF RunNext
<1>3. ASSUME NEW i \in Services, ServiceNext(i) PROVE TypeOK'
  <2>1. CASE BecomesReady(i) BY <2>1 DEF BecomesReady
  <2>2. CASE StartReturns(i)
    <3>1. svcCtx[i] \in {"live"} \cup Ends BY DEF Contexts
    <3> QED BY <2>2, <3>1 DEF StartReturns, StartErrs, Ends
  <2>3. CASE StartCollected(i)
    <3>1. startErr[i] \in GroupErrs BY DEF StartErrs, GroupErrs
    <3> QED BY <2>3, <3>1, GroupType DEF StartCollected
  <2>4. CASE WatchReady(i) BY <2>4 DEF WatchReady, WatchGoes
  <2>5. CASE WatchExpires(i) BY <2>5, GroupType DEF WatchExpires, WatchGoes
  <2>6. CASE WatchReports(i) BY <2>6, GroupType DEF WatchReports, WatchGoes, GroupErrs
  <2>7. CASE WatchCancelled(i)
    <3>1. egCtx \in GroupErrs BY <2>7 DEF WatchCancelled, Contexts, GroupErrs
    <3> QED BY <2>7, <3>1, GroupType DEF WatchCancelled, WatchGoes
  <2> QED BY <1>3, <2>1, <2>2, <2>3, <2>4, <2>5, <2>6, <2>7 DEF ServiceNext
<1>4. CASE UNCHANGED vars BY <1>4 DEF vars
<1> QED BY <1>1, <1>2, <1>3, <1>4 DEF Next

\* The initial state has the types.
LEMMA TypeInit == Init => TypeOK
<1> SUFFICES ASSUME Init PROVE TypeOK
  OBVIOUS
<1>1. 0 \in 0..N /\ N \in 0..N /\ 0 \in 0..ShutdownTimeout
      /\ ShutdownTimeout \in 0..ShutdownTimeout
  BY RunnerAssumption
<1>2. svcCtx \in [Services -> Contexts] /\ startErr \in [Services -> StartErrs]
  BY DEF Init, Contexts, StartErrs
<1>3. startPC \in [Services -> {"unborn", "starting", "serving", "returned", "collected"}]
      /\ watchPC \in [Services -> {"none", "watching", "expired", "reported", "returned"}]
      /\ stopPC \in [Services -> {"pending", "stopping", "stopped"}]
  BY DEF Init
<1> QED BY <1>1, <1>2, <1>3 DEF Init, TypeOK, Contexts, GroupErrs

\* Type correctness of the model of runner.go; that the remaining timeout
\* never goes below zero is part of it.
THEOREM TypeCorrect == Spec => []TypeOK
  BY TypeInit, TypeStep, PTL DEF Spec

-----------------------------------------------------------------------------
(* The order of the stops *)

\* Every step keeps the loop invariant.
LEMMA LoopStep == TypeOK /\ LoopInv /\ [Next]_vars => LoopInv'
<1> SUFFICES ASSUME TypeOK, LoopInv, [Next]_vars PROVE LoopInv'
  OBVIOUS
<1> USE RunnerAssumption DEF TypeOK, LoopInv, ctxVars, startVars, stopVars, AllCollected
<1>1. CASE CtxEnds BY <1>1 DEF CtxEnds
<1>2. CASE RunNext
  <2>1. CASE Spawn BY <2>1 DEF Spawn
  <2>2. CASE WaitReturns BY <2>2 DEF WaitReturns
  <2>3. CASE StopCall BY <2>3 DEF StopCall, Reverse, Services
  <2>4. CASE StopReturns BY <2>4 DEF StopReturns, Reverse, Services
  <2>5. CASE RunReturns BY <2>5 DEF RunReturns, LoopEnds
  <2> QED BY <1>2, <2>1, <2>2, <2>3, <2>4, <2>5 DEF RunNext
<1>3. ASSUME NEW i \in Services, ServiceNext(i) PROVE LoopInv'
  <2>1. startPC[i] # "collected" \/ watchPC[i] \in {"watching", "expired"}
    BY <1>3 DEF ServiceNext, BecomesReady, StartReturns, StartCollected, WatchReady,
       WatchExpires, WatchReports, WatchCancelled, WatchGoes
  <2>2. phase = "running" BY <2>1
  <2>3. UNCHANGED <<phase, stopVars>>
    BY <1>3 DEF ServiceNext, BecomesReady, StartReturns, StartCollected, WatchReady,
       WatchExpires, WatchReports, WatchCancelled, WatchGoes
  <2> QED BY <2>2, <2>3
<1>4. CASE UNCHANGED vars BY <1>4 DEF vars
<1> QED BY <1>1, <1>2, <1>3, <1>4 DEF Next

\* The loop invariant holds along every behaviour.
THEOREM LoopInvariant == Spec => [](TypeOK /\ LoopInv)
<1>1. Init => LoopInv BY RunnerAssumption DEF Init, LoopInv, Services
<1> QED BY <1>1, TypeInit, TypeStep, LoopStep, PTL DEF Spec

\* runner.go:130-131,197: no Stop overlaps a Start or a watcher.
THEOREM StopsAfterStarts == Spec => []StopAfterStart
<1>1. LoopInv => StopAfterStart BY DEF LoopInv, StopAfterStart, AllCollected
<1> QED BY <1>1, LoopInvariant, PTL

\* runner.go:205: services stop one after the other, the last one first, and
\* Run does not return before all have.
THEOREM StopsInReverse == Spec => []StoppedInReverse
<1>1. TypeOK /\ LoopInv => StoppedInReverse
  BY RunnerAssumption DEF TypeOK, LoopInv, StoppedInReverse, Services
<1> QED BY <1>1, LoopInvariant, PTL

-----------------------------------------------------------------------------
(* The shutdown budget *)

\* Every step keeps the account of the shutdown time.
LEMMA TimeStep == TypeOK /\ LoopInv /\ TimeInv /\ [Next]_vars => TimeInv'
<1> SUFFICES ASSUME TypeOK, LoopInv, TimeInv, [Next]_vars PROVE TimeInv'
  OBVIOUS
<1> DEFINE q == ShutdownTimeout \div N
<1>1. ASSUME UNCHANGED stopVars PROVE TimeInv'
  BY <1>1 DEF TimeInv, stopVars
<1>2. CASE StopCall
  <2>1. \A i \in Services : stopPC'[i] = "stopping" => budget' = remaining' \div cur'
    BY <1>2 DEF StopCall, Share
  <2> QED BY <1>2, <2>1 DEF StopCall, TimeInv
<1>3. CASE StopReturns
  <2>1. cur \in Services /\ cur \in Nat \ {0} /\ cur' = cur - 1 /\ stopPC[cur] = "stopping"
    BY <1>3, RunnerAssumption DEF StopReturns, TypeOK, Services, Reverse
  <2>2. \A i \in Services : stopPC'[i] # "stopping"
    BY <1>3, <2>1, RunnerAssumption DEF StopReturns, TypeOK, LoopInv, Reverse, Services
  <2>3. ASSUME ~late'
        PROVE  /\ spent' + remaining' = ShutdownTimeout
               /\ N > 0 => remaining' >= cur' * q
    <3>2. PICK e \in 0..LongestStop :
            /\ remaining' = Left(e)
            /\ spent' = spent + e
            /\ late' = (late \/ e > Allowed)
      BY <1>3 DEF StopReturns
    <3>1. ~late /\ ~(e > Allowed) BY <2>3, <3>2
    <3>3. budget = remaining \div cur BY <2>1 DEF TimeInv
    <3>4. remaining \in Nat /\ spent \in Nat /\ remaining \div cur \in Nat
      BY <2>1, DivBounds, RunnerAssumption DEF TypeOK
    <3>5. e \in Nat /\ e <= remaining \div cur
      BY <3>1, <3>2, <3>3, <3>4, RunnerAssumption DEF Allowed
    <3>6. spent + remaining = ShutdownTimeout BY <3>1 DEF TimeInv
    <3>7. e <= remaining
      <4>1. cur * (remaining \div cur) <= remaining BY <2>1, <3>4, DivBounds
      <4> QED BY <2>1, <3>4, <3>5, <4>1, SMT
    <3>8. remaining' = remaining - e BY <3>2, <3>7 DEF Left
    <3>9. ASSUME N > 0 PROVE remaining' >= cur' * q
      <4>1. q \in Nat BY <3>9, DivBounds, RunnerAssumption
      <4>2. remaining >= cur * q BY <3>1, <3>9 DEF TimeInv
      <4> HIDE DEF q
      <4>3. remaining - e >= (cur - 1) * q
        BY <2>1, <3>4, <3>5, <4>1, <4>2, ShareLeft
      <4> QED BY <2>1, <3>8, <4>3
    <3> QED BY <3>2, <3>4, <3>5, <3>6, <3>8, <3>9, RunnerAssumption
  <2> QED BY <2>2, <2>3 DEF TimeInv
<1>4. CASE ~StopCall /\ ~StopReturns /\ Next
  BY <1>1, <1>4 DEF Next, CtxEnds, RunNext, Spawn, WaitReturns, RunReturns, ServiceNext,
     BecomesReady, StartReturns, StartCollected, WatchReady, WatchExpires, WatchReports,
     WatchCancelled, WatchGoes
<1>5. CASE UNCHANGED vars BY <1>1, <1>5 DEF vars
<1> QED BY <1>2, <1>3, <1>4, <1>5

\* The account of the shutdown time holds along every behaviour.
THEOREM TimeInvariant == Spec => [](TypeOK /\ LoopInv /\ TimeInv)
<1>1. Init => TimeInv
  <2> SUFFICES ASSUME Init PROVE TimeInv
    OBVIOUS
  <2>1. N > 0 => ShutdownTimeout >= N * (ShutdownTimeout \div N)
    BY DivBounds, RunnerAssumption
  <2> QED BY <2>1, RunnerAssumption DEF Init, TimeInv
<1> QED BY <1>1, LoopInvariant, TimeStep, PTL DEF Spec

\* runner.go:59: as long as the Stops obey their contexts, the shutdown takes
\* no longer than the timeout.
THEOREM ShutdownIsBounded == Spec => []WithinTimeout
<1>1. TypeOK /\ TimeInv => WithinTimeout
  BY RunnerAssumption DEF TypeOK, TimeInv, WithinTimeout
<1> QED BY <1>1, TimeInvariant, PTL

\* runner.go:208: no Stop that obeys its context costs a later one its share.
THEOREM SharesAreFair == Spec => []FairShare
<1>1. TypeOK /\ LoopInv /\ TimeInv => FairShare
  <2> SUFFICES ASSUME TypeOK, LoopInv, TimeInv, NEW i \in Services, stopPC[i] = "stopping", ~late
               PROVE  budget >= ShutdownTimeout \div N
    BY DEF FairShare
  <2>1. i = cur BY RunnerAssumption DEF TypeOK, LoopInv, Services
  <2>2. N \in Nat \ {0} /\ cur \in Nat \ {0} /\ remaining \in Nat
    BY <2>1, RunnerAssumption DEF TypeOK, Services
  <2>3. ShutdownTimeout \div N \in Nat BY <2>2, DivBounds, RunnerAssumption
  <2>4. remaining >= cur * (ShutdownTimeout \div N)
    BY <2>2 DEF TimeInv
  <2>5. budget = remaining \div cur BY DEF TimeInv
  <2> QED BY <2>2, <2>3, <2>4, <2>5, DivAtLeast
<1> QED BY <1>1, TimeInvariant, PTL

-----------------------------------------------------------------------------
(* The error that Run reports *)

ErrorInv == RootCauseKept /\ ContextInv /\ StartInv /\ ReportInv

\* Giving the group an error keeps ErrorInv's view of the contexts.
LEMMA RecordKeeps ==
  ASSUME TypeOK, ErrorInv, NEW err \in GroupErrs \ {"nil"}, RecordError(err), ctx' = ctx,
         groupErr = "nil" /\ err \in Ends => ctx = err,
         err = "failure" => \E i \in Services : startErr[i] = "failure",
         err = "startDeadline" => \E i \in Services : watchPC'[i] = "reported",
         startErr' = startErr,
         \A i \in Services : watchPC[i] = "reported" => watchPC'[i] = "reported"
  PROVE  /\ RootCauseKept'
         /\ groupErr' # "nil"
         /\ \A i \in Services : svcCtx'[i] = "deadlineExceeded" => ctx' = "deadlineExceeded"
<1>1. CASE groupErr = "nil"
  BY <1>1 DEF TypeOK, ErrorInv, ContextInv, RootCauseKept, RecordError, IsFirst, EndGroup,
     Derived, Done
<1>2. CASE groupErr # "nil"
  BY <1>2 DEF ErrorInv, ContextInv, RootCauseKept, RecordError, IsFirst
<1> QED BY <1>1, <1>2

\* Every step keeps the errors accounted for.
LEMMA ErrorStep == TypeOK /\ LoopInv /\ ErrorInv /\ [Next]_vars => ErrorInv'
<1> SUFFICES ASSUME TypeOK, LoopInv, ErrorInv, [Next]_vars PROVE ErrorInv'
  OBVIOUS
<1> USE DEF ErrorInv, RootCauseKept, ContextInv, StartInv, ReportInv, ctxVars, startVars, stopVars
<1>1. CASE CtxEnds
  BY <1>1 DEF CtxEnds, EndGroup, Derived, Done, Ends, TypeOK
<1>2. CASE RunNext
  <2>1. CASE Spawn
    <3>1. spawned + 1 \in Services /\ spawned' = spawned + 1 /\ spawned \in Nat
      BY <2>1, RunnerAssumption DEF Spawn, TypeOK, Services
    <3>2. watchPC[spawned + 1] = "none" /\ startPC[spawned + 1] = "unborn" BY <3>1
    <3>3. StartInv' BY <2>1, <3>1, <3>2, RunnerAssumption DEF Spawn, TypeOK, Services
    <3>4. RootCauseKept' BY <2>1, <3>1, <3>2 DEF Spawn, TypeOK
    <3>5. ContextInv' /\ ReportInv' BY <2>1, <3>1, <3>2 DEF Spawn, TypeOK
    <3> QED BY <3>3, <3>4, <3>5
  <2>2. CASE WaitReturns BY <2>2 DEF WaitReturns, EndGroup, Derived, Done
  <2>3. CASE StopCall \/ StopReturns \/ RunReturns
    BY <2>3 DEF StopCall, StopReturns, RunReturns
  <2> QED BY <1>2, <2>1, <2>2, <2>3 DEF RunNext
<1>3. ASSUME NEW i \in Services, ServiceNext(i) PROVE ErrorInv'
  <2>1. CASE BecomesReady(i) BY <2>1 DEF BecomesReady, TypeOK
  <2>2. CASE StartReturns(i) BY <2>2 DEF StartReturns, TypeOK
  <2>3. CASE StartCollected(i) /\ IsStartError(startErr[i])
    <3>1. startErr[i] \in GroupErrs \ {"nil"} /\ RecordError(startErr[i]) /\ ctx' = ctx
      BY <2>3 DEF StartCollected, IsStartError, TypeOK, StartErrs, GroupErrs
    <3>2. startErr[i] \in Ends => ctx = startErr[i]
      BY <2>3 DEF IsStartError, Ends
    <3>3. startErr' = startErr /\ watchPC' = watchPC /\ spawned' = spawned
      BY <2>3 DEF StartCollected
    <3>4. /\ RootCauseKept' /\ groupErr' # "nil"
          /\ \A k \in Services : svcCtx'[k] = "deadlineExceeded" => ctx' = "deadlineExceeded"
      <4>1. startErr[i] = "failure" => \E k \in Services : startErr[k] = "failure" OBVIOUS
      <4>2. startErr[i] # "startDeadline" BY DEF TypeOK, StartErrs, Ends
      <4> HIDE DEF ErrorInv, RootCauseKept
      <4> QED BY <3>1, <3>2, <3>3, <4>1, <4>2, RecordKeeps
    <3>5. StartInv' BY <2>3, <3>3 DEF StartCollected, TypeOK
    <3> QED BY <3>1, <3>3, <3>4, <3>5
  <2>4. CASE StartCollected(i) /\ ~IsStartError(startErr[i])
    BY <2>4 DEF StartCollected, IsStartError, CancelSvc, Done, TypeOK
  <2>5. CASE WatchReady(i) BY <2>5 DEF WatchReady, WatchGoes, TypeOK
  <2>6. CASE WatchExpires(i) BY <2>6 DEF WatchExpires, WatchGoes, CancelSvc, Done, TypeOK
  <2>7. CASE WatchReports(i)
    <3>1. "startDeadline" \in GroupErrs \ {"nil"} /\ "startDeadline" \notin Ends
      BY DEF GroupErrs, Ends
    <3>2. /\ startErr' = startErr /\ startPC' = startPC /\ spawned' = spawned
          /\ ctx' = ctx /\ RecordError("startDeadline")
          /\ watchPC'[i] = "reported" /\ watchPC[i] # "none"
          /\ \A k \in Services : k # i => watchPC'[k] = watchPC[k]
      BY <2>7 DEF WatchReports, WatchGoes, TypeOK
    <3>3. /\ RootCauseKept' /\ groupErr' # "nil"
          /\ \A k \in Services : svcCtx'[k] = "deadlineExceeded" => ctx' = "deadlineExceeded"
      <4>1. \A k \in Services : watchPC[k] = "reported" => watchPC'[k] = "reported" BY <3>2
      <4>2. \E k \in Services : watchPC'[k] = "reported" BY <3>2
      <4> HIDE DEF ErrorInv, RootCauseKept
      <4> QED BY <3>1, <3>2, <4>1, <4>2, RecordKeeps
    <3>4. StartInv' BY <3>2
    <3> QED BY <3>2, <3>3, <3>4
  <2>8. CASE WatchCancelled(i)
    <3>1. egCtx \in GroupErrs \ {"nil"} /\ RecordError(egCtx) /\ ctx' = ctx
      BY <2>8 DEF WatchCancelled, TypeOK, Contexts, GroupErrs, Ends
    <3>2. phase = "running" BY <2>8 DEF WatchCancelled, WatchGoes, LoopInv, AllCollected
    <3>3. groupErr = "nil" => ctx = egCtx BY <2>8, <3>2 DEF WatchCancelled
    <3>4. /\ startErr' = startErr /\ startPC' = startPC /\ spawned' = spawned
          /\ watchPC[i] = "watching" /\ watchPC'[i] = "returned"
          /\ \A k \in Services : k # i => watchPC'[k] = watchPC[k]
      BY <2>8 DEF WatchCancelled, WatchGoes, TypeOK
    <3>5. /\ RootCauseKept' /\ groupErr' # "nil"
          /\ \A k \in Services : svcCtx'[k] = "deadlineExceeded" => ctx' = "deadlineExceeded"
      <4>1. \A k \in Services : watchPC[k] = "reported" => watchPC'[k] = "reported" BY <3>4
      <4>2. egCtx \notin {"failure", "startDeadline"} BY DEF TypeOK, Contexts, Ends
      <4> HIDE DEF ErrorInv, RootCauseKept
      <4> QED BY <3>1, <3>3, <3>4, <4>1, <4>2, RecordKeeps
    <3>6. StartInv' BY <3>4
    <3> QED BY <3>1, <3>4, <3>5, <3>6
  <2> QED BY <1>3, <2>1, <2>2, <2>3, <2>4, <2>5, <2>6, <2>7, <2>8 DEF ServiceNext
<1>4. CASE UNCHANGED vars BY <1>4 DEF vars
<1> QED BY <1>1, <1>2, <1>3, <1>4 DEF Next

\* The errors are accounted for along every behaviour.
THEOREM ErrorInvariant == Spec => [](TypeOK /\ LoopInv /\ ErrorInv)
<1>1. Init => ErrorInv
  BY RunnerAssumption DEF Init, ErrorInv, RootCauseKept, ContextInv, StartInv, ReportInv, Ends
<1> QED BY <1>1, LoopInvariant, ErrorStep, PTL DEF Spec

\* runner.go:157,187,190: the error that Run reports is a cause: the end of
\* Run's own context, the failure of a Start or a missed deadline.
THEOREM RootCause == Spec => []RootCauseKept
<1>1. ErrorInv => RootCauseKept BY DEF ErrorInv
<1> QED BY <1>1, ErrorInvariant, PTL

\* runner.go:123: Run returns nil only if nothing failed.
THEOREM NilIsClean == Spec => []NilMeansClean
<1>1. LoopInv /\ ErrorInv => NilMeansClean
  BY DEF LoopInv, AllCollected, ErrorInv, ReportInv, NilMeansClean
<1> QED BY <1>1, ErrorInvariant, PTL
=============================================================================
