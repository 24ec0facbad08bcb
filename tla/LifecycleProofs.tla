--------------------------- MODULE LifecycleProofs ---------------------------
(***************************************************************************)
(* Proofs about Lifecycle, for any number of Start, Stop and WaitReady     *)
(* calls on one instance.                                                  *)
(***************************************************************************)
EXTENDS Lifecycle, TLAPS

\* The places of a Start call before its locked section.
Early == {"idle", "connecting", "connected"}

\* A resource is acquired by a Connect that has returned.
OpenedAfterConnect ==
  \A p \in opened : startPC[p] \notin {"idle", "connecting"}

\* l.stopFunc is the closure of a resource whose Start is past its locked
\* section.
StoredIsOpen ==
  stopFunc # None => stopFunc \in opened /\ Stored(stopFunc)

\* A closure is invoked by Start after its locked section, or by Stop, which
\* sets l.stopped and so never does it again.
InvokedLate == \A p \in Starters : startPC[p] \in Early => calls[p] = 0
InvokedWhenStopped == ~stopped => \A p \in Starters : calls[p] = 0
InvokedIsOpen == \A p \in Starters : calls[p] # 0 => p \in opened

\* Once l.stopped is set, the stored closure has been invoked, and so has
\* that of a Start call that found l.stopped set.
StopInvoked == stopped /\ stopFunc # None => calls[stopFunc] = 1
LateReleased ==
  \A p \in opened : startPC[p] \in {"releasing", "stopped"} => calls[p] = 1

\* A resource whose Start stored its closure is the one Stop will find,
\* unless another Start call has stored since.
StoredIsFound ==
  \A p \in opened :
    Stored(p) /\ (\A q \in Starters \ {p} : ~Stored(q)) => stopFunc = p

\* No Start call fails once it has acquired its resource.
FailedIsNotOpen == \A p \in opened : startPC[p] # "failed"

Inv ==
  /\ TypeOK
  /\ OpenedAfterConnect
  /\ StoredIsOpen
  /\ InvokedLate
  /\ InvokedWhenStopped
  /\ InvokedIsOpen
  /\ ReleaseAtMostOnce
  /\ StopInvoked
  /\ LateReleased
  /\ StoredIsFound
  /\ FailedIsNotOpen

\* A Stop call that is in its closure holds l.mu; the others have not got
\* through, so none has returned.
MutexInv ==
  /\ \A s \in Stoppers : stopPC[s] = "closing" => mu = s
  /\ StopWaitsForRelease
  /\ (\E s \in Stoppers : stopPC[s] \in {"closing", "returned"}) => stopped

-----------------------------------------------------------------------------
\* Every variable keeps its type through every step of Start, Stop and
\* WaitReady.
LEMMA TypeStep == TypeOK /\ [Next]_vars => TypeOK'
<1> SUFFICES ASSUME TypeOK, [Next]_vars PROVE TypeOK'
  OBVIOUS
<1> USE DEF TypeOK
<1>1. ASSUME NEW p \in Starters, StartNext(p) PROVE TypeOK'
  <2>1. CASE StartCall(p) BY <2>1 DEF StartCall, GoStart, StartPCs
  <2>2. CASE ConnectReturns(p) BY <2>2 DEF ConnectReturns, GoStart, StartPCs
  <2>3. CASE StartReleases(p)
    BY <2>3 DEF StartReleases, GoStart, StartPCs, Invoke, MuAtLateRelease
  <2>4. CASE StartStores(p) BY <2>4 DEF StartStores, GoStart, StartPCs
  <2>5. CASE StartReleased(p) BY <2>5 DEF StartReleased, GoStart, StartPCs
  <2>6. CASE CloseReady(p) BY <2>6 DEF CloseReady, GoStart, StartPCs
  <2>7. CASE StartWakes(p) BY <2>7 DEF StartWakes, GoStart, StartPCs
  <2> QED BY <1>1, <2>1, <2>2, <2>3, <2>4, <2>5, <2>6, <2>7 DEF StartNext
<1>2. ASSUME NEW s \in Stoppers, StopNext(s) PROVE TypeOK'
  <2>1. CASE StopCall(s) BY <2>1 DEF StopCall, GoStop, StopPCs
  <2>2. CASE StopLocks(s)
    BY <2>2 DEF StopLocks, GoStop, StopPCs, Invoke, MuOverClosure
  <2>3. CASE StopReleased(s) BY <2>3 DEF StopReleased, GoStop, StopPCs, MuReleased
  <2> QED BY <1>2, <2>1, <2>2, <2>3 DEF StopNext
<1>3. ASSUME NEW w \in Waiters, WaitReturns(w) PROVE TypeOK'
  BY <1>3 DEF WaitReturns, WaitPCs
<1>4. ASSUME NEW c \in Starters \cup Waiters, Cancel(c) PROVE TypeOK'
  BY <1>4 DEF Cancel
<1>5. CASE UNCHANGED vars BY <1>5 DEF vars
<1> QED BY <1>1, <1>2, <1>3, <1>4, <1>5 DEF Next

\* The invariant holds before any call.
LEMMA InitInv == Init => Inv /\ MutexInv
<1> SUFFICES ASSUME Init PROVE Inv /\ MutexInv
  OBVIOUS
<1> USE DEF Init
<1>1. TypeOK BY DEF TypeOK, StartPCs, StopPCs, WaitPCs
<1>2. OpenedAfterConnect /\ StoredIsOpen /\ LateReleased /\ StoredIsFound /\ FailedIsNotOpen
  BY DEF OpenedAfterConnect, StoredIsOpen, LateReleased, StoredIsFound, FailedIsNotOpen
<1>3. InvokedLate /\ InvokedWhenStopped /\ InvokedIsOpen /\ ReleaseAtMostOnce /\ StopInvoked
  BY DEF InvokedLate, InvokedWhenStopped, InvokedIsOpen, ReleaseAtMostOnce, StopInvoked
<1>4. MutexInv BY DEF MutexInv, StopWaitsForRelease
<1> QED BY <1>1, <1>2, <1>3, <1>4 DEF Inv

\* Every step keeps the invariant.
LEMMA InvStep == Inv /\ [Next]_vars => Inv'
<1> SUFFICES ASSUME Inv, [Next]_vars PROVE Inv'
  OBVIOUS
<1>0. TypeOK' BY TypeStep DEF Inv
<1> USE <1>0, NoneAssumption DEF Inv, TypeOK, OpenedAfterConnect, StoredIsOpen,
      InvokedLate, InvokedWhenStopped, InvokedIsOpen, ReleaseAtMostOnce,
      StopInvoked, LateReleased, StoredIsFound, FailedIsNotOpen, Stored, Early
<1>1. ASSUME NEW p \in Starters, StartNext(p) PROVE Inv'
  <2>1. CASE StartCall(p) BY <2>1 DEF StartCall, GoStart
  <2>2. CASE ConnectReturns(p) BY <2>2 DEF ConnectReturns, GoStart
  <2>3. CASE StartReleases(p)
    BY <2>3 DEF StartReleases, StoppedMeanwhile, GoStart, Invoke, MuAtLateRelease
  <2>4. CASE StartStores(p) BY <2>4 DEF StartStores, StoppedMeanwhile, GoStart
  <2>5. CASE StartReleased(p) BY <2>5 DEF StartReleased, GoStart
  <2>6. CASE CloseReady(p) BY <2>6 DEF CloseReady, GoStart
  <2>7. CASE StartWakes(p) BY <2>7 DEF StartWakes, GoStart
  <2> QED BY <1>1, <2>1, <2>2, <2>3, <2>4, <2>5, <2>6, <2>7 DEF StartNext
<1>2. ASSUME NEW s \in Stoppers, StopNext(s) PROVE Inv'
  <2>1. CASE StopCall(s) BY <2>1 DEF StopCall
  <2>2. CASE StopLocks(s) BY <2>2 DEF StopLocks, AlreadyStopped, Invoke
  <2>3. CASE StopReleased(s) BY <2>3 DEF StopReleased
  <2> QED BY <1>2, <2>1, <2>2, <2>3 DEF StopNext
<1>3. ASSUME NEW w \in Waiters, WaitReturns(w) PROVE Inv'
  BY <1>3 DEF WaitReturns
<1>4. ASSUME NEW c \in Starters \cup Waiters, Cancel(c) PROVE Inv'
  BY <1>4 DEF Cancel
<1>5. CASE UNCHANGED vars BY <1>5 DEF vars
<1> QED BY <1>1, <1>2, <1>3, <1>4, <1>5 DEF Next

\* Every step keeps l.mu with the Stop call whose closure runs.
LEMMA MutexStep == Inv /\ MutexInv /\ [Next]_vars => MutexInv'
<1> SUFFICES ASSUME Inv, MutexInv, [Next]_vars PROVE MutexInv'
  OBVIOUS
<1> USE NoneAssumption DEF Inv, TypeOK, MutexInv, StopWaitsForRelease
<1>1. ASSUME NEW p \in Starters, StartNext(p) PROVE MutexInv'
  BY <1>1 DEF StartNext, StartCall, ConnectReturns, StartReleases, MuAtLateRelease,
     StartStores, StartReleased, CloseReady, StartWakes
<1>2. ASSUME NEW s \in Stoppers, StopNext(s) PROVE MutexInv'
  <2>1. CASE StopCall(s) BY <2>1 DEF StopCall, GoStop
  <2>2. CASE StopLocks(s) BY <2>2 DEF StopLocks, GoStop, AlreadyStopped, MuOverClosure
  <2>3. CASE StopReleased(s) BY <2>3 DEF StopReleased, GoStop, MuReleased
  <2> QED BY <1>2, <2>1, <2>2, <2>3 DEF StopNext
<1>3. ASSUME NEW w \in Waiters, WaitReturns(w) PROVE MutexInv'
  BY <1>3 DEF WaitReturns
<1>4. ASSUME NEW c \in Starters \cup Waiters, Cancel(c) PROVE MutexInv'
  BY <1>4 DEF Cancel
<1>5. CASE UNCHANGED vars BY <1>5 DEF vars
<1> QED BY <1>1, <1>2, <1>3, <1>4, <1>5 DEF Next

\* The inductive invariant, for any set of racing calls.
THEOREM Invariance == Spec => [](Inv /\ MutexInv)
  BY InitInv, InvStep, MutexStep, PTL DEF Spec

-----------------------------------------------------------------------------
\* Type correctness of the model of lifecycle.go.
THEOREM TypeCorrect == Spec => []TypeOK
<1>1. Inv => TypeOK BY DEF Inv
<1> QED BY <1>1, Invariance, PTL

\* lifecycle.go:73 for any number of Start and Stop calls: no stop closure is
\* ever invoked twice.
THEOREM AtMostOnce == Spec => []ReleaseAtMostOnce
<1>1. Inv => ReleaseAtMostOnce BY DEF Inv
<1> QED BY <1>1, Invariance, PTL

\* lifecycle.go:10-11: after Stop, a resource whose Start is past its locked
\* section and was not overwritten by another Start has been released.
THEOREM NothingLeaks == Spec => []NoLeak
<1>1. Inv => NoLeak
  <2> SUFFICES ASSUME Inv, NEW p \in opened, stopped, startPC[p] # "connected",
                      \A q \in Starters \ {p} : ~Stored(q)
               PROVE  calls[p] = 1
    BY DEF NoLeak
  <2>1. CASE Stored(p)
    <3>1. stopFunc = p BY <2>1 DEF Inv, StoredIsFound
    <3>2. p # None BY NoneAssumption DEF Inv, TypeOK
    <3> QED BY <3>1, <3>2 DEF Inv, StopInvoked
  <2>2. CASE ~Stored(p)
    <3>1. startPC[p] \in {"releasing", "stopped"}
      BY <2>2 DEF Inv, TypeOK, StartPCs, Stored, OpenedAfterConnect, FailedIsNotOpen
    <3> QED BY <3>1 DEF Inv, LateReleased
  <2> QED BY <2>1, <2>2
<1> QED BY <1>1, Invariance, PTL

\* lifecycle.go:78-87: no Stop call returns while the closure invoked by
\* another one runs.
THEOREM StopIsExclusive == Spec => []StopWaitsForRelease
<1>1. MutexInv => StopWaitsForRelease BY DEF MutexInv
<1> QED BY <1>1, Invariance, PTL

-----------------------------------------------------------------------------
\* A step of Lifecycle acquires or releases one resource, as ReleaseOnce
\* allows, or leaves every resource as it is.
LEMMA RefinementStep == Inv /\ [Next]_vars => [Abstract!Next]_resource
<1> SUFFICES ASSUME Inv, [Next]_vars PROVE [Abstract!Next]_resource
  OBVIOUS
<1> USE DEF Inv, TypeOK
<1>1. ASSUME UNCHANGED <<opened, calls>> PROVE UNCHANGED resource
  BY <1>1 DEF resource
<1>2. ASSUME NEW p \in Starters, p \in opened, calls[p] = 0, Invoke(p), opened' = opened
      PROVE  Abstract!Release(p)
  <2>1. calls' \in [Starters -> Nat] /\ calls'[p] = 1
        /\ \A q \in Starters \ {p} : calls'[q] = calls[q]
    BY <1>2 DEF Invoke
  <2>2. resource[p] = "open" BY <1>2 DEF resource
  <2>3. \A q \in Starters : resource'[q] = IF q = p THEN "released" ELSE resource[q]
    BY <1>2, <2>1 DEF resource
  <2>4. resource' = [resource EXCEPT ![p] = "released"]
    BY <2>3 DEF resource
  <2> QED BY <2>2, <2>4 DEF Abstract!Release
<1>3. ASSUME NEW p \in Starters, p \notin opened, calls[p] = 0, calls' = calls,
             opened' = opened \cup {p}
      PROVE  Abstract!Acquire(p)
  <2>1. resource[p] = "absent" BY <1>3 DEF resource
  <2>2. \A q \in Starters : resource'[q] = IF q = p THEN "open" ELSE resource[q]
    BY <1>3 DEF resource
  <2>3. resource' = [resource EXCEPT ![p] = "open"] BY <2>2 DEF resource
  <2> QED BY <2>1, <2>3 DEF Abstract!Acquire
<1>4. ASSUME NEW p \in Starters, StartNext(p) PROVE [Abstract!Next]_resource
  <2>1. CASE ConnectReturns(p)
    <3>1. p \notin opened /\ calls[p] = 0 /\ calls' = calls
      BY <2>1 DEF ConnectReturns, GoStart, OpenedAfterConnect, InvokedLate, Early
    <3>2. opened' = opened \/ opened' = opened \cup {p}
      BY <2>1 DEF ConnectReturns
    <3> QED BY <3>1, <3>2, <1>1, <1>3 DEF Abstract!Next
  <2>2. CASE StartReleases(p)
    <3>1. calls[p] = 0 /\ opened' = opened
      BY <2>2 DEF StartReleases, GoStart, InvokedLate, Early
    <3>2. (p \in opened /\ Invoke(p)) \/ calls' = calls
      BY <2>2 DEF StartReleases
    <3> QED BY <3>1, <3>2, <1>1, <1>2 DEF Abstract!Next
  <2>3. CASE ~ConnectReturns(p) /\ ~StartReleases(p)
    BY <1>4, <2>3, <1>1
       DEF StartNext, StartCall, StartStores, StartReleased, CloseReady, StartWakes
  <2> QED BY <2>1, <2>2, <2>3
<1>5. ASSUME NEW s \in Stoppers, StopNext(s) PROVE [Abstract!Next]_resource
  <2>1. CASE StopLocks(s)
    <3>1. opened' = opened BY <2>1 DEF StopLocks
    <3>2. CASE ~AlreadyStopped /\ stopFunc # None /\ Invoke(stopFunc)
      <4>1. stopFunc \in Starters /\ stopFunc \in opened /\ calls[stopFunc] = 0
        BY <3>2 DEF AlreadyStopped, InvokedWhenStopped, StoredIsOpen
      <4> QED BY <4>1, <3>1, <3>2, <1>2 DEF Abstract!Next
    <3>3. CASE calls' = calls BY <3>1, <3>3, <1>1
    <3> QED BY <2>1, <3>2, <3>3 DEF StopLocks
  <2>2. CASE ~StopLocks(s)
    BY <1>5, <2>2, <1>1 DEF StopNext, StopCall, StopReleased
  <2> QED BY <2>1, <2>2
<1>6. ASSUME NEW w \in Waiters, WaitReturns(w) PROVE [Abstract!Next]_resource
  BY <1>6, <1>1 DEF WaitReturns
<1>7. ASSUME NEW c \in Starters \cup Waiters, Cancel(c) PROVE [Abstract!Next]_resource
  BY <1>7, <1>1 DEF Cancel
<1>8. CASE UNCHANGED vars BY <1>8, <1>1 DEF vars
<1> QED BY <1>4, <1>5, <1>6, <1>7, <1>8 DEF Next

\* Lifecycle implements ReleaseOnce for any number of calls: every resource
\* is absent, then open, then released, and never goes back.
THEOREM Refinement == Spec => ImplementsReleaseOnce
<1>1. Init => Abstract!Init BY DEF Init, Abstract!Init, resource
<1> QED BY <1>1, RefinementStep, Invariance, PTL
        DEF Spec, ImplementsReleaseOnce, Abstract!Spec
=============================================================================
