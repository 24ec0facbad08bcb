------------------------------ MODULE AppProofs ------------------------------
(***************************************************************************)
(* Proofs about App and the Connect it extends, for any set of requests    *)
(* and any retry policy.                                                   *)
(***************************************************************************)
EXTENDS App, Foundations, TLAPS

RequestStates == {"new", "cacheGet", "db", "conn", "cacheSet",
                  "answered", "panicked", "nilPool", "closedPool"}

Types ==
  /\ cpc \in [Backends -> {"attempt", "ping", "backoff", "connected", "failed", "cancelled"}]
  /\ live \in [Backends -> Int]
  /\ handle \in [Backends -> {"nil", "open", "closing", "closed"}]
  /\ ready \in [Backends -> BOOLEAN]
  /\ server \in {"starting", "serving", "failed"}
  /\ accepting \in BOOLEAN
  /\ phase \in {"run", "draining", "stopCache", "stopDb", "closingPool", "exited"}
  /\ serverStop \in {"pending", "nil", "error"}
  /\ rpc \in [Requests -> RequestStates]

\* A stored pool belongs to a Connect that has succeeded, and is closed only
\* at its place in the shutdown, which begins when every Connect has returned.
PoolInv ==
  /\ \A b \in Backends : (handle[b] = "nil") <=> (cpc[b] # "connected")
  /\ \A b \in Backends : ready[b] => cpc[b] = "connected"
  /\ phase # "run" => \A b \in Backends : cpc[b] # "ping"
  /\ handle["cache"] \in {"closing", "closed"} => phase \notin {"run", "draining", "stopCache"}
  /\ handle["cache"] # "closing"
  /\ handle["db"] \in {"closing", "closed"} => phase \in {"closingPool", "exited"}
  /\ phase = "closingPool" => handle["db"] = "closing"
  /\ EveryPoolAccounted

\* Only an HTTP server that has served leaves requests behind, and then its
\* Stop has said so.
ServerInv ==
  /\ accepting => server = "serving" /\ phase = "run"
  /\ server # "serving" => Active = {}
  /\ phase \in {"run", "draining"} => serverStop = "pending"
  /\ phase \notin {"run", "draining"} => serverStop # "pending"
  /\ serverStop = "nil" => Active = {}
  /\ GateHolds
  /\ ClosedOnlyIfReported

IInv == Types /\ PoolInv /\ ServerInv

LEMMA InitHolds == Init => IInv
<1> SUFFICES ASSUME Init PROVE IInv
  OBVIOUS
<1>1. Types
  <2>1. /\ cpc \in [Backends -> {"attempt", "ping", "backoff", "connected", "failed", "cancelled"}]
        /\ handle \in [Backends -> {"nil", "open", "closing", "closed"}]
    BY DEF Init, ConnectInit
  <2>2. live \in [Backends -> Int] /\ ready \in [Backends -> BOOLEAN] BY DEF Init, ConnectInit
  <2>3. rpc \in [Requests -> RequestStates] BY DEF Init, RequestStates
  <2> QED BY <2>1, <2>2, <2>3 DEF Init, Types
<1>2. PoolInv BY DEF Init, ConnectInit, PoolInv, Backends, EveryPoolAccounted
<1>3. ServerInv
  <2>1. \A q \in Requests : rpc[q] = "new" BY DEF Init
  <2>2. Active = {} BY <2>1 DEF Active
  <2> QED BY <2>1, <2>2 DEF Init, ServerInv, GateHolds, ClosedOnlyIfReported
<1> QED BY <1>1, <1>2, <1>3 DEF IInv

-----------------------------------------------------------------------------
(* Connecting *)

\* What a step of retry.Do and of the closure around it does to the pools.
LEMMA ConnectFacts ==
  ASSUME IInv, NEW b \in Backends, NEW done \in BOOLEAN, ConnectStep(b, done), phase = "run"
  PROVE  /\ cpc' \in [Backends -> {"attempt", "ping", "backoff", "connected", "failed", "cancelled"}]
         /\ live' \in [Backends -> Int]
         /\ handle' \in [Backends -> {"nil", "open", "closing", "closed"}]
         /\ ready' \in [Backends -> BOOLEAN]
         /\ \A a \in Backends \ {b} : /\ cpc'[a] = cpc[a] /\ live'[a] = live[a]
                                      /\ handle'[a] = handle[a] /\ ready'[a] = ready[a]
         /\ (handle'[b] = "nil") <=> (cpc'[b] # "connected")
         /\ handle'[b] \in {"nil", "open"}
         /\ ready'[b] => cpc'[b] = "connected"
         /\ live'[b] = IF cpc'[b] = "ping" \/ handle'[b] \in {"open", "closing"} THEN 1 ELSE 0
<1> USE DEF IInv, Types, Leaves
<1>1. /\ (handle[b] = "nil") <=> (cpc[b] # "connected")
      /\ handle[b] \in {"nil", "open"} /\ (ready[b] => cpc[b] = "connected")
      /\ live[b] = IF cpc[b] = "ping" \/ handle[b] \in {"open", "closing"} THEN 1 ELSE 0
  BY DEF PoolInv, EveryPoolAccounted, Backends
<1>2. CASE Create(b, done) BY <1>1, <1>2 DEF Create, AttemptFails
<1>3. CASE PingFails(b) BY <1>1, <1>3 DEF PingFails, AttemptFails
<1>4. CASE PingAnswers(b) BY <1>1, <1>4 DEF PingAnswers
<1>5. CASE SignalReady(b) BY <1>1, <1>5 DEF SignalReady
<1>6. CASE TimerFires(b) BY <1>1, <1>6 DEF TimerFires
<1>7. CASE Interrupted(b, done) BY <1>1, <1>7 DEF Interrupted
<1> QED BY <1>2, <1>3, <1>4, <1>5, <1>6, <1>7 DEF ConnectStep

LEMMA ConnectsHolds ==
  ASSUME IInv, NEW b \in Backends, Connects(b)
  PROVE  IInv'
<1>1. ConnectStep(b, GroupDone) /\ phase = "run" /\ phase' = phase /\ rpc' = rpc
      /\ server' = server /\ accepting' = accepting /\ serverStop' = serverStop
  BY DEF Connects
<1>2. PICK done \in BOOLEAN : ConnectStep(b, done)
  <2>1. CASE GroupDone BY <1>1, <2>1 DEF ConnectStep, Create, Interrupted
  <2>2. CASE ~GroupDone BY <1>1, <2>2 DEF ConnectStep, Create, Interrupted
  <2> QED BY <2>1, <2>2
<1>3. Types' BY <1>1, <1>2, ConnectFacts DEF IInv, Types
<1>4. PoolInv' BY <1>1, <1>2, ConnectFacts DEF IInv, PoolInv, EveryPoolAccounted, Backends
<1>5. ServerInv'
  BY <1>1 DEF IInv, ServerInv, Active, GateHolds, ClosedOnlyIfReported
<1> QED BY <1>3, <1>4, <1>5 DEF IInv

-----------------------------------------------------------------------------
(* Requests *)

\* A request moves on: it may become active only while the server accepts or
\* if it was active already, and it meets a closed pool only when Stop has
\* reported that.
LEMMA ProceedsHolds ==
  ASSUME IInv, NEW q \in Requests, NEW to \in RequestStates, Proceeds(q, to),
         to # "nilPool",
         to = "closedPool" => serverStop = "error",
         to \in {"cacheGet", "db", "conn", "cacheSet"} => q \in Active \/ accepting
  PROVE  IInv'
<1>1. rpc' = [rpc EXCEPT ![q] = to] BY DEF Proceeds
<1>2. Types' BY <1>1 DEF IInv, Types, Proceeds, connectVars, appVars
<1>3. PoolInv'
  BY DEF IInv, PoolInv, EveryPoolAccounted, Proceeds, connectVars, appVars
<1>4. Active' \subseteq Active \cup (IF q \in Active \/ accepting THEN {q} ELSE {})
  BY <1>1 DEF Active, IInv, Types
<1>5. accepting => server = "serving" /\ serverStop = "pending" BY DEF IInv, ServerInv
<1>6. ServerInv'
  BY <1>1, <1>4, <1>5 DEF IInv, Types, ServerInv, GateHolds, ClosedOnlyIfReported,
     Proceeds, connectVars, appVars
<1> QED BY <1>2, <1>3, <1>6 DEF IInv

LEMMA RequestHolds ==
  ASSUME IInv, NEW q \in Requests, Arrives(q) \/ Serve(q)
  PROVE  IInv'
<1>1. CASE Arrives(q)
  <2>1. PICK to \in {"cacheGet", "db"} : Proceeds(q, to) BY <1>1 DEF Arrives
  <2>2. accepting BY <1>1 DEF Arrives
  <2> QED BY <2>1, <2>2, ProceedsHolds DEF RequestStates
<1>2. CASE CacheCall(q)
  <2>1. PICK to \in {"panicked", "db", "answered"} : Proceeds(q, to) BY <1>2 DEF CacheCall
  <2>2. q \in Active BY <1>2 DEF CacheCall, Active
  <2> QED BY <2>1, <2>2, ProceedsHolds DEF RequestStates
<1>3. CASE DbCall(q)
  <2>1. Proceeds(q, DbAnswer[handle["db"]]) /\ q \in Active BY <1>3 DEF DbCall, Active
  <2>2. handle["db"] \in {"open", "closing", "closed"}
    BY <1>3 DEF DbCall, PassesGate, IInv, Types, PoolInv, Backends
  <2>3. DbAnswer[handle["db"]] \in {"conn", "closedPool"} BY <2>2 DEF DbAnswer
  <2>4. handle["db"] # "open" => serverStop = "error"
    BY <2>1, <2>2 DEF IInv, Types, PoolInv, ServerInv
  <2>5. handle["db"] = "open" => DbAnswer[handle["db"]] = "conn" BY DEF DbAnswer
  <2>6. PICK to \in {"conn", "closedPool"} :
          Proceeds(q, to) /\ (to = "closedPool" => serverStop = "error")
    BY <2>1, <2>3, <2>4, <2>5
  <2> QED BY <2>1, <2>6, ProceedsHolds DEF RequestStates
<1>4. CASE DbDone(q)
  <2>1. PICK to \in {"cacheSet", "answered"} : Proceeds(q, to) BY <1>4 DEF DbDone
  <2>2. q \in Active BY <1>4 DEF DbDone, Active
  <2> QED BY <2>1, <2>2, ProceedsHolds DEF RequestStates
<1>5. CASE GateTimesOut(q)
  <2>1. Proceeds(q, "answered") BY <1>5 DEF GateTimesOut
  <2> QED BY <2>1, ProceedsHolds DEF RequestStates
<1> QED BY <1>1, <1>2, <1>3, <1>4, <1>5 DEF Serve

-----------------------------------------------------------------------------
(* Starting and stopping the server, and the shutdown *)

LEMMA StopHolds == ASSUME IInv, Stopping PROVE IInv'
<1> USE DEF IInv, Types, Backends
<1>1. CASE StopServer
  <2>1. \A b \in Backends : cpc[b] # "ping"
    BY <1>1 DEF StopServer, StartsReturned, PoolInv
  <2> QED BY <1>1, <2>1 DEF StopServer, PoolInv, ServerInv, EveryPoolAccounted, Active, GateHolds,
             ClosedOnlyIfReported, connectVars
<1>2. CASE Drains
  BY <1>2 DEF Drains, PoolInv, ServerInv, EveryPoolAccounted, Active, GateHolds,
     ClosedOnlyIfReported, connectVars
<1>3. CASE StopCache
  BY <1>3 DEF StopCache, PoolInv, ServerInv, EveryPoolAccounted, Active, GateHolds,
     ClosedOnlyIfReported
<1>4. CASE StopDb
  BY <1>4 DEF StopDb, PoolInv, ServerInv, EveryPoolAccounted, Active, GateHolds,
     ClosedOnlyIfReported
<1>5. CASE PoolClosed
  BY <1>5 DEF PoolClosed, PoolInv, ServerInv, EveryPoolAccounted, Active, GateHolds,
     ClosedOnlyIfReported
<1> QED BY <1>1, <1>2, <1>3, <1>4, <1>5 DEF Stopping

LEMMA StepHolds == IInv /\ [Next]_vars => IInv'
<1> SUFFICES ASSUME IInv, [Next]_vars PROVE IInv'
  OBVIOUS
<1> USE DEF IInv, Types, PoolInv, ServerInv, EveryPoolAccounted, Active, GateHolds,
            ClosedOnlyIfReported, connectVars
<1>1. CASE Cancel BY <1>1 DEF Cancel
<1>2. CASE Listen
  <2>1. server = "starting" /\ phase = "run" BY <1>2 DEF Listen
  <2>2. Active = {} /\ Active' = {} BY <1>2, <2>1 DEF Listen
  <2>3. Types' BY <1>2 DEF Listen
  <2>4. PoolInv' BY <1>2 DEF Listen
  <2>5. ServerInv' BY <1>2, <2>1, <2>2 DEF Listen
  <2> QED BY <2>3, <2>4, <2>5
<1>3. CASE ServeFails BY <1>3 DEF ServeFails
<1>4. CASE UNCHANGED vars BY <1>4 DEF vars, appVars
<1> QED BY <1>1, <1>2, <1>3, <1>4, ConnectsHolds, RequestHolds, StopHolds DEF Next

\* The inductive invariant of the starting, serving and stopping program
\* (runner.go:124-233 with database.go:61-92, cache.go:97-123, server.go:106-138).
THEOREM Inductive == Spec => []IInv
BY InitHolds, StepHolds, PTL DEF Spec

\* Whatever the attempts do, no pool or client is left open but the one in use
\* (database.go:69-91, cache.go:105-122).
THEOREM PoolsAccounted == Spec => []EveryPoolAccounted
<1>1. IInv => EveryPoolAccounted BY DEF IInv, PoolInv
<1> QED BY <1>1, Inductive, PTL

\* No request gets past the readiness gate to a nil pool (txmanager.go:91-119,
\* 158-162, database.go:184-219).
THEOREM GateKeeps == Spec => []GateHolds
<1>1. IInv => GateHolds BY DEF IInv, ServerInv
<1> QED BY <1>1, Inductive, PTL

\* A request finds the pool closed only if HTTPServer.Stop has reported an
\* error (runner.go:205, server.go:130-133, database.go:89).
THEOREM ClosedIsReported == Spec => []ClosedOnlyIfReported
<1>1. IInv => ClosedOnlyIfReported BY DEF IInv, ServerInv
<1> QED BY <1>1, Inductive, PTL

-----------------------------------------------------------------------------
(* The backoff *)

\* One more than the longest time.Duration.
Half == 2^(Width - 1)

\* Until retry.Do has slept for nearly that long, it has slept for all the
\* backoffs so far, and the one it has armed is no shorter than it should be.
WaitInv ==
  /\ attempt \in [Backends -> Nat]
  /\ waited \in [Backends -> Nat]
  /\ delay \in [Backends -> Int]
  /\ \A b \in Backends :
       \/ waited[b] + 2 * Base >= Half
       \/ /\ waited[b] + Base >= Base * 2^attempt[b]
          /\ cpc[b] = "backoff" => delay[b] >= Base * 2^attempt[b]

LEMMA HalfPos == Half \in Nat /\ Half >= 1
<1>1. Width - 1 \in Nat BY ConnectAssumption
<1> QED BY <1>1, PowPos DEF Half

LEMMA Fits ==
  ASSUME NEW n \in Nat, n < Half
  PROVE  Wrap(n) = n
<1>1. Width \in Nat \ {0} BY ConnectAssumption
<1>2. -(2^(Width - 1)) <= n BY HalfPos DEF Half
<1> QED BY <1>1, <1>2, WrapFits DEF Wrap, Half

LEMMA WrapType == \A n \in Int : Wrap(n) \in Int
BY ConnectAssumption, WrapInt DEF Wrap

LEMMA JitterBound ==
  ASSUME NEW j \in Jitters
  PROVE  j \in Nat /\ j <= Base
<1>1. Base \in Nat BY ConnectAssumption
<1>2. Base \div 2 \in Nat /\ Base \div 2 <= Base BY <1>1
<1>3. j = 0 \/ j \in 0..(Base \div 2 - 1) BY DEF Jitters
<1> QED BY <1>1, <1>2, <1>3

\* The shift, the product and the jitter stay in range as long as retry.Do has
\* slept for less.
LEMMA BackoffFits ==
  ASSUME NEW a \in Nat, NEW j \in Jitters, NEW w \in Nat,
         w + Base >= Base * 2^a, ~(w + 2 * Base >= Half)
  PROVE  Wrap(Backoff(a) + j) >= Base * 2^a
<1> DEFINE p == 2^a
           c == Base * p
<1>1. Base \in Nat /\ j \in Nat /\ j <= Base BY ConnectAssumption, JitterBound
<1>2. p \in Nat /\ p >= 1 BY PowPos
<1>3. w + Base >= c OBVIOUS
<1>4. Wrap(Base * Wrap(p)) = c
  <2>1. CASE Base = 0
    <3>1. Wrap(p) \in Int BY <1>2, WrapType
    <3>2. Base * Wrap(p) = 0 /\ c = 0 BY <1>2, <2>1, <3>1
    <3> QED BY <3>2, HalfPos, Fits
  <2>2. CASE Base # 0
    <3> HIDE DEF p
    <3>1. c \in Nat /\ p <= c BY <1>1, <1>2, <2>2
    <3> HIDE DEF c
    <3>2. c < Half BY <1>1, <1>3, <3>1, HalfPos
    <3>3. p < Half BY <1>2, <3>1, <3>2, HalfPos
    <3>4. Wrap(p) = p /\ Wrap(c) = c BY <1>2, <3>1, <3>2, <3>3, Fits
    <3> QED BY <3>4 DEF c
  <2> QED BY <2>1, <2>2
<1>5. c \in Nat BY <1>1, <1>2
<1>6. Backoff(a) = c BY <1>4 DEF Backoff
<1> HIDE DEF c, p
<1>7. c + j \in Nat /\ c + j < Half BY <1>1, <1>3, <1>5, HalfPos
<1>8. Wrap(c + j) = c + j BY <1>7, Fits
<1>9. Wrap(Backoff(a) + j) >= c BY <1>1, <1>5, <1>6, <1>8
<1> QED BY <1>9 DEF c, p

LEMMA WaitInit == Init => WaitInv
<1> SUFFICES ASSUME Init PROVE WaitInv
  OBVIOUS
<1>1. \A b \in Backends : attempt[b] = 0 /\ waited[b] = 0 /\ cpc[b] = "attempt"
  BY DEF Init, ConnectInit
<1>2. Base * 2^0 = Base BY ConnectAssumption, PowZero
<1>3. ASSUME NEW b \in Backends PROVE waited[b] + Base >= Base * 2^attempt[b]
  <2>1. Base * 2^attempt[b] = Base BY <1>1, <1>2
  <2>2. waited[b] + Base = Base BY <1>1, ConnectAssumption
  <2>3. Base >= Base BY ConnectAssumption
  <2> QED BY <2>1, <2>2, <2>3
<1> QED BY <1>1, <1>3 DEF Init, ConnectInit, WaitInv

\* retry.Do arms a timer, or moves on without one.
LEMMA AttemptWaits ==
  ASSUME Types, WaitInv, NEW b \in Backends, AttemptFails(b), UNCHANGED <<attempt, waited>>
  PROVE  WaitInv'
<1>1. CASE \E to \in {"failed"} : Leaves(b, to) /\ UNCHANGED delay
  BY <1>1 DEF Types, WaitInv, Leaves
<1>2. CASE Leaves(b, "backoff") /\ \E j \in Jitters :
             delay' = [delay EXCEPT ![b] = Wrap(Backoff(attempt[b]) + j)]
  <2>1. PICK j \in Jitters : delay' = [delay EXCEPT ![b] = Wrap(Backoff(attempt[b]) + j)]
    BY <1>2
  <2> DEFINE d == Wrap(Backoff(attempt[b]) + j)
  <2>2. attempt[b] \in Nat /\ waited[b] \in Nat /\ Base \in Nat BY ConnectAssumption DEF WaitInv
  <2>3. d \in Int
    <3>1. 2^attempt[b] \in Nat BY <2>2, PowNat
    <3>2. Base * Wrap(2^attempt[b]) \in Int BY <2>2, <3>1, WrapType
    <3>3. Backoff(attempt[b]) + j \in Int BY <3>2, WrapType, JitterBound DEF Backoff
    <3> QED BY <3>3, WrapType
  <2>4. \/ waited[b] + 2 * Base >= Half
        \/ waited[b] + Base >= Base * 2^attempt[b] /\ d >= Base * 2^attempt[b]
    BY <2>2, BackoffFits DEF WaitInv
  <2> HIDE DEF d
  <2>5. delay' = [delay EXCEPT ![b] = d] BY <2>1 DEF d
  <2>6. delay' \in [Backends -> Int] /\ delay'[b] = d BY <2>3, <2>5 DEF WaitInv
  <2>7. \A a \in Backends \ {b} : delay'[a] = delay[a] /\ cpc'[a] = cpc[a]
    BY <1>2, <2>5 DEF WaitInv, Types, Leaves
  <2> QED BY <2>4, <2>6, <2>7 DEF WaitInv
<1> QED BY <1>1, <1>2 DEF AttemptFails

\* The timer fires after the backoff, or at once if that is negative.
LEMMA TimerWaits ==
  ASSUME Types, WaitInv, NEW b \in Backends, TimerFires(b)
  PROVE  WaitInv'
<1> DEFINE a == attempt[b]
           p == 2^a
           t == TimeToFire(delay[b])
<1>1. a \in Nat /\ waited[b] \in Nat /\ delay[b] \in Int /\ Base \in Nat /\ Half \in Nat
  BY ConnectAssumption, HalfPos DEF WaitInv
<1>2. p \in Nat /\ 2^(a + 1) = 2 * p BY <1>1, PowNat, PowStep
<1>3. t \in Nat /\ t >= delay[b] BY <1>1 DEF TimeToFire
<1>4. /\ cpc[b] = "backoff" /\ Leaves(b, "attempt") /\ delay' = delay
      /\ waited' = [waited EXCEPT ![b] = @ + t] /\ attempt' = [attempt EXCEPT ![b] = @ + 1]
  BY DEF TimerFires
<1>5. waited[b] + 2 * Base >= Half \/ (waited[b] + Base >= Base * p /\ delay[b] >= Base * p)
  BY <1>4 DEF WaitInv
<1> HIDE DEF p, t
<1>6. Base * p \in Nat /\ Base * (2 * p) = 2 * (Base * p) BY <1>1, <1>2
<1>7. (waited[b] + t) + 2 * Base >= Half \/ (waited[b] + t) + Base >= 2 * (Base * p)
  BY <1>1, <1>3, <1>5, <1>6
<1>8. /\ waited' \in [Backends -> Nat] /\ attempt' \in [Backends -> Nat]
      /\ waited'[b] = waited[b] + t /\ attempt'[b] = a + 1 /\ cpc'[b] = "attempt"
  BY <1>1, <1>3, <1>4 DEF WaitInv, Types, Leaves
<1>9. \A c \in Backends \ {b} : waited'[c] = waited[c] /\ attempt'[c] = attempt[c] /\ cpc'[c] = cpc[c]
  BY <1>4 DEF WaitInv, Types, Leaves
<1>10. waited'[b] + 2 * Base >= Half \/ waited'[b] + Base >= Base * 2^(attempt'[b])
  BY <1>2, <1>6, <1>7, <1>8
<1> QED BY <1>4, <1>8, <1>9, <1>10 DEF WaitInv

LEMMA WaitStep == Types /\ WaitInv /\ [Next]_vars => WaitInv'
<1> SUFFICES ASSUME Types, WaitInv, [Next]_vars PROVE WaitInv'
  OBVIOUS
<1>1. ASSUME NEW b \in Backends, Connects(b) PROVE WaitInv'
  <2>1. CASE Create(b, GroupDone)
    <3>1. CASE AttemptFails(b) BY <2>1, <3>1, AttemptWaits DEF Create
    <3>2. CASE Leaves(b, "ping") /\ UNCHANGED delay
      BY <2>1, <3>2 DEF Create, Leaves, Types, WaitInv
    <3> QED BY <2>1, <3>1, <3>2 DEF Create
  <2>2. CASE PingFails(b) BY <2>2, AttemptWaits DEF PingFails
  <2>3. CASE TimerFires(b) BY <2>3, TimerWaits
  <2>4. CASE PingAnswers(b) \/ SignalReady(b) \/ Interrupted(b, GroupDone)
    BY <2>4 DEF PingAnswers, SignalReady, Interrupted, Leaves, Types, WaitInv
  <2> QED BY <1>1, <2>1, <2>2, <2>3, <2>4 DEF Connects, ConnectStep
<1>2. CASE UNCHANGED <<cpc, attempt, delay, waited>> BY <1>2 DEF WaitInv
<1>3. ASSUME Stopping \/ Cancel \/ Listen \/ ServeFails PROVE UNCHANGED <<cpc, attempt, delay, waited>>
  BY <1>3 DEF Stopping, StopServer, Drains, StopCache, StopDb, PoolClosed, Cancel, Listen,
     ServeFails, connectVars
<1>4. ASSUME NEW q \in Requests, Arrives(q) \/ Serve(q)
      PROVE  UNCHANGED <<cpc, attempt, delay, waited>>
  BY <1>4 DEF Arrives, Serve, CacheCall, DbCall, DbDone, GateTimesOut, Proceeds, connectVars
<1>5. CASE UNCHANGED vars BY <1>2, <1>5 DEF vars, connectVars
<1> QED BY <1>1, <1>2, <1>3, <1>4, <1>5 DEF Next

\* Whatever the base, the number of attempts and the width of a duration: the
\* backoff falls short only when retry.Do has slept nearly as long as a
\* time.Duration can tell (retry.go:40-61).
THEOREM BackoffHolds == Spec => []ShortWaitIsLate
<1>1. WaitInv => ShortWaitIsLate
  <2> SUFFICES ASSUME WaitInv, NEW b \in Backends, cpc[b] = "backoff", delay[b] < Base
               PROVE  waited[b] + 2 * Base >= Half
    BY DEF ShortWaitIsLate, Half
  <2> DEFINE p == 2^attempt[b]
  <2>1. delay[b] \in Int /\ Base \in Nat /\ p \in Nat /\ p >= 1
    BY ConnectAssumption, PowPos DEF WaitInv
  <2>2. waited[b] + 2 * Base >= Half \/ delay[b] >= Base * p BY DEF WaitInv
  <2> HIDE DEF p
  <2>3. Base * p >= Base BY <2>1
  <2> QED BY <2>1, <2>2, <2>3
<1>2. IInv => Types BY DEF IInv
<1> QED BY <1>1, <1>2, WaitInit, WaitStep, Inductive, PTL DEF Spec
=============================================================================
