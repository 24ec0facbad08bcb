---------------------------- MODULE WorkerProofs ----------------------------
(***************************************************************************)
(* Proofs about Worker, for any set of tasks and any bounds.               *)
(***************************************************************************)
EXTENDS Worker, Foundations, TLAPS

-----------------------------------------------------------------------------
(* The stop closure of AsynqServer *)

CallStates == {"new", "refused", "waiting", "sent", "ok", "failed"}
TaskStates == {"absent", "pending", "scheduled", "active", "completed", "archived"}

\* done is closed after Shutdown has returned, a server that is closed takes
\* up no task again, and a handler that runs is waited for, or was left by a
\* worker that put its task back during the shutdown.
StopInv ==
  /\ state \in [Tasks -> TaskStates] /\ call \in [Tasks -> CallStates]
  /\ stop = "nil" => server = "closed"
  /\ server = "closed" => Active = {}
  /\ handling \subseteq Tasks
  /\ \A t \in handling :
       state[t] = "active" \/ (state[t] = "pending" /\ server \in {"draining", "closed"})
  /\ \A t \in Tasks : call[t] \in {"new", "waiting", "sent"} => state[t] = "absent"

LEMMA StopInit == Init => StopInv
<1> SUFFICES ASSUME Init PROVE StopInv
  OBVIOUS
<1>1. state \in [Tasks -> TaskStates] /\ call \in [Tasks -> CallStates]
  BY DEF Init, TaskStates, CallStates
<1> QED BY <1>1 DEF Init, StopInv, Active

LEMMA StopStep == StopInv /\ [Next]_vars => StopInv'
<1> SUFFICES ASSUME StopInv, [Next]_vars PROVE StopInv'
  OBVIOUS
<1> USE DEF StopInv, Active, TaskStates, CallStates
<1>1. ASSUME UNCHANGED <<serverVars, call>> PROVE StopInv'
  BY <1>1 DEF serverVars
<1>2. ASSUME NEW t \in Tasks, Send(t) PROVE StopInv'
  <2>1. t \notin handling BY <1>2 DEF Send
  <2> QED BY <1>2, <2>1 DEF Send, Stored, CallIs
<1>3. ASSUME NEW t \in Tasks, Forward(t) \/ Dequeue(t) PROVE StopInv'
  BY <1>3 DEF Forward, Dequeue, Becomes, clientVars
<1>4. ASSUME NEW t \in Tasks, Handled(t) PROVE StopInv'
  BY <1>4 DEF Handled, Becomes, clientVars
<1>5. ASSUME NEW t \in Tasks, PutBack(t) PROVE StopInv'
  BY <1>5 DEF PutBack, Becomes, clientVars
<1>6. CASE ServerStarts BY <1>6 DEF ServerStarts, clientVars
<1>7. CASE StopCalled BY <1>7 DEF StopCalled, clientVars
<1>8. CASE StopCtxEnds BY <1>8 DEF StopCtxEnds, clientVars
<1>9. CASE StopSeesDone BY <1>9 DEF StopSeesDone, clientVars
<1>10. CASE StopTimesOut BY <1>10 DEF StopTimesOut, clientVars
<1>11. CASE ShutdownBegins BY <1>11 DEF ShutdownBegins, clientVars
<1>12. CASE ShutdownEnds BY <1>12 DEF ShutdownEnds, clientVars
<1>13. ASSUME NEW t \in Tasks, Enqueue(t) \/ WaitEnds(t) \/ MemEnqueue(t) \/ MemRefuses(t)
       PROVE  StopInv'
  BY <1>13 DEF Enqueue, WaitEnds, MemEnqueue, MemRefuses, CallIs, serverVars
<1>14. ASSUME ClientStarts \/ ClientStops \/ MemReset \/ UNCHANGED vars
       PROVE  UNCHANGED <<serverVars, call>>
  BY <1>14 DEF ClientStarts, ClientStops, MemReset, clientVars, vars
<1> QED BY <1>1, <1>2, <1>3, <1>4, <1>5, <1>6, <1>7, <1>8, <1>9, <1>10, <1>11, <1>12, <1>13,
           <1>14 DEF Next

\* If AsynqServer.Stop returns nil no task is left in a worker's hands, and a
\* handler that still runs is one whose task is back in the queue, whatever
\* raced the shutdown (workerkit/server.go:43-62).
THEOREM NilMeansSettled == Spec => []SettledWhenNil
<1>1. StopInv => SettledWhenNil BY DEF StopInv, SettledWhenNil, Active
<1> QED BY <1>1, StopInit, StopStep, PTL DEF Spec

-----------------------------------------------------------------------------
(* The IDs of memqueue *)

\* A stored task was enqueued once, and its ID is its place.
MemInv ==
  /\ mem \in Seq(Tasks)
  /\ memId \in [Tasks -> Nat]
  /\ call \in [Tasks -> CallStates]
  /\ \A i \in 1..Len(mem) : call[mem[i]] # "new" /\ memId[mem[i]] = i

LEMMA MemInit == Init => MemInv
<1> SUFFICES ASSUME Init PROVE MemInv
  OBVIOUS
<1>1. call \in [Tasks -> CallStates] BY DEF Init, CallStates
<1>2. mem = <<>> /\ memId \in [Tasks -> Nat] BY DEF Init
<1> QED BY <1>1, <1>2 DEF MemInv

LEMMA MemStep == MemInv /\ [Next]_vars => MemInv'
<1> SUFFICES ASSUME MemInv, [Next]_vars PROVE MemInv'
  OBVIOUS
<1>1. ASSUME UNCHANGED <<call, mem, memId>> PROVE MemInv' BY <1>1 DEF MemInv
<1>2. ASSUME NEW t \in Tasks, UNCHANGED <<mem, memId>>,
             NEW c \in CallStates \ {"new"}, CallIs(t, c)
      PROVE  MemInv'
  BY <1>2 DEF MemInv, CallIs
<1>3. ASSUME NEW t \in Tasks, MemEnqueue(t) PROVE MemInv'
  <2>1. /\ mem' = Append(mem, t) /\ call[t] = "new" /\ call' = [call EXCEPT ![t] = "ok"]
        /\ memId' = [memId EXCEPT ![t] = Len(mem')]
    BY <1>3 DEF MemEnqueue, CallIs
  <2>2. Len(mem') = Len(mem) + 1 /\ mem' \in Seq(Tasks) /\ Len(mem) \in Nat
    BY <2>1 DEF MemInv
  <2>3. memId' \in [Tasks -> Nat] /\ call' \in [Tasks -> CallStates]
    BY <2>1, <2>2 DEF MemInv, CallStates
  <2>4. ASSUME NEW i \in 1..Len(mem') PROVE call'[mem'[i]] # "new" /\ memId'[mem'[i]] = i
    <3>1. CASE i = Len(mem) + 1
      <4>1. mem'[i] = t BY <2>1, <2>2, <3>1 DEF MemInv
      <4> QED BY <2>1, <2>2, <3>1, <4>1 DEF MemInv
    <3>2. CASE i # Len(mem) + 1
      <4>1. i \in 1..Len(mem) /\ mem'[i] = mem[i] BY <2>1, <2>2, <3>2 DEF MemInv
      <4>2. mem[i] \in Tasks /\ mem[i] # t BY <2>1, <4>1 DEF MemInv
      <4> QED BY <2>1, <4>1, <4>2 DEF MemInv
    <3> QED BY <3>1, <3>2
  <2> QED BY <2>2, <2>3, <2>4 DEF MemInv
<1>4. CASE MemReset
  <2>1. mem' = <<>> /\ memId' = memId /\ call' = call BY <1>4 DEF MemReset, clientVars
  <2> QED BY <2>1 DEF MemInv
<1>5. ASSUME NEW t \in Tasks, Enqueue(t) \/ WaitEnds(t) \/ Send(t) \/ MemRefuses(t)
      PROVE  UNCHANGED <<mem, memId>> /\ \E c \in CallStates \ {"new"} : CallIs(t, c)
  BY <1>5 DEF Enqueue, WaitEnds, Send, MemRefuses, CallStates, memVars
<1>6. ASSUME \/ ClientStarts \/ ClientStops \/ ServerStarts \/ StopCalled \/ StopCtxEnds
             \/ StopSeesDone \/ StopTimesOut \/ ShutdownBegins \/ ShutdownEnds
             \/ \E t \in Tasks : Forward(t) \/ Dequeue(t) \/ Handled(t) \/ PutBack(t)
             \/ UNCHANGED vars
      PROVE  UNCHANGED <<call, mem, memId>>
  BY <1>6 DEF ClientStarts, ClientStops, ServerStarts, StopCalled, StopCtxEnds, StopSeesDone,
     StopTimesOut, ShutdownBegins, ShutdownEnds, Forward, Dequeue, Handled, PutBack, vars,
     clientVars, memVars
<1> QED BY <1>1, <1>2, <1>3, <1>4, <1>5, <1>6 DEF Next

\* The ID that memqueue returns is the task's place in Tasks(), also after a
\* Reset (memqueue.go:77-92).
THEOREM IdsNameTasks == Spec => []IdNamesTask
<1>1. MemInv => IdNamesTask BY DEF MemInv, IdNamesTask
<1> QED BY <1>1, MemInit, MemStep, PTL DEF Spec

-----------------------------------------------------------------------------
(* The options of a call *)

\* g is what the loop of toAsynqOpts has computed after the options in its
\* argument.
Applied(g, os, n) ==
  g = [T \in SUBSET (1..n) |->
         IF T = {} THEN NoOptions ELSE Apply(g[T \ {Max(T)}], os[Max(T)])]

\* f is the last schedule among the options in T.
LastIn(f, os, T) == \E i \in T : os[i] = f /\ \A j \in T : j > i => os[j] = "Queue"

\* What the loop should compute.
Chosen(os, T) == [ProcessIn |-> IF LastIn("ProcessIn", os, T) THEN 1 ELSE 0,
                  ProcessAt |-> IF LastIn("ProcessAt", os, T) THEN 1 ELSE 0]

LEMMA MaxOfInterval ==
  ASSUME NEW n \in Nat, NEW T \in SUBSET (1..n), T # {}
  PROVE  Max(T) \in T /\ \A y \in T : y <= Max(T)
<1> DEFINE Below == {n - x : x \in T}
<1>1. Below \subseteq Nat /\ Below # {} OBVIOUS
<1>2. PICK m \in Below : \A y \in Below : ~(<<y, m>> \in OpToRel(<, Nat))
  <2> HIDE DEF Below
  <2> QED BY <1>1, NatLessThanWellFounded, WFMin, Zenon
<1>3. ASSUME NEW y \in Below PROVE ~(y < m)
  <2>1. y \in Nat /\ m \in Nat BY <1>1
  <2> QED BY <1>2, <2>1, Zenon DEF OpToRel
<1>4. PICK x \in T : m = n - x BY <1>2
<1>5. ASSUME NEW y \in T PROVE x >= y
  <2>1. ~(n - y < n - x) BY <1>3, <1>4, Zenon
  <2>2. x \in 1..n /\ y \in 1..n OBVIOUS
  <2> QED BY <2>1, <2>2
<1>6. Max(T) \in T /\ \A y \in T : Max(T) >= y BY <1>5 DEF Max
<1>7. \A y \in T : y \in Int OBVIOUS
<1> QED BY <1>6, <1>7

\* The latest of the options in T comes after the others.
LEMMA LastInStep ==
  ASSUME NEW os, NEW T \in SUBSET Int, NEW m \in T, \A y \in T : y <= m, NEW f, f # "Queue"
  PROVE  LastIn(f, os, T) <=> os[m] = f \/ (os[m] = "Queue" /\ LastIn(f, os, T \ {m}))
<1>1. \A j \in T : j # m => m > j /\ ~(j > m) OBVIOUS
<1>2. ~(m > m) OBVIOUS
<1>3. ASSUME LastIn(f, os, T), os[m] # f
      PROVE  os[m] = "Queue" /\ LastIn(f, os, T \ {m})
  <2>1. PICK i \in T : os[i] = f /\ \A j \in T : j > i => os[j] = "Queue" BY <1>3 DEF LastIn
  <2>2. i # m BY <1>3, <2>1
  <2> QED BY <1>1, <2>1, <2>2 DEF LastIn
<1>4. ASSUME os[m] = f PROVE LastIn(f, os, T) BY <1>1, <1>2, <1>4 DEF LastIn
<1>5. ASSUME os[m] = "Queue", LastIn(f, os, T \ {m}) PROVE LastIn(f, os, T)
  <2>1. PICK i \in T \ {m} : os[i] = f /\ \A j \in T \ {m} : j > i => os[j] = "Queue"
    BY <1>5 DEF LastIn
  <2> QED BY <1>5, <2>1 DEF LastIn
<1> QED BY <1>3, <1>4, <1>5

LEMMA ChosenStep ==
  ASSUME NEW n \in Nat, NEW os \in [1..n -> Options], NEW T \in SUBSET (1..n), T # {}
  PROVE  Chosen(os, T) = Apply(Chosen(os, T \ {Max(T)}), os[Max(T)])
<1>1. PICK m : m = Max(T) OBVIOUS
<1>2. m \in T /\ \A y \in T : y <= m BY <1>1, MaxOfInterval, Zenon
<1>3. T \in SUBSET Int /\ os[m] \in Options BY <1>2
<1>4. \A f \in {"ProcessIn", "ProcessAt"} :
        LastIn(f, os, T) <=> os[m] = f \/ (os[m] = "Queue" /\ LastIn(f, os, T \ {m}))
  BY <1>2, <1>3, LastInStep, Zenon
<1>5. Chosen(os, T) = Apply(Chosen(os, T \ {m}), os[m])
  BY <1>3, <1>4, Zenon DEF Chosen, Options, Apply, NoOptions
<1> QED BY <1>1, <1>5

LEMMA ChosenNone == \A os : Chosen(os, {}) = NoOptions
BY DEF Chosen, LastIn, NoOptions

LEMMA AppliedExists ==
  ASSUME NEW n \in Nat, NEW os \in [1..n -> Options]
  PROVE  Applied([T \in SUBSET (1..n) |-> Chosen(os, T)], os, n)
<1> DEFINE g == [T \in SUBSET (1..n) |-> Chosen(os, T)]
<1>1. ASSUME NEW T \in SUBSET (1..n)
      PROVE  Chosen(os, T) = IF T = {} THEN NoOptions ELSE Apply(g[T \ {Max(T)}], os[Max(T)])
  BY ChosenNone, ChosenStep, Zenon
<1> QED BY <1>1, Zenon DEF Applied

\* There is only one such function: a least argument on which it differed
\* would have one option too many.
LEMMA AppliedIsChosen ==
  ASSUME NEW n \in Nat, NEW os \in [1..n -> Options], NEW g, Applied(g, os, n)
  PROVE  g[1..n] = Chosen(os, 1..n)
<1> DEFINE C == {T \in SUBSET (1..n) : g[T] # Chosen(os, T)}
<1> SUFFICES ASSUME C # {} PROVE FALSE
  <2>1. 1..n \in SUBSET (1..n) OBVIOUS
  <2>2. C = {} => g[1..n] = Chosen(os, 1..n) BY <2>1
  <2> HIDE DEF C
  <2> QED BY <2>2
<1>1. IsFiniteSet(1..n) BY FS_Interval
<1>2. PICK T \in C : \A U \in C : ~(U \subseteq T /\ U # T)
  <2> DEFINE S == 1..n
  <2>1. IsFiniteSet(S) BY <1>1
  <2>2. C \in SUBSET (SUBSET S) OBVIOUS
  <2> HIDE DEF C, S
  <2> QED BY <2>1, <2>2, LeastSubset
<1>3. g[T] = IF T = {} THEN NoOptions ELSE Apply(g[T \ {Max(T)}], os[Max(T)])
  BY Zenon DEF Applied
<1>4. T # {} BY <1>3, ChosenNone
<1>5. Max(T) \in T BY <1>4, MaxOfInterval, Zenon
<1>6. T \ {Max(T)} \in SUBSET (1..n) /\ T \ {Max(T)} # T BY <1>5
<1>7. g[T \ {Max(T)}] = Chosen(os, T \ {Max(T)}) BY <1>2, <1>6, Zenon
<1> QED BY <1>3, <1>4, <1>7, ChosenStep, Zenon

\* The option that toAsynqOpts passes on is the last schedule that was given.
LEMMA FoldIsLast ==
  ASSUME NEW os \in SeqOf(Options, MaxOptions)
  PROVE  toAsynqOpts(os) = LastSchedule(os)
<1>1. PICK n \in Nat : os \in [1..n -> Options] BY WorkerAssumption DEF SeqOf
<1>2. DOMAIN os = 1..n BY <1>1
<1> DEFINE iter == CHOOSE g : Applied(g, os, n)
           o == iter[1..n]
<1>3. FoldLeft(Apply, NoOptions, os) = o
  BY <1>2 DEF FoldLeft, MapThenFoldSet, Applied
<1>4. Applied(iter, os, n) BY <1>1, AppliedExists, Zenon
<1>5. toAsynqOpts(os) = {f \in DOMAIN o : o[f] > 0} BY <1>3 DEF toAsynqOpts
<1> HIDE DEF iter
<1>6. o = Chosen(os, 1..n) BY <1>1, <1>4, AppliedIsChosen
<1>7. LastSchedule(os) = {f \in {"ProcessIn", "ProcessAt"} : LastIn(f, os, 1..n)}
  BY <1>2 DEF LastSchedule, LastIn
<1> HIDE DEF o
<1>8. DOMAIN o = {"ProcessIn", "ProcessAt"} BY <1>6 DEF Chosen
<1>9. {f \in DOMAIN o : o[f] > 0} = {f \in {"ProcessIn", "ProcessAt"} : LastIn(f, os, 1..n)}
  BY <1>6, <1>8 DEF Chosen
<1> QED BY <1>5, <1>7, <1>9

\* Whatever options a caller gives, and in whatever order: asynq gets the last
\* schedule and no other (enqueuer.go:91-108, client.go:92-112).
THEOREM LastGivenWins == Spec => []LastScheduleWins
<1> DEFINE Inv == /\ DOMAIN opts = Tasks /\ DOMAIN wanted = Tasks
                  /\ LastScheduleWins
<1>1. Init => Inv BY DEF Init, LastScheduleWins
<1>2. Inv /\ [Next]_vars => Inv'
  <2> SUFFICES ASSUME Inv, [Next]_vars PROVE Inv'
    OBVIOUS
  <2>1. ASSUME NEW t \in Tasks, Given(t) PROVE Inv'
    <3>1. PICK os \in SeqOf(Options, MaxOptions) :
            /\ opts' = [opts EXCEPT ![t] = toAsynqOpts(os)]
            /\ wanted' = [wanted EXCEPT ![t] = LastSchedule(os)]
      BY <2>1 DEF Given
    <3>2. toAsynqOpts(os) = LastSchedule(os) BY FoldIsLast
    <3> QED BY <3>1, <3>2 DEF LastScheduleWins
  <2>2. CASE UNCHANGED <<opts, wanted>> BY <2>2 DEF LastScheduleWins
  <2>3. ASSUME NEW t \in Tasks, Enqueue(t) \/ MemEnqueue(t) PROVE Given(t)
    BY <2>3 DEF Enqueue, MemEnqueue
  <2>4. ASSUME NEW t \in Tasks,
               \/ WaitEnds(t) \/ Send(t) \/ Forward(t) \/ Dequeue(t)
               \/ Handled(t) \/ PutBack(t) \/ MemRefuses(t)
        PROVE  UNCHANGED <<opts, wanted>>
    BY <2>4 DEF WaitEnds, Send, Forward, Dequeue, Handled, PutBack, MemRefuses, clientVars
  <2>5. ASSUME \/ ClientStarts \/ ClientStops \/ ServerStarts \/ StopCalled \/ StopCtxEnds
               \/ StopSeesDone \/ StopTimesOut \/ ShutdownBegins \/ ShutdownEnds \/ MemReset
               \/ UNCHANGED vars
        PROVE  UNCHANGED <<opts, wanted>>
    BY <2>5 DEF ClientStarts, ClientStops, ServerStarts, StopCalled, StopCtxEnds, StopSeesDone,
       StopTimesOut, ShutdownBegins, ShutdownEnds, MemReset, clientVars, vars
  <2> HIDE DEF Inv
  <2> QED BY <2>1, <2>2, <2>3, <2>4, <2>5 DEF Next
<1>3. Inv => LastScheduleWins OBVIOUS
<1> QED BY <1>1, <1>2, <1>3, PTL DEF Spec
=============================================================================
