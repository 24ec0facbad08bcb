---------------------------- MODULE HealthProofs ----------------------------
(***************************************************************************)
(* Proofs about the health aggregator, for any number of probes and checks *)
(* and any time to live.                                                   *)
(***************************************************************************)
EXTENDS Health, TLAPS

-----------------------------------------------------------------------------
(* Types *)

LEMMA TypeInit == Init => TypeOK
<1> SUFFICES ASSUME Init PROVE TypeOK
  OBVIOUS
<1>1. AtMostOne({})
  BY DEF AtMostOne
<1>2. cache \subseteq Results /\ AtMostOne(cache)
  BY <1>1 DEF Init
<1>3. /\ result \in [Probes -> SUBSET Results] /\ outcome \in [Probes -> SUBSET Results]
      /\ \A p \in Probes : AtMostOne(outcome[p]) /\ AtMostOne(result[p])
  BY <1>1 DEF Init
<1>4. /\ clock \in Times /\ now \in [Probes -> Times] /\ since \in [Probes -> Times]
      /\ newest \in Times /\ seen \in [Probes -> Times]
  BY HealthAssumption DEF Init, Times
<1>5. pc \in [Probes -> Places] /\ leader \in [Probes -> Probes] /\ flight \in Probes \cup {None}
  BY DEF Init, Places
<1> QED
  BY <1>2, <1>3, <1>4, <1>5 DEF Init, TypeOK

LEMMA TypeStep == TypeOK /\ [Next]_vars => TypeOK'
<1> SUFFICES ASSUME TypeOK, [Next]_vars PROVE TypeOK'
  OBVIOUS
<1> USE DEF TypeOK, probeVars, evalVars
<1>1. CASE Tick
  BY <1>1, HealthAssumption DEF Tick, Times
<1>2. ASSUME NEW cs \in SUBSET Checks, Register(cs) PROVE TypeOK'
  BY <1>2 DEF Register
<1>3. ASSUME NEW c \in Checks, BackendChanges(c) PROVE TypeOK'
  BY <1>3 DEF BackendChanges
<1>4. ASSUME NEW p \in Probes, Arrive(p) PROVE TypeOK'
  <2>1. AtMostOne({})
    BY DEF AtMostOne
  <2> QED
    BY <1>4, <2>1 DEF Arrive, Places
<1>5. ASSUME NEW p \in Probes, ClientLeaves(p) PROVE TypeOK'
  BY <1>5 DEF ClientLeaves
<1>6. ASSUME NEW p \in Probes, Load(p) PROVE TypeOK'
  <2>1. ASSUME NEW res \in cache, result' = [result EXCEPT ![p] = {res}], Answer(res)
        PROVE  /\ result' \in [Probes -> SUBSET Results]
               /\ \A q \in Probes : AtMostOne(result'[q])
               /\ newest' \in Times
    <3>1. AtMostOne({res})
      BY DEF AtMostOne
    <3> QED
      BY <2>1, <3>1 DEF Answer, Results
  <2>2. /\ result' \in [Probes -> SUBSET Results]
        /\ \A q \in Probes : AtMostOne(result'[q])
        /\ newest' \in Times
    BY <1>6, <2>1 DEF Load
  <2>3. pc' \in [Probes -> Places]
    BY <1>6 DEF Load, Places
  <2> QED
    BY <1>6, <2>2, <2>3 DEF Load
<1>7. ASSUME NEW p \in Probes, Lead(p) PROVE TypeOK'
  <2>1. AtMostOne({})
    BY DEF AtMostOne
  <2> QED
    BY <1>7, <2>1 DEF Lead, Places
<1>8. ASSUME NEW p \in Probes, Join(p) PROVE TypeOK'
  BY <1>8 DEF Join, Places, FlightFree
<1>9. ASSUME NEW p \in Probes, NEW c \in Checks, CheckReturns(p, c) PROVE TypeOK'
  BY <1>9 DEF CheckReturns
<1>10. ASSUME NEW p \in Probes, Conclude(p) PROVE TypeOK'
  <2> DEFINE res == [err |-> failed[p] # {}, at |-> clock, since |-> since[p], down |-> down[p]]
  <2>1. res \in Results /\ AtMostOne({res})
    BY DEF Results, AtMostOne
  <2>2. outcome' = [outcome EXCEPT ![p] = {res}]
    BY <1>10 DEF Conclude
  <2> HIDE DEF res
  <2>3. outcome' \in [Probes -> SUBSET Results] /\ \A q \in Probes : AtMostOne(outcome'[q])
    BY <2>1, <2>2
  <2> QED
    BY <1>10, <2>3 DEF Conclude, Places
<1>11. ASSUME NEW p \in Probes, Store(p) PROVE TypeOK'
  BY <1>11 DEF Store, Places
<1>12. ASSUME NEW p \in Probes, FlightEnds(p) PROVE TypeOK'
  BY <1>12 DEF FlightEnds, Places
<1>13. ASSUME NEW p \in Probes, CallHook(p) PROVE TypeOK'
  BY <1>13 DEF CallHook, Places, Answer, Results
<1>14. CASE UNCHANGED vars
  BY <1>14 DEF vars
<1> QED
  BY <1>1, <1>2, <1>3, <1>4, <1>5, <1>6, <1>7, <1>8, <1>9, <1>10, <1>11, <1>12, <1>13, <1>14
     DEF Next, ProbeNext

\* Every variable keeps its type (health.go:32-39); at most one result is
\* cached, and a probe returns at most one.
THEOREM TypeCorrect == Spec => []TypeOK
BY TypeInit, TypeStep, PTL DEF Spec

-----------------------------------------------------------------------------
(* Evaluations do not overlap *)

Evaluating == {"leading", "storing", "stored"}

\* An evaluation belongs to the probe that owns the flight, and began no
\* earlier than the cached result was concluded; when it has stored its own,
\* that is the cached one; no time lies in the future.
FlightInv ==
  /\ \A p \in Probes : now[p] <= clock
  /\ \A res \in cache : res.since <= res.at /\ res.at <= clock
  /\ flight \in Probes => pc[flight] \in Evaluating
  /\ \A p \in Probes :
       /\ pc[p] \in Evaluating => flight = p /\ leader[p] = p /\ since[p] <= clock
       /\ pc[p] \in {"leading", "storing"} => \A res \in cache : res.at <= since[p]
       /\ pc[p] \in {"storing", "stored"} =>
            /\ outcome[p] # {}
            /\ \A res \in outcome[p] :
                 res.since = since[p] /\ since[p] <= res.at /\ res.at <= clock
       /\ pc[p] = "stored" => cache = outcome[p]

LEMMA FlightInit == Init => FlightInv
BY HealthAssumption DEF Init, FlightInv, Evaluating

LEMMA FlightStep == TypeOK /\ FlightInv /\ [Next]_vars => FlightInv'
<1> SUFFICES ASSUME TypeOK, FlightInv, [Next]_vars PROVE FlightInv'
  OBVIOUS
<1> USE DEF TypeOK, FlightInv, Evaluating, probeVars, evalVars, Times, Results
<1>1. CASE Tick
  BY <1>1, HealthAssumption DEF Tick
<1>2. ASSUME NEW cs \in SUBSET Checks, Register(cs) PROVE FlightInv'
  BY <1>2 DEF Register
<1>3. ASSUME NEW c \in Checks, BackendChanges(c) PROVE FlightInv'
  BY <1>3 DEF BackendChanges
<1>4. ASSUME NEW p \in Probes, Arrive(p) PROVE FlightInv'
  BY <1>4, HealthAssumption DEF Arrive
<1>5. ASSUME NEW p \in Probes, ClientLeaves(p) PROVE FlightInv'
  BY <1>5 DEF ClientLeaves
<1>6. ASSUME NEW p \in Probes, Load(p) PROVE FlightInv'
  BY <1>6 DEF Load
<1>7. ASSUME NEW p \in Probes, Lead(p) PROVE FlightInv'
  <2>1. \A q \in Probes : pc[q] \notin Evaluating
    BY <1>7, HealthAssumption DEF Lead, FlightFree
  <2> QED
    BY <1>7, <2>1, HealthAssumption DEF Lead
<1>8. ASSUME NEW p \in Probes, Join(p) PROVE FlightInv'
  BY <1>8 DEF Join
<1>9. ASSUME NEW p \in Probes, NEW c \in Checks, CheckReturns(p, c) PROVE FlightInv'
  BY <1>9 DEF CheckReturns
<1>10. ASSUME NEW p \in Probes, Conclude(p) PROVE FlightInv'
  <2>1. \A res \in outcome'[p] : res.since = since[p] /\ res.at = clock
    BY <1>10 DEF Conclude
  <2>2. outcome'[p] # {} /\ \A q \in Probes : q # p => outcome'[q] = outcome[q] /\ pc'[q] = pc[q]
    BY <1>10 DEF Conclude
  <2>3. pc[p] = "leading" /\ pc'[p] = "storing"
    BY <1>10 DEF Conclude
  <2>4. UNCHANGED <<clock, cache, flight, now, leader, since>>
    BY <1>10 DEF Conclude
  <2> QED
    BY <2>1, <2>2, <2>3, <2>4, HealthAssumption
<1>11. ASSUME NEW p \in Probes, Store(p) PROVE FlightInv'
  BY <1>11 DEF Store
<1>12. ASSUME NEW p \in Probes, FlightEnds(p) PROVE FlightInv'
  <2>1. \A q \in Probes : pc'[q] \notin Evaluating
    BY <1>12 DEF FlightEnds, Served
  <2> QED
    BY <1>12, <2>1, HealthAssumption DEF FlightEnds
<1>13. ASSUME NEW p \in Probes, CallHook(p) PROVE FlightInv'
  BY <1>13 DEF CallHook
<1>14. CASE UNCHANGED vars
  BY <1>14 DEF vars
<1> QED
  BY <1>1, <1>2, <1>3, <1>4, <1>5, <1>6, <1>7, <1>8, <1>9, <1>10, <1>11, <1>12, <1>13, <1>14
     DEF Next, ProbeNext

\* At any time at most one probe evaluates (health.go:159), and its
\* evaluation began after the cached result was concluded (health.go:187).
THEOREM FlightInvariant == Spec => [](TypeOK /\ FlightInv)
<1>1. Init => TypeOK /\ FlightInv
  BY TypeInit, FlightInit
<1>2. TypeOK /\ FlightInv /\ [Next]_vars => (TypeOK /\ FlightInv)'
  BY TypeStep, FlightStep
<1> QED
  BY <1>1, <1>2, PTL DEF Spec

LEMMA CacheStep ==
  TypeOK /\ FlightInv /\ [Next]_vars =>
    [cache' # cache => \A old \in cache, new \in cache' : new.since >= old.at]_vars
<1> SUFFICES ASSUME TypeOK, FlightInv, Next, cache' # cache,
                    NEW old \in cache, NEW new \in cache'
             PROVE  new.since >= old.at
  OBVIOUS
<1>1. PICK p \in Probes : Store(p)
  BY DEF Next, ProbeNext, Tick, Register, BackendChanges, Arrive, ClientLeaves, Load, Lead,
         Join, CheckReturns, Conclude, FlightEnds, CallHook
<1>2. new.since = since[p] /\ old.at <= since[p]
  BY <1>1 DEF Store, FlightInv
<1>3. old.at \in Int /\ since[p] \in Int
  BY DEF TypeOK, Times, Results
<1> QED
  BY <1>2, <1>3

\* A cached result is never replaced by that of an evaluation that began
\* before it was stored (health.go:159,187): evaluations do not overlap.
THEOREM CacheNeverGoesBack == Spec => CacheMovesOn
BY FlightInvariant, CacheStep, PTL DEF Spec, CacheMovesOn

-----------------------------------------------------------------------------
(* What is answered *)

\* A probe that joined waits for the probe that owns the flight; unless it
\* joined late, the result it waits for is concluded after it arrived.
JoinInv ==
  /\ \A p \in Probes : pc[p] = "joined" => flight = leader[p]
  /\ \A p \in Probes \ late :
       pc[p] \in Evaluating \cup {"joined"} /\ pc[leader[p]] # "leading" =>
         \A res \in outcome[leader[p]] : res.at >= now[p]

LEMMA JoinStep == TypeOK /\ FlightInv /\ JoinInv /\ [Next]_vars => JoinInv'
<1> SUFFICES ASSUME TypeOK, FlightInv, JoinInv, [Next]_vars PROVE JoinInv'
  OBVIOUS
<1> USE DEF TypeOK, FlightInv, JoinInv, Evaluating, probeVars, evalVars, Times, Results
<1>1. CASE Tick
  BY <1>1 DEF Tick
<1>2. ASSUME NEW cs \in SUBSET Checks, Register(cs) PROVE JoinInv'
  BY <1>2 DEF Register
<1>3. ASSUME NEW c \in Checks, BackendChanges(c) PROVE JoinInv'
  BY <1>3 DEF BackendChanges
<1>4. ASSUME NEW p \in Probes, Arrive(p) PROVE JoinInv'
  BY <1>4 DEF Arrive
<1>5. ASSUME NEW p \in Probes, ClientLeaves(p) PROVE JoinInv'
  BY <1>5 DEF ClientLeaves
<1>6. ASSUME NEW p \in Probes, Load(p) PROVE JoinInv'
  BY <1>6 DEF Load
<1>7. ASSUME NEW p \in Probes, Lead(p) PROVE JoinInv'
  <2>1. flight = None /\ \A q \in Probes : pc[q] \notin Evaluating \cup {"joined"}
    BY <1>7, HealthAssumption DEF Lead, FlightFree
  <2> QED
    BY <1>7, <2>1 DEF Lead
<1>8. ASSUME NEW p \in Probes, Join(p) PROVE JoinInv'
  BY <1>8, HealthAssumption DEF Join, FlightFree
<1>9. ASSUME NEW p \in Probes, NEW c \in Checks, CheckReturns(p, c) PROVE JoinInv'
  BY <1>9 DEF CheckReturns
<1>10. ASSUME NEW p \in Probes, Conclude(p) PROVE JoinInv'
  <2>1. \A res \in outcome'[p] : res.at = clock
    BY <1>10 DEF Conclude
  <2>2. \A q \in Probes : q # p => outcome'[q] = outcome[q] /\ pc'[q] = pc[q]
    BY <1>10 DEF Conclude
  <2>3. pc[p] = "leading" /\ pc'[p] = "storing"
    BY <1>10 DEF Conclude
  <2>4. UNCHANGED <<clock, flight, now, leader, late>>
    BY <1>10 DEF Conclude
  <2>5. \A q \in Probes : now[q] \in Int /\ clock \in Int /\ clock >= now[q]
    OBVIOUS
  <2> QED
    BY <2>1, <2>2, <2>3, <2>4, <2>5
<1>11. ASSUME NEW p \in Probes, Store(p) PROVE JoinInv'
  BY <1>11 DEF Store
<1>12. ASSUME NEW p \in Probes, FlightEnds(p) PROVE JoinInv'
  <2>1. \A q \in Probes : pc'[q] \notin Evaluating \cup {"joined"}
    BY <1>12 DEF FlightEnds, Served
  <2> QED
    BY <2>1
<1>13. ASSUME NEW p \in Probes, CallHook(p) PROVE JoinInv'
  BY <1>13 DEF CallHook
<1>14. CASE UNCHANGED vars
  BY <1>14 DEF vars
<1> QED
  BY <1>1, <1>2, <1>3, <1>4, <1>5, <1>6, <1>7, <1>8, <1>9, <1>10, <1>11, <1>12, <1>13, <1>14
     DEF Next, ProbeNext

\* Every step keeps the answers fresh.
LEMMA FreshStep == TypeOK /\ FlightInv /\ JoinInv /\ NeverStale /\ [Next]_vars => NeverStale'
<1> SUFFICES ASSUME TypeOK, FlightInv, JoinInv, NeverStale, [Next]_vars PROVE NeverStale'
  OBVIOUS
<1> USE DEF NeverStale, probeVars, evalVars
<1>1. ASSUME NEW p \in Probes, FlightEnds(p) PROVE NeverStale'
  <2>1. \A q \in Probes : \A res \in result'[q] :
          res \in result[q] \/ (q \in Served(p) /\ res \in outcome[p])
    BY <1>1 DEF FlightEnds
  <2>2. \A q \in Served(p) \ late : \A res \in outcome[p] : res.at >= now[q]
    BY <1>1 DEF FlightEnds, Served, JoinInv, Evaluating
  <2>3. now' = now /\ late' = late
    BY <1>1 DEF FlightEnds
  <2> QED
    BY <2>1, <2>2, <2>3
<1>2. ASSUME NEW p \in Probes, Load(p) PROVE NeverStale'
  <2>1. \A q \in Probes : \A res \in result'[q] : res \in result[q] \/ (q = p /\ Fresh(p, res))
    BY <1>2 DEF Load, TypeOK
  <2>2. now' = now /\ late' = late
    BY <1>2 DEF Load
  <2> QED
    BY <2>1, <2>2 DEF Fresh
<1>3. ASSUME NEW p \in Probes, Arrive(p) PROVE NeverStale'
  BY <1>3 DEF Arrive, TypeOK
<1>4. ASSUME NEW p \in Probes, Join(p) PROVE NeverStale'
  BY <1>4 DEF Join
<1>5. CASE UNCHANGED <<result, now, late>>
  BY <1>5
<1> QED
  BY <1>1, <1>2, <1>3, <1>4, <1>5 DEF Next, ProbeNext, Tick, Register, BackendChanges,
     ClientLeaves, Lead, CheckReturns, Conclude, Store, CallHook, vars

\* What is answered from the cache, or from an evaluation that was led or
\* joined in time, was concluded less than a TTL before the probe arrived
\* (health.go:151,159,187).
THEOREM AnswersAreFresh == Spec => []NeverStale
<1>1. Init => JoinInv /\ NeverStale
  BY DEF Init, JoinInv, NeverStale, Evaluating
<1>2. TypeOK /\ FlightInv /\ JoinInv /\ NeverStale /\ [Next]_vars => (JoinInv /\ NeverStale)'
  BY JoinStep, FreshStep
<1> QED
  BY <1>1, <1>2, FlightInvariant, PTL DEF Spec

\* The cached result is of an evaluation at least as recent as any that a
\* probe has answered from, or is about to.
MoveInv ==
  /\ \A p \in Probes : seen[p] <= newest
  /\ cache = {} => newest = 0 /\ \A p \in Probes : result[p] = {}
  /\ \A c \in cache :
       newest <= c.since /\ \A p \in Probes : \A res \in result[p] : res.since <= c.since
  /\ AnswersMoveOn

LEMMA MoveStep == TypeOK /\ FlightInv /\ MoveInv /\ [Next]_vars => MoveInv'
<1> SUFFICES ASSUME TypeOK, FlightInv, MoveInv, [Next]_vars PROVE MoveInv'
  OBVIOUS
<1> USE DEF MoveInv, AnswersMoveOn, TypeOK, probeVars, evalVars, Times, Results
<1>1. ASSUME NEW p \in Probes, Arrive(p) PROVE MoveInv'
  BY <1>1, HealthAssumption DEF Arrive
<1>2. ASSUME NEW p \in Probes, Load(p) PROVE MoveInv'
  <2>1. ASSUME NEW c \in cache, result' = [result EXCEPT ![p] = {c}], Answer(c)
        PROVE  MoveInv'
    <3>1. cache' = cache /\ seen' = seen
      BY <1>2 DEF Load
    <3>2. \A d \in cache : d = c
      BY DEF AtMostOne
    <3>3. newest' = c.since /\ newest <= c.since
      BY <2>1, HealthAssumption DEF Answer
    <3> QED
      BY <2>1, <3>1, <3>2, <3>3, HealthAssumption
  <2>2. CASE UNCHANGED <<result, newest>>
    BY <1>2, <2>2 DEF Load
  <2> QED
    BY <1>2, <2>1, <2>2 DEF Load
<1>3. ASSUME NEW p \in Probes, Store(p) PROVE MoveInv'
  <2>1. cache' = outcome[p] /\ outcome[p] # {} /\ UNCHANGED <<result, newest, seen>>
    BY <1>3 DEF Store, FlightInv
  <2>2. \A new \in outcome[p] : /\ new.since \in Nat
                                /\ \A old \in cache : old.since <= new.since
    BY <1>3, HealthAssumption DEF Store, FlightInv
  <2>3. CASE cache = {}
    BY <2>1, <2>2, <2>3
  <2>4. CASE cache # {}
    BY <2>1, <2>2, <2>4, HealthAssumption
  <2> QED
    BY <2>3, <2>4
<1>4. ASSUME NEW p \in Probes, FlightEnds(p) PROVE MoveInv'
  <2>1. outcome[p] = cache /\ cache # {}
    BY <1>4 DEF FlightEnds, FlightInv
  <2>2. \A c, d \in cache : c = d
    BY DEF AtMostOne
  <2>3. \A q \in Probes : \A res \in result'[q] : res \in result[q] \/ res \in cache
    BY <1>4, <2>1 DEF FlightEnds
  <2>4. UNCHANGED <<cache, newest, seen>>
    BY <1>4 DEF FlightEnds
  <2>5. \A q \in Probes : \A c \in cache : c.since >= seen[q]
    BY HealthAssumption
  <2> QED
    BY <2>1, <2>2, <2>3, <2>4, <2>5, HealthAssumption
<1>5. ASSUME NEW p \in Probes, CallHook(p) PROVE MoveInv'
  <2>1. PICK res \in result[p] : newest' = IF res.since > newest THEN res.since ELSE newest
    BY <1>5 DEF CallHook, Answer
  <2>2. cache # {} /\ UNCHANGED <<cache, result, seen>>
    BY <1>5, <2>1 DEF CallHook
  <2> QED
    BY <2>1, <2>2, HealthAssumption
<1>6. CASE UNCHANGED <<cache, result, newest, seen>>
  BY <1>6
<1> QED
  BY <1>1, <1>2, <1>3, <1>4, <1>5, <1>6 DEF Next, ProbeNext, Tick, Register, BackendChanges,
     ClientLeaves, Lead, Join, CheckReturns, Conclude, vars

\* A probe that arrives after another has returned is not answered from an
\* older evaluation (health.go:151,159,187), from the cache, the flight or its
\* own evaluation.
THEOREM AnswersNeverGoBack == Spec => []AnswersMoveOn
<1>1. Init => MoveInv
  BY HealthAssumption DEF Init, MoveInv, AnswersMoveOn
<1>2. MoveInv => AnswersMoveOn
  BY DEF MoveInv
<1> QED
  BY <1>1, <1>2, FlightInvariant, MoveStep, PTL DEF Spec
=============================================================================
