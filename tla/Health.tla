------------------------------- MODULE Health -------------------------------
(***************************************************************************)
(* healthkit.Aggregator (core/healthkit/health.go): concurrent probes of   *)
(* one kind of check.  The kinds share nothing but the lock of the check   *)
(* list: each has its own cache slot and its own singleflight key.         *)
(*                                                                         *)
(* A probe is an HTTP request served by Handler; its context ends when the *)
(* client goes away.  A probe that misses the cache leads an evaluation,   *)
(* or joins the one that is in flight.                                     *)
(***************************************************************************)
EXTENDS Integers

CONSTANTS Probes, Checks,
          CacheTTL,   \* the argument of NewAggregator
          Floor,      \* defaultCacheTTLFloor
          MaxTime,    \* bound: the time at which the clock stops
          None

ASSUME HealthAssumption ==
  /\ CacheTTL \in Int
  /\ Floor \in Nat
  /\ MaxTime \in Nat
  /\ None \notin Probes

\* a.cacheTTL: zero asks for the floor, a negative value for no caching.
TTL == CASE CacheTTL = 0 -> Floor
         [] CacheTTL < 0 -> 0
         [] OTHER -> CacheTTL

VARIABLES clock,
          up,          \* the checks whose backend would answer in time
          registered,  \* a.checks
          cache,       \* the cached results: none or one
          flight,      \* the probe that leads the evaluation in flight, or None
          pc, now,     \* of each probe: where it is, and when it arrived
          leader,      \* the probe whose evaluation it waits for
          ctxDone,     \* the probes whose client has gone
          since, todo, failed, down,  \* of each leader's evaluation: start, checks
                                      \* still running, failed, and found down
          outcome,     \* its result, once there is one
          result,      \* what each probe returned: none or one result
          newest,      \* history: the start of the latest evaluation that a probe
                       \* has answered from, 0 at first
          seen,        \* history: what newest was when each probe arrived
          late         \* history: the probes that joined an evaluation which had
                       \* its result but not yet left the flight

probeVars == <<pc, now, leader, ctxDone, result, newest, seen, late>>
evalVars  == <<since, todo, failed, down, outcome>>
vars == <<clock, up, registered, cache, flight, probeVars, evalVars>>

Times   == 0..MaxTime
Results == [err : BOOLEAN, at : Times, since : Times, down : SUBSET Checks]
Places  == {"idle", "loading", "entering", "leading", "storing", "stored", "joined",
            "hook", "returned"}

AtMostOne(S) == \A x, y \in S : x = y

TypeOK ==
  /\ clock \in Times
  /\ up \subseteq Checks
  /\ registered \subseteq Checks
  /\ cache \subseteq Results /\ AtMostOne(cache)
  /\ flight \in Probes \cup {None}
  /\ pc \in [Probes -> Places]
  /\ now \in [Probes -> Times]
  /\ leader \in [Probes -> Probes]
  /\ ctxDone \subseteq Probes
  /\ since \in [Probes -> Times]
  /\ todo \in [Probes -> SUBSET Checks]
  /\ failed \in [Probes -> SUBSET Checks]
  /\ down \in [Probes -> SUBSET Checks]
  /\ outcome \in [Probes -> SUBSET Results]
  /\ result \in [Probes -> SUBSET Results]
  /\ \A p \in Probes : AtMostOne(outcome[p]) /\ AtMostOne(result[p])
  /\ newest \in Times
  /\ seen \in [Probes -> Times]
  /\ late \subseteq Probes

Init ==
  /\ clock = 0
  /\ up = Checks
  /\ registered = {}
  /\ cache = {}
  /\ flight = None
  /\ pc = [p \in Probes |-> "idle"]
  /\ now = [p \in Probes |-> 0]
  /\ leader = [p \in Probes |-> p]
  /\ ctxDone = {}
  /\ since = [p \in Probes |-> 0]
  /\ todo = [p \in Probes |-> {}]
  /\ failed = [p \in Probes |-> {}]
  /\ down = [p \in Probes |-> {}]
  /\ outcome = [p \in Probes |-> {}]
  /\ result = [p \in Probes |-> {}]
  /\ newest = 0
  /\ seen = [p \in Probes |-> 0]
  /\ late = {}

-----------------------------------------------------------------------------
(* Time, the backends, the clients, and registration *)

Tick ==
  /\ clock < MaxTime
  /\ clock' = clock + 1
  /\ UNCHANGED <<up, registered, cache, flight, probeVars, evalVars>>

BackendChanges(c) ==
  /\ up' = IF c \in up THEN up \ {c} ELSE up \cup {c}
  /\ UNCHANGED <<clock, registered, cache, flight, probeVars, evalVars>>

ClientLeaves(p) ==
  /\ pc[p] \notin {"idle", "returned"} /\ p \notin ctxDone
  /\ ctxDone' = ctxDone \cup {p}
  /\ UNCHANGED <<clock, up, registered, cache, flight, pc, now, leader, result, newest, seen,
                 late, evalVars>>

Register(checks) ==
  /\ registered' = registered \cup checks
  /\ UNCHANGED <<clock, up, cache, flight, probeVars, evalVars>>

-----------------------------------------------------------------------------
(* evaluate *)

\* now := time.Now(), in a first request or in one that follows another.
Arrive(p) ==
  /\ pc[p] \in {"idle", "returned"}
  /\ pc' = [pc EXCEPT ![p] = "loading"]
  /\ now' = [now EXCEPT ![p] = clock]
  /\ result' = [result EXCEPT ![p] = {}]
  /\ seen' = [seen EXCEPT ![p] = newest]
  /\ ctxDone' = ctxDone \ {p}
  /\ late' = late \ {p}
  /\ UNCHANGED <<clock, up, registered, cache, flight, leader, newest, evalVars>>

\* A probe returns the result res.
Answer(res) == newest' = IF res.since > newest THEN res.since ELSE newest

\* Fault: an entry is used at the end of its time to live, too.
FreshToTheEnd(p, res) == now[p] - res.at <= TTL

\* now.Sub(res.at) < a.cacheTTL
Fresh(p, res) == now[p] - res.at < TTL

\* The cache is read: a fresh entry is the answer, and no hook is called.
Load(p) ==
  /\ pc[p] = "loading"
  /\ \/ /\ TTL > 0
        /\ \E res \in cache : /\ Fresh(p, res)
                              /\ result' = [result EXCEPT ![p] = {res}]
                              /\ Answer(res)
        /\ pc' = [pc EXCEPT ![p] = "returned"]
     \/ /\ TTL = 0 \/ \A res \in cache : ~Fresh(p, res)
        /\ pc' = [pc EXCEPT ![p] = "entering"]
        /\ UNCHANGED <<result, newest>>
  /\ UNCHANGED <<clock, up, registered, cache, flight, now, leader, ctxDone, seen, late,
                 evalVars>>

\* Fault: the evaluation is not run through a.flight.
AlwaysFree == TRUE

\* singleflight: no call with this key is in flight.
FlightFree == flight = None

\* flight.Do runs the evaluation, on this probe's context and on a copy of
\* the check list.
Lead(p) ==
  /\ pc[p] = "entering"
  /\ FlightFree
  /\ flight' = p
  /\ pc' = [pc EXCEPT ![p] = "leading"]
  /\ leader' = [leader EXCEPT ![p] = p]
  /\ since' = [since EXCEPT ![p] = clock]
  /\ todo' = [todo EXCEPT ![p] = registered]
  /\ failed' = [failed EXCEPT ![p] = {}]
  /\ down' = [down EXCEPT ![p] = {}]
  /\ outcome' = [outcome EXCEPT ![p] = {}]
  /\ UNCHANGED <<clock, up, registered, cache, now, ctxDone, result, newest, seen, late>>

\* flight.Do waits for the evaluation in flight, whatever its own context.
Join(p) ==
  /\ pc[p] = "entering"
  /\ ~FlightFree
  /\ pc' = [pc EXCEPT ![p] = "joined"]
  /\ leader' = [leader EXCEPT ![p] = flight]
  /\ late' = IF pc[flight] = "leading" THEN late ELSE late \cup {p}
  /\ UNCHANGED <<clock, up, registered, cache, flight, now, ctxDone, result, newest, seen,
                 evalVars>>

\* A check of p's evaluation returns: it fails if its backend is down, or
\* because p's client has gone.
CheckReturns(p, c) ==
  /\ pc[p] = "leading" /\ c \in todo[p]
  /\ todo' = [todo EXCEPT ![p] = @ \ {c}]
  /\ \/ c \in up /\ UNCHANGED <<failed, down>>
     \/ /\ c \notin up
        /\ failed' = [failed EXCEPT ![p] = @ \cup {c}]
        /\ down' = [down EXCEPT ![p] = @ \cup {c}]
     \/ /\ p \in ctxDone
        /\ failed' = [failed EXCEPT ![p] = @ \cup {c}]
        /\ UNCHANGED down
  /\ UNCHANGED <<clock, up, registered, cache, flight, probeVars, since, outcome>>

\* wg.Wait returns: the errors are joined and the time is taken.
Conclude(p) ==
  /\ pc[p] = "leading"
  /\ todo[p] = {}
  /\ outcome' = [outcome EXCEPT ![p] =
       {[err |-> failed[p] # {}, at |-> clock, since |-> since[p], down |-> down[p]]}]
  /\ pc' = [pc EXCEPT ![p] = "storing"]
  /\ UNCHANGED <<clock, up, registered, cache, flight, now, leader, ctxDone, result, newest,
                 seen, late, since, todo, failed, down>>

\* a.cache[kind].Store
Store(p) ==
  /\ pc[p] = "storing"
  /\ cache' = outcome[p]
  /\ pc' = [pc EXCEPT ![p] = "stored"]
  /\ UNCHANGED <<clock, up, registered, flight, now, leader, ctxDone, result, newest, seen,
                 late, evalVars>>

\* Fault: only the leader gets the result.
LeaderOnly(p) == {p}

\* The callers of flight.Do that get the result of p's evaluation.
Served(p) == {q \in Probes : pc[q] \in {"stored", "joined"} /\ leader[q] = p}

\* The call returns: in one step of singleflight, under its mutex, the result
\* goes to every caller and the key is free again.
FlightEnds(p) ==
  /\ pc[p] = "stored"
  /\ result' = [q \in Probes |-> IF q \in Served(p) THEN outcome[p] ELSE result[q]]
  /\ pc' = [q \in Probes |-> IF q \in Served(p) THEN "hook" ELSE pc[q]]
  /\ flight' = None
  /\ UNCHANGED <<clock, up, registered, cache, now, leader, ctxDone, newest, seen, late,
                 evalVars>>

\* Each caller calls the hook, which the Runner has set, and returns.
CallHook(p) ==
  /\ pc[p] = "hook"
  /\ pc' = [pc EXCEPT ![p] = "returned"]
  /\ \E res \in result[p] : Answer(res)
  /\ UNCHANGED <<clock, up, registered, cache, flight, now, leader, ctxDone, result, seen, late,
                 evalVars>>

-----------------------------------------------------------------------------
ProbeNext(p) ==
  \/ Load(p) \/ Lead(p) \/ Join(p)
  \/ Conclude(p) \/ Store(p) \/ FlightEnds(p) \/ CallHook(p)
  \/ \E c \in Checks : CheckReturns(p, c)

Next ==
  \/ Tick
  \/ \E checks \in SUBSET Checks : Register(checks)
  \/ \E c \in Checks : BackendChanges(c)
  \/ \E p \in Probes : Arrive(p) \/ ClientLeaves(p) \/ ProbeNext(p)

Spec == Init /\ [][Next]_vars

\* A request that has arrived is served; a check returns, at the latest when
\* its timeout ends its context.
Fairness == \A p \in Probes : WF_vars(ProbeNext(p))

FairSpec == Spec /\ Fairness

-----------------------------------------------------------------------------
(* Properties *)

\* What a probe answers is never older than the time to live (health.go:151,
\* 159,187): from the cache, or from an evaluation that it leads or joins in
\* time, the result was concluded less than a TTL before the probe arrived.
\* Only a probe that missed the cache, and joins after the leader has taken
\* the result's time and before singleflight has dropped the key, gets a
\* result of whatever age the leader's delay there has given it.
NeverStale ==
  \A p \in Probes \ late : \A res \in result[p] : res.at >= now[p] \/ now[p] - res.at < TTL

\* The answers never go back in time (health.go:151,159,187): a probe that
\* arrives after another has returned, and whether it finds the cache, joins
\* late or evaluates, is not answered from an older evaluation.
AnswersMoveOn == \A p \in Probes : \A res \in result[p] : res.since >= seen[p]

\* singleflight (health.go:159,187): evaluations do not overlap, so a cached
\* result is never replaced by that of an evaluation that began before it
\* was stored.
CacheMovesOn ==
  [][cache' # cache => \A old \in cache, new \in cache' : new.since >= old.at]_vars

\* No probe hangs (health.go:145-203): leader or follower, with its client
\* gone or not, it gets its answer once the checks return.
ProbesAnswered == \A p \in Probes : (pc[p] = "loading") ~> (pc[p] = "returned")

\* "the readiness actively reflects backend availability" (health.go:70-71):
\* a client that is still there is told of a failure only if some backend was
\* found down.
FailureMeansDown ==
  \A p \in Probes : \A res \in result[p] :
    pc[p] = "returned" /\ res.err /\ p \notin ctxDone => res.down # {}
=============================================================================
