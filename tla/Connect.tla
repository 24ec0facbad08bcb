------------------------------- MODULE Connect -------------------------------
(***************************************************************************)
(* The Connect closures of PostgresDB and RedisCache: retry.Do             *)
(* (core/retry/retry.go) around "create a pool or client, ping it, close   *)
(* it again if the ping fails".  The backends connect concurrently, each   *)
(* in the goroutine of its Start.                                          *)
(***************************************************************************)
EXTENDS Integers

CONSTANTS RetryAttempts,   \* WithConnectRetry per backend, 0 where it is not used
          Base,            \* its backoff
          Width            \* bits of a time.Duration, 64 in the code

ASSUME ConnectAssumption ==
  /\ Base \in Nat /\ Width \in Nat \ {0}
  /\ RetryAttempts \in [{"db", "cache"} -> Nat]

Backends == {"db", "cache"}

VARIABLES cpc,       \* where each Connect is
          attempt,   \* the loop variable of retry.Do
          delay,     \* the duration of the pending timer
          waited,    \* the time that retry.Do has slept
          live,      \* pools or clients created and not closed
          handle,    \* db.pool and cache.client: nil, open, closing or closed
          ready      \* the backend's Ready channel is closed

connectVars == <<cpc, attempt, delay, waited, live, handle, ready>>

ConnectInit ==
  /\ cpc = [b \in Backends |-> "attempt"]
  /\ attempt = [b \in Backends |-> 0]
  /\ delay = [b \in Backends |-> 0]
  /\ waited = [b \in Backends |-> 0]
  /\ live = [b \in Backends |-> 0]
  /\ handle = [b \in Backends |-> "nil"]
  /\ ready = [b \in Backends |-> FALSE]

\* if attempts <= 0 { attempts = 1 }
MaxAttempts(b) == IF RetryAttempts[b] <= 0 THEN 1 ELSE RetryAttempts[b]

\* Two's complement in Width bits.
Wrap(n) == ((n + 2^(Width - 1)) % 2^Width) - 2^(Width - 1)

\* Fault: the backoff grows with the attempt and not with its power of two.
LinearBackoff(a) == Wrap(Base * a)

\* baseBackoff * time.Duration(1<<attempt)
Backoff(a) == Wrap(Base * Wrap(2^a))

\* A random part of at most half the base, or none.
Jitters == {0} \cup 0..(Base \div 2 - 1)

\* A timer for a negative duration fires at once.
TimeToFire(d) == IF d < 0 THEN 0 ELSE d

Leaves(b, to) == cpc' = [cpc EXCEPT ![b] = to]

\* fn returned an error: give up after the last attempt, else arm the timer.
AttemptFails(b) ==
  \/ attempt[b] = MaxAttempts(b) - 1 /\ Leaves(b, "failed") /\ UNCHANGED delay
  \/ /\ attempt[b] < MaxAttempts(b) - 1
     /\ Leaves(b, "backoff")
     /\ \E j \in Jitters : delay' = [delay EXCEPT ![b] = Wrap(Backoff(attempt[b]) + j)]

\* pgxpool.NewWithConfig or redis.NewClient; only the former can fail.
Create(b, ctxDone) ==
  /\ cpc[b] = "attempt" /\ ~ctxDone
  /\ \/ /\ live' = [live EXCEPT ![b] = @ + 1]
        /\ Leaves(b, "ping") /\ UNCHANGED delay
     \/ b = "db" /\ AttemptFails(b) /\ UNCHANGED live
  /\ UNCHANGED <<attempt, waited, handle, ready>>

\* Fault: a pool that does not answer the ping is dropped without a Close.
PingFailsLeaking(b) ==
  /\ cpc[b] = "ping"
  /\ AttemptFails(b)
  /\ UNCHANGED <<attempt, waited, live, handle, ready>>

PingFails(b) ==
  /\ cpc[b] = "ping"
  /\ live' = [live EXCEPT ![b] = @ - 1]
  /\ AttemptFails(b)
  /\ UNCHANGED <<attempt, waited, handle, ready>>

\* The closure stores the pool and returns its stop closure.
PingAnswers(b) ==
  /\ cpc[b] = "ping"
  /\ handle' = [handle EXCEPT ![b] = "open"]
  /\ Leaves(b, "connected")
  /\ UNCHANGED <<attempt, delay, waited, live, ready>>

\* Lifecycle.Start closes the Ready channel after Connect.
SignalReady(b) ==
  /\ cpc[b] = "connected" /\ ~ready[b]
  /\ ready' = [ready EXCEPT ![b] = TRUE]
  /\ UNCHANGED <<cpc, attempt, delay, waited, live, handle>>

TimerFires(b) ==
  /\ cpc[b] = "backoff"
  /\ waited' = [waited EXCEPT ![b] = @ + TimeToFire(delay[b])]
  /\ attempt' = [attempt EXCEPT ![b] = @ + 1]
  /\ Leaves(b, "attempt")
  /\ UNCHANGED <<delay, live, handle, ready>>

\* ctx.Err() before an attempt, or ctx.Done() during the backoff.
Interrupted(b, ctxDone) ==
  /\ cpc[b] \in {"attempt", "backoff"} /\ ctxDone
  /\ Leaves(b, "cancelled")
  /\ UNCHANGED <<attempt, delay, waited, live, handle, ready>>

ConnectStep(b, ctxDone) ==
  \/ Create(b, ctxDone) \/ PingFails(b) \/ PingAnswers(b) \/ SignalReady(b)
  \/ TimerFires(b) \/ Interrupted(b, ctxDone)

-----------------------------------------------------------------------------
\* Whatever the attempts do, a backend owns the one pool or client that it has
\* stored or is pinging, and every other one has been closed.
EveryPoolAccounted ==
  \A b \in Backends :
     live[b] = IF cpc[b] = "ping" \/ handle[b] \in {"open", "closing"} THEN 1 ELSE 0

\* The shift and the product of retry.Do may overflow, which turns the backoff
\* into a busy loop: only once it has slept for nearly as long as a
\* time.Duration can tell.
ShortWaitIsLate ==
  \A b \in Backends :
     cpc[b] = "backoff" /\ delay[b] < Base => waited[b] + 2 * Base >= 2^(Width - 1)
=============================================================================
