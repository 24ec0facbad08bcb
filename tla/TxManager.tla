------------------------------ MODULE TxManager ------------------------------
(***************************************************************************)
(* databasekit.TxManager (databasekit/txmanager.go) over a pgx pool.  One  *)
(* goroutine calls WithTx, and fn may call WithTx again on its own context;*)
(* the calls are numbered in the order in which they are made.  A call's   *)
(* SQL writes are represented by its number.                               *)
(*                                                                         *)
(* pgx and PostgreSQL are external.  A statement fails without reaching    *)
(* the server when its context is done, a failed statement aborts the      *)
(* transaction, a lost connection makes the server roll back, and a Tx is  *)
(* closed by its first Commit or Rollback even if that fails.              *)
(***************************************************************************)
EXTENDS Integers, FiniteSets

CONSTANT MaxCalls   \* bound: calls of WithTx
ASSUME MaxCallsAssumption == MaxCalls \in Nat

Calls == 1..MaxCalls

VARIABLES poolReady,   \* the pool's readiness channel is closed
          made,        \* how many calls have been made
          top,         \* the call whose fn is running, 0 if none
          parent,      \* the call whose fn made this call, 0 if none
          within,      \* a call and all calls it is nested in
          ctxDone,     \* the calls whose context is done
          outcome,     \* how each call ended
          conn,        \* the transaction's connection: held, lost, or given back
          aborted,     \* the server refuses statements until a rollback
          pending,     \* the writes that the server's transaction holds
          savepoint,   \* those it held when each call began
          wrote,       \* the calls that have written something
          committed    \* the writes that are durable

callVars   == <<made, top, parent, within, outcome>>
serverVars == <<conn, aborted, pending, savepoint, wrote, committed>>
vars == <<poolReady, ctxDone, callVars, serverVars>>

Outcomes == {"unmade", "open", "nil", "beginErr", "fnErr", "rollbackErr", "commitErr", "panic"}

TypeOK ==
  /\ poolReady \in BOOLEAN
  /\ made \in 0..MaxCalls
  /\ top \in 0..MaxCalls
  /\ parent \in [Calls -> 0..MaxCalls]
  /\ within \in [Calls -> SUBSET Calls]
  /\ ctxDone \subseteq Calls
  /\ outcome \in [Calls -> Outcomes]
  /\ conn \in {"none", "held", "lost"}
  /\ aborted \in BOOLEAN
  /\ pending \subseteq Calls
  /\ savepoint \in [Calls -> SUBSET Calls]
  /\ wrote \subseteq Calls
  /\ committed \subseteq Calls

Init ==
  /\ poolReady = FALSE
  /\ made = 0
  /\ top = 0
  /\ parent = [c \in Calls |-> 0]
  /\ within = [c \in Calls |-> {}]
  /\ ctxDone = {}
  /\ outcome = [c \in Calls |-> "unmade"]
  /\ conn = "none"
  /\ aborted = FALSE
  /\ pending = {}
  /\ savepoint = [c \in Calls |-> {}]
  /\ wrote = {}
  /\ committed = {}

-----------------------------------------------------------------------------
(* The world around: contexts, the pool, the connection *)

IsNested(c) == parent[c] # 0

\* A context ends, and with it those derived from it: the calls made inside.
CtxEnds(c) ==
  /\ outcome[c] = "open" /\ c \notin ctxDone
  /\ ctxDone' = ctxDone \cup {d \in Calls : outcome[d] = "open" /\ c \in within[d]}
  /\ UNCHANGED <<poolReady, callVars, serverVars>>

PoolBecomesReady ==
  /\ ~poolReady
  /\ poolReady' = TRUE
  /\ UNCHANGED <<ctxDone, callVars, serverVars>>

\* The connection breaks, for instance because a context ended in the middle
\* of a statement; the server rolls the transaction back.
ConnectionLost ==
  /\ conn = "held"
  /\ conn' = "lost"
  /\ pending' = {}
  /\ UNCHANGED <<poolReady, ctxDone, callVars, aborted, savepoint, wrote, committed>>

\* A statement on call c's context reaches the server.
Reaches(c) == conn = "held" /\ c \notin ctxDone

-----------------------------------------------------------------------------
(* WithTx up to the call of fn *)

\* A call is made inside the running fn, with a context derived from the
\* caller's that may have ended already.
Make(c) ==
  /\ c = made + 1
  /\ made' = c
  /\ parent' = [parent EXCEPT ![c] = top]
  /\ within' = [within EXCEPT ![c] = {c} \cup (IF top = 0 THEN {} ELSE within[top])]
  /\ ctxDone' \in IF top \in ctxDone THEN {ctxDone \cup {c}} ELSE {ctxDone, ctxDone \cup {c}}

Opens(c) ==
  /\ outcome' = [outcome EXCEPT ![c] = "open"]
  /\ top' = c

FailsToBegin(c) ==
  /\ outcome' = [outcome EXCEPT ![c] = "beginErr"]
  /\ UNCHANGED <<top, serverVars>>

\* No transaction on the context: the readiness gate, then Begin on the pool.
BeginTx(c) ==
  /\ top = 0
  /\ Make(c)
  /\ \/ /\ poolReady /\ c \notin ctxDone'
        /\ Opens(c)
        /\ conn' = "held" /\ aborted' = FALSE /\ pending' = {}
        /\ savepoint' = [savepoint EXCEPT ![c] = {}]
        /\ UNCHANGED <<wrote, committed>>
     \/ /\ poolReady \/ c \in ctxDone'
        /\ FailsToBegin(c)
  /\ UNCHANGED poolReady

\* A transaction on the context: SAVEPOINT on its connection.
BeginNested(c) ==
  /\ top # 0
  /\ Make(c)
  /\ \/ /\ conn = "held" /\ c \notin ctxDone' /\ ~aborted
        /\ Opens(c)
        /\ savepoint' = [savepoint EXCEPT ![c] = pending]
        /\ UNCHANGED <<conn, aborted, pending, wrote, committed>>
     \/ /\ conn # "held" \/ c \in ctxDone' \/ aborted
        /\ FailsToBegin(c)
  /\ UNCHANGED poolReady

\* fn writes through the Querier of its context, or the statement fails.
Exec(c) ==
  /\ c = top /\ Reaches(c) /\ ~aborted
  /\ \/ pending' = pending \cup {c} /\ wrote' = wrote \cup {c} /\ UNCHANGED aborted
     \/ aborted' = TRUE /\ UNCHANGED <<pending, wrote>>
  /\ UNCHANGED <<poolReady, ctxDone, callVars, conn, savepoint, committed>>

-----------------------------------------------------------------------------
(* WithTx after fn *)

Returns(c, result) ==
  /\ outcome' = [outcome EXCEPT ![c] = result]
  /\ top' = parent[c]
  /\ UNCHANGED <<poolReady, ctxDone, made, parent, within, savepoint, wrote>>

\* Fault: the whole transaction is undone.
OuterUndone(c) == {}

\* ROLLBACK TO SAVEPOINT
Undone(c) == savepoint[c]

\* Fault: the transaction is committed whatever fn returned.
CommitAnyway(c) ==
  IF IsNested(c) THEN UNCHANGED <<conn, pending, aborted, committed>>
  ELSE /\ conn' = "none" /\ pending' = {} /\ aborted' = FALSE
       /\ committed' = committed \cup pending

\* tx.Rollback.  If it cannot be sent, the connection of an outer transaction
\* is closed, so that the server rolls back; a savepoint is just given up.
Rollback(c) ==
  /\ \/ /\ ~IsNested(c)
        /\ conn' = "none" /\ pending' = {} /\ aborted' = FALSE
     \/ /\ IsNested(c) /\ Reaches(c)
        /\ pending' = Undone(c) /\ aborted' = FALSE /\ UNCHANGED conn
     \/ /\ IsNested(c) /\ ~Reaches(c)
        /\ UNCHANGED <<conn, pending, aborted>>
  /\ UNCHANGED committed

\* Faults: a failed rollback is not told from one that worked; its error is
\* returned in place of fn's.
AlwaysFnErr(c)     == "fnErr"
RollbackErrOnly(c) == IF Reaches(c) THEN "fnErr" ELSE "txErr"

\* fn's error, joined with that of the rollback if it failed.
RollbackResult(c) == IF Reaches(c) THEN "fnErr" ELSE "rollbackErr"

\* fn returns an error.
FnFails(c) ==
  /\ c = top
  /\ Rollback(c)
  /\ Returns(c, RollbackResult(c))

\* Fault: there is no deferred rollback.
NoDeferredRollback(c) == UNCHANGED <<conn, pending, aborted, committed>>

\* The deferred rollback, whose error is dropped.
DeferredRollback(c) == Rollback(c)

\* fn panics, and the panic goes on after the deferred rollback.
FnPanics(c) ==
  /\ c = top
  /\ DeferredRollback(c)
  /\ Returns(c, "panic")

\* fn returns nil and Commit succeeds: COMMIT or RELEASE SAVEPOINT.
Commits(c) ==
  /\ c = top /\ Reaches(c) /\ ~aborted
  /\ \/ IsNested(c) /\ UNCHANGED <<conn, pending, committed>>
     \/ ~IsNested(c) /\ committed' = committed \cup pending
                     /\ conn' = "none" /\ pending' = {}
  /\ UNCHANGED aborted
  /\ Returns(c, "nil")

\* fn returns nil and Commit fails.  It closes the Tx, so the deferred
\* rollback does nothing.  If the connection of an outer transaction breaks
\* during COMMIT, the server may have carried it out.
CommitFails(c) ==
  /\ c = top
  /\ \/ /\ IsNested(c) /\ (~Reaches(c) \/ aborted)
        /\ UNCHANGED <<conn, pending, aborted, committed>>
     \/ /\ ~IsNested(c)
        /\ committed' \in {committed} \cup
             (IF Reaches(c) /\ ~aborted THEN {committed \cup pending} ELSE {})
        /\ conn' = "none" /\ pending' = {} /\ aborted' = FALSE
  /\ Returns(c, "commitErr")

-----------------------------------------------------------------------------
Next ==
  \/ PoolBecomesReady
  \/ ConnectionLost
  \/ \E c \in Calls : \/ CtxEnds(c) \/ BeginTx(c) \/ BeginNested(c) \/ Exec(c)
                      \/ FnFails(c) \/ FnPanics(c) \/ Commits(c) \/ CommitFails(c)

Spec == Init /\ [][Next]_vars

-----------------------------------------------------------------------------
(* Properties *)

\* WithTx always ends its transaction (txmanager.go:169-188): when no WithTx
\* is running, by whatever path the last one returned, its connection has
\* been given back to the pool.
ConnectionReturned == top = 0 => conn = "none"

\* A caller that gets fn's own error from WithTx (txmanager.go:178-181) may
\* take it that nothing fn wrote is ever committed, at any depth of nesting
\* and whatever the outer calls do next.
RolledBackStaysOut == \A c \in committed : outcome[c] # "fnErr"

\* The outer WithTx is all or nothing (txmanager.go:177-186): unless it was
\* the COMMIT itself that failed, an error or a panic leaves none of its
\* writes nor those of the calls inside it.
OuterAllOrNothing ==
  \A c \in committed : \A r \in within[c] :
    ~IsNested(r) => outcome[r] \in {"nil", "commitErr"}

\* "preserving the outer transaction's integrity" (docs/adr/0002:18): when
\* the outer WithTx has returned nil, the writes of every call that, with all
\* the calls around it, returned nil are durable; a failed inner call takes
\* nothing of the others with it.
NothingLost ==
  \A c \in wrote : (\A a \in within[c] : outcome[a] = "nil") => c \in committed

\* "If it fails, the transaction rolls back to that savepoint"
\* (docs/adr/0002:18): no write of a nested WithTx that returned an error is
\* committed by the outer one.
FailedNestedStaysOut ==
  \A c \in committed : IsNested(c) => outcome[c] = "nil"
=============================================================================
