--------------------------- MODULE TxManagerProofs ---------------------------
(***************************************************************************)
(* Proofs about TxManager, for any number of calls.  StackInv describes    *)
(* the nesting of the calls; ConnInv, CleanInv and KeptInv what the server *)
(* and its savepoints hold, in terms of how the calls have ended.          *)
(***************************************************************************)
EXTENDS TxManager, TLAPS

Open(c) == outcome[c] = "open"

\* The running calls are the one on top and those around it.
StackInv ==
  /\ top <= made
  /\ \A c \in Calls : outcome[c] = "unmade" <=> c > made
  /\ \A c \in Calls : c <= made =>
       /\ parent[c] < c
       /\ within[c] = {c} \cup (IF parent[c] = 0 THEN {} ELSE within[parent[c]])
       /\ within[c] \subseteq 1..c
       /\ \A a \in within[c] : parent[a] # 0 => parent[a] \in within[c]
  /\ \A c \in Calls : Open(c) <=> (top # 0 /\ c \in within[top])

\* A write that a later COMMIT may make durable: the outer call it belongs to
\* is running, and the call that wrote it was not rolled back.
Clean(x) ==
  /\ outcome[x] \notin {"unmade", "fnErr"}
  /\ \A r \in within[x] : parent[r] = 0 => Open(r)

\* No call around x has failed, and one of them is still running.
Live(x) ==
  /\ \A a \in within[x] : outcome[a] \in {"open", "nil"}
  /\ \E a \in within[x] : Open(a)

ConnInv ==
  /\ top = 0 => conn = "none"
  /\ conn # "held" => pending = {}

\* What may be committed, and what has been.
CleanInv ==
  /\ \A x \in pending : Clean(x)
  /\ \A d \in Calls : Open(d) => \A x \in savepoint[d] : x < d /\ Clean(x)
  /\ \A x \in committed :
       /\ outcome[x] \notin {"unmade", "open", "fnErr"}
       /\ \A r \in within[x] : parent[r] = 0 => outcome[r] \in {"nil", "commitErr"}

\* No write of a live call is missing from the server's transaction, nor from
\* a savepoint taken after it.
KeptInv ==
  /\ \A x \in wrote : outcome[x] # "unmade"
  /\ conn = "held" => \A x \in wrote : Live(x) =>
       /\ x \in pending
       /\ \A d \in Calls : Open(d) => x \in savepoint[d] \/ d \in within[x]
  /\ NothingLost

USE MaxCallsAssumption

-----------------------------------------------------------------------------
(* Types *)

LEMMA TypeInit == Init => TypeOK
<1> SUFFICES ASSUME Init PROVE TypeOK
  OBVIOUS
<1>1. outcome \in [Calls -> Outcomes] BY DEF Init, Outcomes
<1>2. parent \in [Calls -> 0..MaxCalls] /\ made \in 0..MaxCalls /\ top \in 0..MaxCalls
  BY DEF Init
<1> QED BY <1>1, <1>2 DEF Init, TypeOK

\* Beginning a call keeps the types.
LEMMA TypeBegin ==
  ASSUME TypeOK, NEW c \in Calls, BeginTx(c) \/ BeginNested(c)
  PROVE  TypeOK'
<1>1. /\ made' \in 0..MaxCalls /\ parent' \in [Calls -> 0..MaxCalls]
      /\ within' \in [Calls -> SUBSET Calls] /\ ctxDone' \subseteq Calls
  <2>1. Make(c) BY DEF BeginTx, BeginNested
  <2>2. c \in 0..MaxCalls /\ (top # 0 => top \in Calls) BY DEF Calls, TypeOK
  <2>3. {c} \cup (IF top = 0 THEN {} ELSE within[top]) \in SUBSET Calls
    BY <2>2 DEF TypeOK
  <2>4. within' \in [Calls -> SUBSET Calls] BY <2>1, <2>3 DEF Make, TypeOK
  <2>5. ctxDone' \subseteq Calls BY <2>1 DEF Make, TypeOK
  <2> QED BY <2>1, <2>2, <2>4, <2>5 DEF Make, TypeOK
<1>2. top' \in 0..MaxCalls /\ outcome' \in [Calls -> Outcomes]
  <2>1. \/ outcome' = [outcome EXCEPT ![c] = "open"] /\ top' = c
        \/ outcome' = [outcome EXCEPT ![c] = "beginErr"] /\ top' = top
    BY DEF BeginTx, BeginNested, Opens, FailsToBegin
  <2>2. top' \in 0..MaxCalls BY <2>1 DEF TypeOK, Calls
  <2>3. {"open", "beginErr"} \subseteq Outcomes BY DEF Outcomes
  <2>4. outcome' \in [Calls -> Outcomes] BY <2>1, <2>3 DEF TypeOK
  <2> QED BY <2>2, <2>4
<1>3. /\ conn' \in {"none", "held", "lost"} /\ aborted' \in BOOLEAN /\ pending' \subseteq Calls
      /\ savepoint' \in [Calls -> SUBSET Calls] /\ wrote' \subseteq Calls
      /\ committed' \subseteq Calls /\ poolReady' \in BOOLEAN
  BY DEF TypeOK, BeginTx, BeginNested, FailsToBegin, serverVars
<1> QED BY <1>1, <1>2, <1>3 DEF TypeOK

\* The end of a call keeps the types.
LEMMA TypeReturn ==
  ASSUME TypeOK, NEW c \in Calls, FnFails(c) \/ FnPanics(c) \/ Commits(c) \/ CommitFails(c)
  PROVE  TypeOK'
<1>1. PICK res \in Outcomes : Returns(c, res)
  BY DEF FnFails, FnPanics, Commits, CommitFails, RollbackResult, Outcomes
<1>2. /\ conn' \in {"none", "held", "lost"} /\ aborted' \in BOOLEAN
      /\ pending' \subseteq Calls /\ committed' \subseteq Calls
  BY DEF TypeOK, FnFails, FnPanics, Commits, CommitFails, DeferredRollback, Rollback, Undone
<1> QED BY <1>1, <1>2 DEF TypeOK, Returns

LEMMA TypeStep == TypeOK /\ [Next]_vars => TypeOK'
<1> SUFFICES ASSUME TypeOK, [Next]_vars PROVE TypeOK'
  OBVIOUS
<1>1. CASE PoolBecomesReady BY <1>1 DEF TypeOK, PoolBecomesReady, callVars, serverVars
<1>2. CASE ConnectionLost BY <1>2 DEF TypeOK, ConnectionLost, callVars
<1>3. ASSUME NEW c \in Calls, CtxEnds(c) PROVE TypeOK'
  BY <1>3 DEF TypeOK, CtxEnds, callVars, serverVars
<1>4. ASSUME NEW c \in Calls, Exec(c) PROVE TypeOK'
  BY <1>4 DEF TypeOK, Exec, callVars
<1>5. CASE UNCHANGED vars BY <1>5 DEF TypeOK, vars, callVars, serverVars
<1> QED BY <1>1, <1>2, <1>3, <1>4, <1>5, TypeBegin, TypeReturn DEF Next

\* The variables of TxManager keep their types.
THEOREM TypeCorrect == Spec => []TypeOK
BY TypeInit, TypeStep, PTL DEF Spec

-----------------------------------------------------------------------------
(* The nesting of calls *)

\* A call that begins, well or not, goes on top of the stack or leaves it alone.
LEMMA StackBegin ==
  ASSUME TypeOK, StackInv, NEW c \in Calls, BeginTx(c) \/ BeginNested(c)
  PROVE  StackInv'
<1>1. /\ c = made + 1 /\ made' = c /\ made \in Nat
      /\ parent' = [parent EXCEPT ![c] = top]
      /\ within' = [within EXCEPT ![c] = {c} \cup (IF top = 0 THEN {} ELSE within[top])]
  BY DEF BeginTx, BeginNested, Make, TypeOK
<1>2. \/ outcome' = [outcome EXCEPT ![c] = "open"] /\ top' = c
      \/ outcome' = [outcome EXCEPT ![c] = "beginErr"] /\ top' = top
  BY DEF BeginTx, BeginNested, Opens, FailsToBegin
<1>3. top \in 0..made /\ (top # 0 => top \in Calls)
  BY <1>1 DEF StackInv, TypeOK, Calls
<1>4. ~Open(c) /\ (top # 0 => c \notin within[top])
  BY <1>1, <1>3 DEF StackInv, Open, Calls
<1>5. top' <= made' /\ \A d \in Calls : outcome'[d] = "unmade" <=> d > made'
  BY <1>1, <1>2, <1>3 DEF StackInv, TypeOK, Calls
<1>6. ASSUME NEW d \in Calls, d <= made'
      PROVE  /\ parent'[d] < d
             /\ within'[d] = {d} \cup (IF parent'[d] = 0 THEN {} ELSE within'[parent'[d]])
             /\ within'[d] \subseteq 1..d
             /\ \A a \in within'[d] : parent'[a] # 0 => parent'[a] \in within'[d]
  <2>1. CASE d = c
    <3>1. parent'[d] = top /\ within'[d] = {c} \cup (IF top = 0 THEN {} ELSE within[top])
      BY <1>1, <2>1 DEF TypeOK
    <3>2. top # 0 => within'[top] = within[top] /\ top \in within[top] /\ within[top] \subseteq 1..top
      BY <1>1, <1>3 DEF StackInv, TypeOK
    <3>3. \A a \in within'[d] : a # c => a \in Calls /\ parent'[a] = parent[a]
      BY <1>1, <1>3, <3>1 DEF TypeOK
    <3>4. within'[d] \subseteq 1..d BY <1>1, <1>3, <2>1, <3>1, <3>2 DEF Calls
    <3>5. \A a \in within'[d] : parent'[a] # 0 => parent'[a] \in within'[d]
      BY <1>3, <2>1, <3>1, <3>2, <3>3 DEF StackInv
    <3>6. parent'[d] < d BY <1>1, <1>3, <2>1, <3>1
    <3> QED BY <2>1, <3>1, <3>2, <3>4, <3>5, <3>6
  <2>2. CASE d # c
    <3>1. d <= made BY <1>1, <2>2, <1>6 DEF Calls
    <3>2. parent'[d] = parent[d] /\ within'[d] = within[d] BY <1>1, <2>2 DEF TypeOK
    <3>3. parent[d] # 0 => parent[d] \in Calls /\ parent[d] # c
      BY <1>1, <3>1 DEF StackInv, TypeOK, Calls
    <3>4. \A a \in within[d] : a \in Calls /\ a # c BY <1>1, <3>1 DEF StackInv, TypeOK, Calls
    <3>5. \A a \in within[d] : parent'[a] = parent[a] BY <1>1, <3>4 DEF TypeOK
    <3>6. parent[d] # 0 => within'[parent[d]] = within[parent[d]] BY <1>1, <3>3 DEF TypeOK
    <3> QED BY <3>1, <3>2, <3>5, <3>6 DEF StackInv
  <2> QED BY <2>1, <2>2
<1>7. \A d \in Calls : Open(d)' <=> (top' # 0 /\ d \in within'[top'])
  <2>1. CASE outcome' = [outcome EXCEPT ![c] = "open"] /\ top' = c
    <3>1. c # 0 /\ within'[c] = {c} \cup (IF top = 0 THEN {} ELSE within[top])
      BY <1>1 DEF Calls, TypeOK
    <3> QED BY <2>1, <3>1 DEF StackInv, Open, TypeOK
  <2>2. CASE outcome' = [outcome EXCEPT ![c] = "beginErr"] /\ top' = top
    <3>1. top # 0 => within'[top] = within[top] BY <1>1, <1>3 DEF TypeOK
    <3> QED BY <1>4, <2>2, <3>1 DEF StackInv, Open, TypeOK
  <2> QED BY <1>2, <2>1, <2>2
<1> QED BY <1>5, <1>6, <1>7 DEF StackInv

\* What the end of the running call does to the calls.
LEMMA ReturnFacts ==
  ASSUME NEW c \in Calls, FnFails(c) \/ FnPanics(c) \/ Commits(c) \/ CommitFails(c)
  PROVE  /\ c = top
         /\ \E res \in {"nil", "fnErr", "rollbackErr", "commitErr", "panic"} : Returns(c, res)
BY DEF FnFails, FnPanics, Commits, CommitFails, RollbackResult

\* The running call ends and the one around it runs on.
LEMMA StackReturn ==
  ASSUME TypeOK, StackInv, NEW c \in Calls, c = top,
         NEW res \in {"nil", "fnErr", "rollbackErr", "commitErr", "panic"}, Returns(c, res)
  PROVE  StackInv'
<1>1. /\ outcome' = [outcome EXCEPT ![c] = res] /\ top' = parent[c]
      /\ made' = made /\ parent' = parent /\ within' = within
  BY DEF Returns
<1>2. c \in Nat /\ c # 0 /\ c <= made /\ made \in Nat BY DEF StackInv, TypeOK, Calls
<1>3. /\ parent[c] < c /\ parent[c] \in Nat /\ (parent[c] # 0 => parent[c] \in Calls)
      /\ within[c] = {c} \cup (IF parent[c] = 0 THEN {} ELSE within[parent[c]])
  BY <1>2 DEF StackInv, TypeOK, Calls
<1>4. parent[c] # 0 => c \notin within[parent[c]] BY <1>2, <1>3 DEF StackInv
<1>5. \A d \in Calls : Open(d)' <=> (top' # 0 /\ d \in within'[top'])
  BY <1>1, <1>2, <1>3, <1>4 DEF StackInv, Open, TypeOK
<1>6. \A d \in Calls : outcome'[d] = "unmade" <=> d > made'
  BY <1>1, <1>2 DEF StackInv, TypeOK
<1>7. top' <= made' BY <1>1, <1>2, <1>3
<1> QED BY <1>1, <1>5, <1>6, <1>7 DEF StackInv

LEMMA StackStep == TypeOK /\ StackInv /\ [Next]_vars => StackInv'
<1> SUFFICES ASSUME TypeOK, StackInv, [Next]_vars PROVE StackInv'
  OBVIOUS
<1>1. ASSUME UNCHANGED callVars PROVE StackInv' BY <1>1 DEF StackInv, Open, callVars
<1>2. ASSUME NEW c \in Calls, FnFails(c) \/ FnPanics(c) \/ Commits(c) \/ CommitFails(c)
      PROVE  StackInv'
  BY <1>2, ReturnFacts, StackReturn
<1> QED BY <1>1, <1>2, StackBegin DEF Next, PoolBecomesReady, ConnectionLost, CtxEnds, Exec, vars

\* The nesting is as StackInv says along every behaviour.
THEOREM StackInvariant == Spec => [](TypeOK /\ StackInv)
<1>1. Init => StackInv BY DEF Init, StackInv, Open, Calls
<1> QED BY <1>1, TypeInit, TypeStep, StackStep, PTL DEF Spec

-----------------------------------------------------------------------------
(* The connection *)

LEMMA ConnStep == TypeOK /\ StackInv /\ ConnInv /\ [Next]_vars => ConnInv'
<1> SUFFICES ASSUME TypeOK, StackInv, ConnInv, [Next]_vars PROVE ConnInv'
  OBVIOUS
<1>1. CASE PoolBecomesReady BY <1>1 DEF ConnInv, PoolBecomesReady, callVars, serverVars
<1>2. CASE ConnectionLost BY <1>2 DEF ConnInv, ConnectionLost, callVars
<1>3. ASSUME NEW c \in Calls, CtxEnds(c) PROVE ConnInv'
  BY <1>3 DEF ConnInv, CtxEnds, callVars, serverVars
<1>4. ASSUME NEW c \in Calls, Exec(c) PROVE ConnInv'
  BY <1>4 DEF ConnInv, Exec, Reaches, callVars
<1>5. ASSUME NEW c \in Calls, BeginTx(c) \/ BeginNested(c) PROVE ConnInv'
  <2>1. c # 0 BY DEF Calls
  <2> QED BY <1>5, <2>1 DEF ConnInv, BeginTx, BeginNested, Opens, FailsToBegin, serverVars
<1>6. ASSUME NEW c \in Calls, FnFails(c) \/ FnPanics(c) \/ Commits(c) \/ CommitFails(c)
      PROVE  ConnInv'
  <2>1. c = top /\ top' = parent[c] BY <1>6, ReturnFacts DEF Returns
  <2>2. c # 0 BY DEF Calls
  <2> QED BY <1>6, <2>1, <2>2 DEF ConnInv, FnFails, FnPanics, Commits, CommitFails,
             DeferredRollback, Rollback, IsNested, Reaches
<1>7. CASE UNCHANGED vars BY <1>7 DEF ConnInv, vars, callVars, serverVars
<1> QED BY <1>1, <1>2, <1>3, <1>4, <1>5, <1>6, <1>7 DEF Next

-----------------------------------------------------------------------------
(* What is rolled back stays out *)

\* A call that begins disturbs no call made before it.
LEMMA BeginFacts ==
  ASSUME TypeOK, StackInv, NEW c \in Calls, BeginTx(c) \/ BeginNested(c)
  PROVE  /\ c = made + 1 /\ outcome[c] = "unmade" /\ outcome'[c] \in {"open", "beginErr"}
         /\ \A d \in Calls : outcome[d] # "unmade" =>
              /\ outcome'[d] = outcome[d] /\ within'[d] = within[d]
              /\ \A a \in within[d] : a \in Calls /\ a # c /\ outcome'[a] = outcome[a]
                                        /\ parent'[a] = parent[a]
<1>1. /\ c = made + 1 /\ made \in Nat /\ parent' = [parent EXCEPT ![c] = top]
      /\ within' = [within EXCEPT ![c] = {c} \cup (IF top = 0 THEN {} ELSE within[top])]
  BY DEF BeginTx, BeginNested, Make, TypeOK
<1>2. \E o \in {"open", "beginErr"} : outcome' = [outcome EXCEPT ![c] = o]
  BY DEF BeginTx, BeginNested, Opens, FailsToBegin
<1>3. outcome[c] = "unmade" BY <1>1 DEF StackInv, Calls
<1>4. ASSUME NEW d \in Calls, outcome[d] # "unmade" PROVE d # c /\ d <= made
  BY <1>1, <1>3, <1>4 DEF StackInv, Calls
<1>5. ASSUME NEW d \in Calls, outcome[d] # "unmade", NEW a \in within[d]
      PROVE  a \in Calls /\ a # c
  BY <1>1, <1>4, <1>5 DEF StackInv, TypeOK, Calls
<1> QED BY <1>1, <1>2, <1>3, <1>4, <1>5 DEF TypeOK

\* A call that ends leaves the outcomes of the others, and is the largest that
\* is open.
LEMMA EndFacts ==
  ASSUME TypeOK, StackInv, NEW c \in Calls, c = top,
         NEW res \in {"nil", "fnErr", "rollbackErr", "commitErr", "panic"}, Returns(c, res)
  PROVE  /\ Open(c) /\ outcome' = [outcome EXCEPT ![c] = res]
         /\ parent' = parent /\ within' = within /\ savepoint' = savepoint /\ wrote' = wrote
         /\ \A d \in Calls : Open(d) => d <= c
         /\ \A d \in Calls : Open(d)' => Open(d) /\ d < c
         /\ ~IsNested(c) => \A d \in Calls : Open(d) => d = c
         /\ IsNested(c) => Open(parent[c]) /\ parent[c] \in Calls /\ parent[c] # c
<1>1. c # 0 /\ c \in Nat /\ c <= made BY DEF StackInv, Calls, TypeOK
<1>2. /\ within[c] = {c} \cup (IF parent[c] = 0 THEN {} ELSE within[parent[c]])
      /\ within[c] \subseteq 1..c /\ parent[c] < c
      /\ parent[c] # 0 => parent[c] \in within[c]
  BY <1>1 DEF StackInv
<1>3. \A d \in Calls : Open(d) <=> d \in within[c] BY <1>1 DEF StackInv
<1>4. parent[c] # 0 => parent[c] \in Calls BY DEF TypeOK, Calls
<1>5. outcome' = [outcome EXCEPT ![c] = res] /\ parent' = parent /\ within' = within
      /\ savepoint' = savepoint /\ wrote' = wrote
  BY DEF Returns
<1>6. \A d \in Calls : Open(d) => d <= c BY <1>2, <1>3
<1>7. \A d \in Calls : Open(d)' => Open(d) /\ d # c BY <1>5 DEF Open, TypeOK
<1>8. \A d \in Calls : Open(d)' => Open(d) /\ d < c BY <1>6, <1>7 DEF Calls
<1>9. parent[c] # 0 => parent[c] # c BY <1>1, <1>2
<1> QED BY <1>2, <1>3, <1>4, <1>5, <1>6, <1>8, <1>9 DEF IsNested

LEMMA CleanBegin ==
  ASSUME TypeOK, StackInv, ConnInv, CleanInv, NEW c \in Calls, BeginTx(c) \/ BeginNested(c)
  PROVE  CleanInv'
<1>1. ASSUME NEW x \in Calls, Clean(x) PROVE Clean(x)'
  BY <1>1, BeginFacts DEF Clean, Open
<1>2. pending' \in {{}, pending} /\ committed' = committed
  BY DEF BeginTx, BeginNested, FailsToBegin, serverVars
<1>3. savepoint' = savepoint \/ \E S \in {{}, pending} : savepoint' = [savepoint EXCEPT ![c] = S]
  BY DEF BeginTx, BeginNested, FailsToBegin, serverVars
<1>4. \A x \in pending' : Clean(x)' BY <1>1, <1>2 DEF CleanInv, TypeOK
<1>5. ASSUME NEW d \in Calls, Open(d)', NEW x \in savepoint'[d] PROVE x < d /\ Clean(x)'
  <2>1. CASE d # c
    <3>1. Open(d)
      <4>1. outcome'[d] = outcome[d]
        BY <2>1 DEF BeginTx, BeginNested, Opens, FailsToBegin, TypeOK
      <4> QED BY <1>5, <4>1 DEF Open
    <3>2. x \in savepoint[d] BY <1>3, <1>5, <2>1 DEF TypeOK
    <3> QED BY <1>1, <3>1, <3>2 DEF CleanInv, TypeOK
  <2>2. CASE d = c
    <3>1. outcome'[c] = "open" BY <1>5, <2>2 DEF Open
    <3>2. savepoint'[c] \in {{}, pending}
      BY <3>1 DEF BeginTx, BeginNested, FailsToBegin, TypeOK
    <3>3. x \in pending BY <1>5, <2>2, <3>2
    <3>4. Clean(x) /\ x \in Calls BY <3>3 DEF CleanInv, TypeOK
    <3>5. x <= made BY <3>4 DEF Clean, StackInv, TypeOK, Calls
    <3>6. Clean(x)' BY <1>1, <3>4
    <3>7. c = made + 1 BY DEF BeginTx, BeginNested, Make
    <3>8. x < d BY <2>2, <3>4, <3>5, <3>7 DEF TypeOK, Calls
    <3> QED BY <3>6, <3>8
  <2> QED BY <2>1, <2>2
<1>6. ASSUME NEW x \in committed'
      PROVE  /\ outcome'[x] \notin {"unmade", "open", "fnErr"}
             /\ \A r \in within'[x] : parent'[r] = 0 => outcome'[r] \in {"nil", "commitErr"}
  BY <1>2, <1>6, BeginFacts DEF CleanInv, TypeOK
<1> QED BY <1>4, <1>5, <1>6 DEF CleanInv

LEMMA CleanReturn ==
  ASSUME TypeOK, StackInv, ConnInv, CleanInv, NEW c \in Calls,
         FnFails(c) \/ FnPanics(c) \/ Commits(c) \/ CommitFails(c)
  PROVE  CleanInv'
<1>1. c = top BY ReturnFacts
<1>2. PICK res \in {"nil", "fnErr", "rollbackErr", "commitErr", "panic"} : Returns(c, res)
  BY ReturnFacts
<1>3. /\ outcome' = [outcome EXCEPT ![c] = res] /\ parent' = parent /\ within' = within
      /\ savepoint' = savepoint /\ Open(c)
  BY <1>1, <1>2, EndFacts
<1>4. ASSUME NEW x \in Calls, Clean(x), x # c \/ res # "fnErr", IsNested(c) PROVE Clean(x)'
  <2>1. \A r \in within[x] : r \in Calls BY DEF TypeOK
  <2> QED BY <1>3, <1>4, <2>1 DEF Clean, Open, IsNested, TypeOK
<1>5. \A x \in pending' : Clean(x)'
  <2>1. CASE ~IsNested(c)
    BY <2>1 DEF FnFails, FnPanics, Commits, CommitFails, DeferredRollback, Rollback
  <2>2. CASE IsNested(c) /\ (FnFails(c) \/ FnPanics(c)) /\ Reaches(c)
    <3>1. pending' = savepoint[c]
      BY <2>2 DEF FnFails, FnPanics, DeferredRollback, Rollback, Undone
    <3>2. \A x \in savepoint[c] : x \in Calls /\ x < c /\ Clean(x) BY <1>3 DEF CleanInv, TypeOK
    <3> QED BY <1>4, <2>2, <3>1, <3>2 DEF Calls
  <2>3. CASE IsNested(c) /\ ~((FnFails(c) \/ FnPanics(c)) /\ Reaches(c))
    <3>1. pending' = pending
      BY <2>3 DEF FnFails, FnPanics, Commits, CommitFails, DeferredRollback, Rollback
    <3>2. res # "fnErr"
      <4>1. outcome'[c] = res BY <1>3 DEF TypeOK
      <4> QED BY <2>3, <4>1 DEF FnFails, FnPanics, Commits, CommitFails, Returns,
                    RollbackResult, TypeOK
    <3> QED BY <1>4, <2>3, <3>1, <3>2 DEF CleanInv, TypeOK
  <2> QED BY <2>1, <2>2, <2>3
<1>6. ASSUME NEW d \in Calls, Open(d)', NEW x \in savepoint'[d] PROVE x < d /\ Clean(x)'
  <2>1. Open(d) /\ d < c BY <1>1, <1>2, <1>6, EndFacts
  <2>2. x \in Calls /\ x < d /\ Clean(x) BY <1>3, <1>6, <2>1 DEF CleanInv, TypeOK
  <2>3. IsNested(c)
    <3>1. d # c BY <2>1 DEF Calls
    <3> QED BY <1>1, <1>2, <2>1, <3>1, EndFacts
  <2>4. x # c BY <2>1, <2>2 DEF Calls
  <2> QED BY <1>4, <2>2, <2>3, <2>4
<1>7. ASSUME NEW x \in committed'
      PROVE  /\ outcome'[x] \notin {"unmade", "open", "fnErr"}
             /\ \A r \in within'[x] : parent'[r] = 0 => outcome'[r] \in {"nil", "commitErr"}
  <2>1. CASE x \in committed
    <3>1. x \in Calls /\ x # c /\ \A r \in within[x] : r \in Calls
      BY <1>3, <2>1 DEF CleanInv, TypeOK, Open
    <3>2. \A r \in within[x] : parent[r] = 0 => r # c BY <1>3, <2>1 DEF CleanInv, Open
    <3> QED BY <1>3, <2>1, <3>1, <3>2 DEF CleanInv, TypeOK
  <2>2. CASE x \notin committed
    <3>1. x \in pending /\ ~IsNested(c) /\ res \in {"nil", "commitErr"}
      <4>1. outcome'[c] = res BY <1>3 DEF TypeOK
      <4>2. Commits(c) \/ CommitFails(c)
        BY <1>7, <2>2 DEF FnFails, FnPanics, DeferredRollback, Rollback
      <4>3. outcome'[c] \in {"nil", "commitErr"}
        BY <4>2 DEF Commits, CommitFails, Returns, TypeOK
      <4>4. x \in pending /\ ~IsNested(c)
        BY <1>7, <2>2, <4>2 DEF Commits, CommitFails
      <4> QED BY <4>1, <4>3, <4>4
    <3>2. Clean(x) /\ x \in Calls /\ \A r \in within[x] : r \in Calls
      BY <3>1 DEF CleanInv, TypeOK
    <3>3. \A d \in Calls : Open(d) => d = c BY <1>1, <1>2, <3>1, EndFacts
    <3>4. \A r \in within[x] : parent[r] = 0 => r = c BY <3>2, <3>3 DEF Clean
    <3>5. outcome'[x] \notin {"unmade", "open", "fnErr"}
      BY <1>3, <3>1, <3>2, <3>3 DEF Clean, Open, TypeOK
    <3> QED BY <1>3, <3>1, <3>4, <3>5 DEF TypeOK
  <2> QED BY <2>1, <2>2
<1> QED BY <1>5, <1>6, <1>7 DEF CleanInv

LEMMA CleanStep == TypeOK /\ StackInv /\ ConnInv /\ CleanInv /\ [Next]_vars => CleanInv'
<1> SUFFICES ASSUME TypeOK, StackInv, ConnInv, CleanInv, [Next]_vars PROVE CleanInv'
  OBVIOUS
<1>1. CASE PoolBecomesReady
  BY <1>1 DEF CleanInv, Clean, Open, PoolBecomesReady, callVars, serverVars
<1>2. CASE ConnectionLost BY <1>2 DEF CleanInv, Clean, Open, ConnectionLost, callVars
<1>3. ASSUME NEW c \in Calls, CtxEnds(c) PROVE CleanInv'
  BY <1>3 DEF CleanInv, Clean, Open, CtxEnds, callVars, serverVars
<1>4. ASSUME NEW c \in Calls, Exec(c) PROVE CleanInv'
  <2>1. c = top /\ c # 0 BY <1>4 DEF Exec, Calls
  <2>2. \A a \in within[c] : Open(a) BY <2>1 DEF StackInv, TypeOK
  <2>3. c \in within[c] BY <2>1 DEF StackInv
  <2>4. Clean(c) BY <2>2, <2>3 DEF Clean, Open
  <2>5. pending' \subseteq pending \cup {c} /\ committed' = committed
        /\ savepoint' = savepoint /\ outcome' = outcome /\ parent' = parent /\ within' = within
    BY <1>4 DEF Exec, callVars
  <2> QED BY <2>4, <2>5 DEF CleanInv, Clean, Open
<1>5. CASE UNCHANGED vars BY <1>5 DEF CleanInv, Clean, Open, vars, callVars, serverVars
<1> QED BY <1>1, <1>2, <1>3, <1>4, <1>5, CleanBegin, CleanReturn DEF Next

-----------------------------------------------------------------------------
(* Nothing is lost *)

LEMMA KeptBegin ==
  ASSUME TypeOK, StackInv, KeptInv, NEW c \in Calls, BeginTx(c) \/ BeginNested(c)
  PROVE  KeptInv'
<1>1. wrote' = wrote /\ committed' = committed
  BY DEF BeginTx, BeginNested, FailsToBegin, serverVars
<1>2. ASSUME NEW x \in wrote
      PROVE  /\ x \in Calls /\ outcome[x] # "unmade" /\ outcome'[x] = outcome[x]
             /\ within'[x] = within[x]
             /\ \A a \in within[x] : a \in Calls /\ a # c /\ outcome'[a] = outcome[a]
  BY <1>2, BeginFacts DEF KeptInv, TypeOK
<1>3. \A x \in wrote : Live(x)' => Live(x) BY <1>2 DEF Live, Open
<1>4. NothingLost' BY <1>1, <1>2 DEF KeptInv, NothingLost
<1>5. ASSUME conn' = "held", NEW x \in wrote, Live(x)'
      PROVE  /\ x \in pending'
             /\ \A d \in Calls : Open(d)' => x \in savepoint'[d] \/ d \in within'[x]
  <2>1. Live(x) BY <1>3, <1>5
  <2>2. top # 0
    <3>1. \A a \in Calls : top = 0 => ~Open(a) BY DEF StackInv
    <3> QED BY <1>2, <2>1, <3>1 DEF Live
  <2>3. BeginNested(c) BY <2>2 DEF BeginTx
  <2>4. conn = "held" /\ pending' = pending
    BY <1>5, <2>3 DEF BeginNested, FailsToBegin, serverVars
  <2>5. x \in pending /\ \A d \in Calls : Open(d) => x \in savepoint[d] \/ d \in within[x]
    BY <2>1, <2>4 DEF KeptInv
  <2>6. \A d \in Calls : d # c => outcome'[d] = outcome[d] /\ savepoint'[d] = savepoint[d]
    BY <2>3 DEF BeginNested, Opens, FailsToBegin, serverVars, TypeOK
  <2>7. Open(c)' => savepoint'[c] = pending
    BY <2>3 DEF BeginNested, Opens, FailsToBegin, serverVars, TypeOK, Open
  <2> QED BY <1>2, <2>4, <2>5, <2>6, <2>7 DEF Open
<1> QED BY <1>1, <1>2, <1>4, <1>5 DEF KeptInv

LEMMA KeptReturn ==
  ASSUME TypeOK, StackInv, KeptInv, NEW c \in Calls,
         FnFails(c) \/ FnPanics(c) \/ Commits(c) \/ CommitFails(c)
  PROVE  KeptInv'
<1>1. c = top BY ReturnFacts
<1>2. PICK res \in {"nil", "fnErr", "rollbackErr", "commitErr", "panic"} : Returns(c, res)
  BY ReturnFacts
<1>3. /\ outcome' = [outcome EXCEPT ![c] = res] /\ outcome'[c] = res
      /\ parent' = parent /\ within' = within
      /\ savepoint' = savepoint /\ wrote' = wrote /\ Open(c)
  BY <1>1, <1>2, EndFacts DEF TypeOK
<1>4. committed \subseteq committed'
  BY DEF FnFails, FnPanics, Commits, CommitFails, DeferredRollback, Rollback
<1>5. ASSUME NEW x \in wrote
      PROVE  x \in Calls /\ outcome[x] # "unmade" /\ x <= made
             /\ \A a \in within[x] : a \in Calls
  BY <1>5 DEF KeptInv, TypeOK, StackInv, Calls
<1>6. res = "nil" => Commits(c)
  BY <1>3 DEF FnFails, FnPanics, CommitFails, Returns, RollbackResult, TypeOK
<1>7. ASSUME NEW x \in wrote, \A a \in within[x] : outcome'[a] \in {"open", "nil"},
             \E a \in within[x] : Open(a)
      PROVE  Live(x)
  BY <1>3, <1>5, <1>7 DEF Live, Open, TypeOK
<1>8. ASSUME NEW x \in wrote, \A a \in within'[x] : outcome'[a] = "nil" PROVE x \in committed'
  <2>1. CASE c \notin within[x]
    <3>1. \A a \in within[x] : outcome[a] = "nil" BY <1>3, <1>5, <1>8, <2>1 DEF TypeOK
    <3> QED BY <1>4, <3>1 DEF KeptInv, NothingLost
  <2>2. CASE c \in within[x]
    <3>1. res = "nil" BY <1>3, <1>8, <2>2
    <3>2. Live(x) BY <1>3, <1>7, <1>8, <2>2
    <3>3. conn = "held" BY <1>6, <3>1 DEF Commits, Reaches
    <3>4. x \in pending BY <3>2, <3>3 DEF KeptInv
    <3>5. ~IsNested(c)
      <4>1. SUFFICES ASSUME IsNested(c) PROVE FALSE OBVIOUS
      <4>2. parent[c] \in within[x] BY <1>5, <2>2, <4>1 DEF StackInv, IsNested
      <4>3. Open(parent[c]) /\ parent[c] # c BY <1>1, <1>2, <4>1, EndFacts
      <4> QED BY <1>3, <1>5, <1>8, <4>2, <4>3 DEF Open, TypeOK
    <3> QED BY <1>6, <3>1, <3>4, <3>5 DEF Commits
  <2> QED BY <2>1, <2>2
<1>9. ASSUME conn' = "held", NEW x \in wrote, Live(x)'
      PROVE  /\ x \in pending'
             /\ \A d \in Calls : Open(d)' => x \in savepoint'[d] \/ d \in within'[x]
  <2>1. Live(x)
    <3>1. \A d \in Calls : Open(d)' => Open(d) BY <1>1, <1>2, EndFacts
    <3> QED BY <1>3, <1>5, <1>7, <1>9, <3>1 DEF Live
  <2>2. IsNested(c) /\ conn = "held"
    BY <1>9 DEF FnFails, FnPanics, Commits, CommitFails, DeferredRollback, Rollback
  <2>3. x \in pending /\ \A d \in Calls : Open(d) => x \in savepoint[d] \/ d \in within[x]
    BY <2>1, <2>2 DEF KeptInv
  <2>4. x \in pending'
    <3>1. CASE pending' = pending BY <2>3, <3>1
    <3>2. CASE pending' # pending
      <4>1. pending' = savepoint[c] /\ (FnFails(c) \/ FnPanics(c))
        BY <2>2, <3>2 DEF FnFails, FnPanics, Commits, CommitFails, DeferredRollback,
           Rollback, Undone
      <4>2. res \notin {"open", "nil"}
        BY <1>3, <4>1 DEF FnFails, FnPanics, Returns, RollbackResult, TypeOK
      <4>3. c \notin within[x] BY <1>3, <1>9, <4>2 DEF Live
      <4> QED BY <1>3, <2>3, <4>1, <4>3
    <3> QED BY <3>1, <3>2
  <2>5. \A d \in Calls : Open(d)' => Open(d) BY <1>1, <1>2, EndFacts
  <2> QED BY <1>3, <2>3, <2>4, <2>5
<1> QED BY <1>3, <1>5, <1>8, <1>9 DEF KeptInv, NothingLost, TypeOK

LEMMA KeptStep == TypeOK /\ StackInv /\ KeptInv /\ [Next]_vars => KeptInv'
<1> SUFFICES ASSUME TypeOK, StackInv, KeptInv, [Next]_vars PROVE KeptInv'
  OBVIOUS
<1>1. CASE PoolBecomesReady
  BY <1>1 DEF KeptInv, NothingLost, Live, Open, PoolBecomesReady, callVars, serverVars
<1>2. CASE ConnectionLost BY <1>2 DEF KeptInv, NothingLost, Live, Open, ConnectionLost, callVars
<1>3. ASSUME NEW c \in Calls, CtxEnds(c) PROVE KeptInv'
  BY <1>3 DEF KeptInv, NothingLost, Live, Open, CtxEnds, callVars, serverVars
<1>4. ASSUME NEW c \in Calls, Exec(c) PROVE KeptInv'
  <2>1. c = top /\ c # 0 /\ conn' = conn BY <1>4 DEF Exec, Calls
  <2>2. \A d \in Calls : Open(d) => d \in within[c] BY <2>1 DEF StackInv
  <2>3. c \in within[c] /\ Open(c) BY <2>1 DEF StackInv
  <2>4. /\ committed' = committed /\ savepoint' = savepoint /\ outcome' = outcome
        /\ within' = within
        /\ \/ pending' = pending /\ wrote' = wrote
           \/ pending' = pending \cup {c} /\ wrote' = wrote \cup {c}
    BY <1>4 DEF Exec, callVars
  <2> QED BY <2>1, <2>2, <2>3, <2>4 DEF KeptInv, NothingLost, Live, Open
<1>5. CASE UNCHANGED vars
  BY <1>5 DEF KeptInv, NothingLost, Live, Open, vars, callVars, serverVars
<1> QED BY <1>1, <1>2, <1>3, <1>4, <1>5, KeptBegin, KeptReturn DEF Next

-----------------------------------------------------------------------------
(* The properties *)

IInv == TypeOK /\ StackInv /\ ConnInv /\ CleanInv /\ KeptInv

\* The inductive invariant behind the four theorems that follow: how WithTx
\* (txmanager.go:145-188) keeps the server's transaction in step with the calls.
THEOREM Inductive == Spec => []IInv
<1>1. Init => ConnInv /\ CleanInv /\ KeptInv
  BY DEF Init, ConnInv, CleanInv, KeptInv, NothingLost, Open
<1> QED BY <1>1, StackInvariant, ConnStep, CleanStep, KeptStep, PTL DEF Spec, IInv

\* WithTx gives its connection back on every path (txmanager.go:169-188).
THEOREM GivesBack == Spec => []ConnectionReturned
<1>1. IInv => ConnectionReturned BY DEF IInv, ConnInv, ConnectionReturned
<1> QED BY <1>1, Inductive, PTL

\* fn's own error from WithTx means that nothing fn wrote is ever committed
\* (txmanager.go:178-181).
THEOREM FnErrorIsFinal == Spec => []RolledBackStaysOut
<1>1. IInv => RolledBackStaysOut BY DEF IInv, CleanInv, RolledBackStaysOut
<1> QED BY <1>1, Inductive, PTL

\* The outer WithTx is all or nothing (txmanager.go:177-186).
THEOREM AllOrNothing == Spec => []OuterAllOrNothing
<1>1. IInv => OuterAllOrNothing
  BY DEF IInv, CleanInv, OuterAllOrNothing, IsNested
<1> QED BY <1>1, Inductive, PTL

\* A failed inner call takes nothing of the others with it (txmanager.go:164-188).
THEOREM KeepsTheRest == Spec => []NothingLost
<1>1. IInv => NothingLost BY DEF IInv, KeptInv
<1> QED BY <1>1, Inductive, PTL
=============================================================================
