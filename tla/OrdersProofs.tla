---------------------------- MODULE OrdersProofs ----------------------------
(***************************************************************************)
(* Proofs about Orders, for any number of requests and products.           *)
(***************************************************************************)
EXTENDS Orders, Foundations, TLAPS

\* Most leaves are first-order: Zenon is tried before SMT.
USE Zenon, SMTT(20)

LEMMA NoneIsNothing == None \notin Int /\ None \notin Requests
BY OrdersAssumption

\* The steps of CreateOrder after SELECT ... FOR UPDATE has returned a row.
Holding == {"check", "decrement", "insertOrder", "commit"}

\* A transaction that has read its product holds the lock of that row, so that
\* the row is still the one it has read until it writes it itself.
LockInv ==
  /\ lock \in [ProductIds -> Requests \cup {None}]
  /\ pc \in [Requests -> PCs]
  /\ req \in [Requests -> Inputs \cup {None}]
  /\ DOMAIN products = ProductIds /\ DOMAIN read = Requests
  /\ \A r \in Requests : pc[r] \in Holding \cup {"forUpdate"} => req[r].id \in ProductIds
  /\ \A r \in Requests : pc[r] \in Holding =>
       lock[req[r].id] = r /\ products[req[r].id] # None
  /\ \A r \in Requests : pc[r] = "check" => read[r] = products[req[r].id]
  /\ StillInStock

LEMMA LockInit == Init => LockInv
<1> SUFFICES ASSUME Init PROVE LockInv
  OBVIOUS
<1>1. \A r \in Requests : pc[r] = "idle" BY DEF Init
<1>2. pc \in [Requests -> PCs] BY DEF Init, PCs
<1>3. lock \in [ProductIds -> Requests \cup {None}] /\ req \in [Requests -> Inputs \cup {None}]
  BY DEF Init
<1>4. DOMAIN products = ProductIds /\ DOMAIN read = Requests BY DEF Init
<1> QED BY <1>1, <1>2, <1>3, <1>4 DEF LockInv, Holding, StillInStock

\* A step of one request that leaves the locks, the table and the inputs alone
\* and takes no row.
LEMMA Harmless ==
  ASSUME LockInv, NEW r \in Requests, NEW to \in PCs \ (Holding \cup {"forUpdate"}),
         Goto(r, to), UNCHANGED <<lock, products, req>>,
         DOMAIN read' = Requests, \A s \in Requests \ {r} : read'[s] = read[s]
  PROVE  LockInv'
BY DEF LockInv, Goto, StillInStock, Holding

LEMMA ReceiveKeeps ==
  ASSUME LockInv, NEW r \in Requests, Receive(r)
  PROVE  LockInv'
<1>1. UNCHANGED <<lock, products, read>> BY DEF Receive, table, local
<1>2. PICK in \in Inputs :
        \/ /\ Valid(in) /\ req' = [req EXCEPT ![r] = in] /\ Goto(r, FirstStep[in.op])
        \/ Answers(r, 400) /\ UNCHANGED req
  BY DEF Receive
<1>3. CASE Answers(r, 400) /\ UNCHANGED req
  BY <1>1, <1>3, Harmless DEF Answers, PCs, Holding, LockInv
<1>4. CASE Valid(in) /\ req' = [req EXCEPT ![r] = in] /\ Goto(r, FirstStep[in.op])
  <2>1. in.op \in {"createProduct", "getProduct", "createOrder", "getOrder"} BY DEF Inputs
  <2>2. /\ FirstStep[in.op] \in {"insertProduct", "cacheGet", "forUpdate", "selectOrder"}
        /\ FirstStep[in.op] = "forUpdate" => in.op = "createOrder"
    BY <2>1 DEF FirstStep
  <2>3. in.op = "createOrder" => in.id \in ProductIds
    <3>1. in.op = "createOrder" => in.id \in NamedIds BY DEF Inputs
    <3>2. in.op = "createOrder" => in.id > 0 BY <1>4 DEF Valid
    <3> QED BY <3>1, <3>2 DEF NamedIds, ProductIds
  <2>4. pc' \in [Requests -> PCs] /\ req' \in [Requests -> Inputs \cup {None}]
    BY <1>4, <2>2 DEF LockInv, Goto, PCs, Statements
  <2>5. \A s \in Requests \ {r} : pc'[s] = pc[s] /\ req'[s] = req[s]
    BY <1>4 DEF LockInv, Goto
  <2>6. pc'[r] = FirstStep[in.op] /\ req'[r] = in BY <1>4 DEF LockInv, Goto
  <2> QED BY <1>1, <2>2, <2>3, <2>4, <2>5, <2>6 DEF LockInv, Holding, StillInStock
<1> QED BY <1>2, <1>3, <1>4

\* WithTx gives up the locks of its own transaction and no others.
LEMMA FailKeeps ==
  ASSUME LockInv, NEW r \in Requests, NEW err, TxFails(r, err)
  PROVE  LockInv'
<1>1. UNCHANGED <<products, req, read>> /\ Goto(r, "done") BY DEF TxFails, table, Answers
<1>2. lock' = [i \in ProductIds |-> IF lock[i] = r THEN None ELSE lock[i]]
  BY DEF TxFails, ReleaseLocks
<1> QED BY <1>1, <1>2 DEF LockInv, Goto, StillInStock, Holding, PCs

LEMMA GetKeeps ==
  ASSUME LockInv, NEW r \in Requests, GetForUpdate(r)
  PROVE  LockInv'
<1>1. req[r].id \in ProductIds BY DEF GetForUpdate, LockInv
<1>2. CASE TxFails(r, "ErrNotFound") BY <1>2, FailKeeps
<1>3. CASE ~TxFails(r, "ErrNotFound")
  <2>1. /\ products[req[r].id] # None /\ read' = [read EXCEPT ![r] = products[req[r].id]]
        /\ lock[req[r].id] = None /\ lock' = [lock EXCEPT ![req[r].id] = r]
        /\ Goto(r, "check") /\ UNCHANGED <<products, req>>
    BY <1>3 DEF GetForUpdate, SelectForUpdate, table
  <2>2. \A s \in Requests : pc[s] \in Holding => req[s].id # req[r].id
    BY <2>1, NoneIsNothing DEF LockInv
  <2>3. /\ pc' \in [Requests -> PCs] /\ pc'[r] = "check"
        /\ lock' \in [ProductIds -> Requests \cup {None}] /\ lock'[req[r].id] = r
        /\ DOMAIN read' = Requests /\ read'[r] = products[req[r].id]
    BY <1>1, <2>1 DEF LockInv, Goto, PCs
  <2>4. ASSUME NEW s \in Requests \ {r}
        PROVE  /\ pc'[s] = pc[s] /\ read'[s] = read[s]
               /\ pc[s] \in Holding => lock'[req[s].id] = lock[req[s].id]
    BY <2>1, <2>2 DEF LockInv, Goto
  <2>5. req' = req /\ products' = products BY <2>1
  <2>6. ASSUME NEW s \in Requests
        PROVE  /\ pc'[s] \in Holding \cup {"forUpdate"} => req[s].id \in ProductIds
               /\ pc'[s] \in Holding => lock'[req[s].id] = s /\ products[req[s].id] # None
               /\ pc'[s] = "check" => read'[s] = products[req[s].id]
               /\ pc'[s] = "decrement" => products[req[s].id].stock >= req[s].quantity
    <3>1. CASE s = r BY <1>1, <2>1, <2>3, <3>1
    <3>2. CASE s # r
      <4>1. pc'[s] = pc[s] /\ read'[s] = read[s] BY <2>4, <3>2
      <4>2. pc[s] \in Holding => lock'[req[s].id] = s /\ products[req[s].id] # None
        BY <2>4, <3>2 DEF LockInv
      <4> QED BY <4>1, <4>2 DEF LockInv, StillInStock
    <3> QED BY <3>1, <3>2
  <2> QED BY <2>3, <2>5, <2>6 DEF LockInv, StillInStock
<1> QED BY <1>2, <1>3

\* The check is made on what was read, which the lock keeps true of the row.
LEMMA CheckKeeps ==
  ASSUME LockInv, NEW r \in Requests, CheckStock(r)
  PROVE  LockInv'
<1>1. CASE TxFails(r, "ErrInsufficientStock") BY <1>1, FailKeeps
<1>2. CASE ~TxFails(r, "ErrInsufficientStock")
  <2>1. /\ pc[r] = "check" /\ read[r].stock >= req[r].quantity
        /\ Goto(r, "decrement") /\ UNCHANGED <<lock, products, req, read>>
    BY <1>2 DEF CheckStock, table, local
  <2>2. products[req[r].id].stock >= req[r].quantity BY <2>1 DEF LockInv
  <2>3. pc' \in [Requests -> PCs] /\ pc'[r] = "decrement"
    BY <2>1 DEF LockInv, Goto, PCs, Statements
  <2>4. \A s \in Requests \ {r} : pc'[s] = pc[s] BY <2>1 DEF LockInv, Goto
  <2> QED BY <2>1, <2>2, <2>3, <2>4 DEF LockInv, StillInStock, Holding
<1> QED BY <1>1, <1>2

LEMMA WriteKeeps ==
  ASSUME LockInv, NEW r \in Requests, DecrementStock(r) \/ InsertOrder(r)
  PROVE  LockInv'
<1>1. pc[r] \in Holding /\ UNCHANGED <<products, req, read>>
  BY DEF DecrementStock, DecrementInTx, InsertOrder, Holding, table
<1>2. lock' = lock
  <2>1. lock[req[r].id] = r /\ req[r].id \in ProductIds BY <1>1 DEF LockInv
  <2> QED BY <2>1 DEF DecrementStock, InsertOrder, LockInv
<1>3. \E to \in {"insertOrder", "commit"} : Goto(r, to) BY DEF DecrementStock, InsertOrder
<1>4. pc' \in [Requests -> PCs] /\ pc'[r] \in {"insertOrder", "commit"}
  BY <1>3 DEF LockInv, Goto, PCs, Statements
<1>5. \A s \in Requests \ {r} : pc'[s] = pc[s] BY <1>3 DEF LockInv, Goto
<1> QED BY <1>1, <1>2, <1>4, <1>5 DEF LockInv, StillInStock, Holding

LEMMA CommitKeeps ==
  ASSUME LockInv, NEW r \in Requests, pc[r] = "commit", Durable(r),
         \E to \in {"cacheDelete", "done"} : Goto(r, to)
  PROVE  LockInv'
<1>1. /\ products' = [products EXCEPT ![req[r].id].stock = pending[r]] /\ req' = req /\ read' = read
      /\ lock' = [i \in ProductIds |-> IF lock[i] = r THEN None ELSE lock[i]]
  BY DEF Durable, ReleaseLocks
<1>2. lock[req[r].id] = r /\ req[r].id \in ProductIds BY DEF LockInv, Holding
<1>3. \A s \in Requests \ {r} : pc[s] \in Holding =>
        req[s].id # req[r].id /\ products'[req[s].id] = products[req[s].id]
  BY <1>1, <1>2 DEF LockInv
<1>4. \A s \in Requests \ {r} : pc'[s] = pc[s] BY DEF LockInv, Goto
<1>5. pc'[r] \in {"cacheDelete", "done"} /\ pc' \in [Requests -> PCs] BY DEF LockInv, Goto, PCs
<1>6. lock' \in [ProductIds -> Requests \cup {None}] /\ DOMAIN products' = ProductIds
  BY <1>1 DEF LockInv
<1>7. \A s \in Requests \ {r} : pc[s] \in Holding => lock'[req[s].id] = s
  BY <1>1 DEF LockInv
<1> QED BY <1>1, <1>3, <1>4, <1>5, <1>6, <1>7 DEF LockInv, StillInStock, Holding

LEMMA InsertProductKeeps ==
  ASSUME LockInv, NEW r \in Requests, InsertProduct(r)
  PROVE  LockInv'
<1>1. PICK i \in ProductIds :
        /\ products[i] = None /\ \A j \in 1..(i - 1) : products[j] # None
        /\ products' = [products EXCEPT ![i] = [price |-> req[r].price, stock |-> req[r].stock]]
        /\ opening' = [opening EXCEPT ![i] = req[r].stock]
  BY DEF InsertProduct
<1>2. Goto(r, "done") /\ UNCHANGED <<lock, req, read>> BY DEF InsertProduct, Answers, local
<1>3. \A s \in Requests : pc[s] \in Holding =>
        req[s].id # i /\ products'[req[s].id] = products[req[s].id]
  BY <1>1 DEF LockInv
<1> QED BY <1>1, <1>2, <1>3 DEF LockInv, Goto, StillInStock, Holding, PCs

LEMMA LockStep == LockInv /\ [Next]_vars => LockInv'
<1> SUFFICES ASSUME LockInv, [Next]_vars PROVE LockInv'
  OBVIOUS
<1>1. ASSUME NEW r \in Requests, SelectOrder(r) \/ CacheSet(r) \/ Invalidate(r) PROVE LockInv'
  <2>1. Goto(r, "done") /\ UNCHANGED <<lock, products, req, read>>
    BY <1>1 DEF SelectOrder, CacheSet, Invalidate, Answers, table, local
  <2> QED BY <2>1, Harmless DEF PCs, Holding, LockInv
<1>2. ASSUME NEW r \in Requests, CacheGet(r) \/ SelectProduct(r) PROVE LockInv'
  <2>1. /\ \E to \in {"done", "selectProduct", "cacheSet"} : Goto(r, to)
        /\ UNCHANGED <<lock, products, req>>
    BY <1>2 DEF CacheGet, SelectProduct, Answers, table
  <2>2. DOMAIN read' = Requests /\ \A s \in Requests \ {r} : read'[s] = read[s]
    BY <1>2 DEF CacheGet, SelectProduct, LockInv, local
  <2> QED BY <2>1, <2>2, Harmless DEF PCs, Statements, Holding
<1>3. ASSUME NEW r \in Requests, Commits(r) PROVE LockInv'
  BY <1>3, CommitKeeps DEF Commits
<1>4. ASSUME NEW r \in Requests, CommitFails(r) PROVE LockInv'
  <2>1. CASE TxFails(r, "failed to commit transaction") BY <2>1, FailKeeps
  <2>2. CASE ~TxFails(r, "failed to commit transaction")
    BY <1>4, <2>2, CommitKeeps DEF CommitFails, Answers
  <2> QED BY <2>1, <2>2
<1>5. ASSUME NEW r \in Requests, StatementFails(r) \/ GetForUpdateFails(r) PROVE LockInv'
  BY <1>5, FailKeeps DEF StatementFails, GetForUpdateFails
<1>6. ASSUME NEW i \in ProductIds, Expire(i) PROVE LockInv'
  BY <1>6 DEF Expire, LockInv, StillInStock, table, local
<1>7. CASE UNCHANGED vars BY <1>7 DEF vars, LockInv, StillInStock, table, local
<1> QED BY <1>1, <1>2, <1>3, <1>4, <1>5, <1>6, <1>7, ReceiveKeeps, GetKeeps, CheckKeeps,
           WriteKeeps, InsertProductKeeps DEF Next, Step

\* The stock that CreateOrder has checked is still there when DecrementStock
\* takes it, however many orders race for it (service.go:94-105).
THEOREM CheckedStockStays == Spec => []StillInStock
<1>1. LockInv => StillInStock BY DEF LockInv
<1> QED BY <1>1, LockInit, LockStep, PTL DEF Spec

-----------------------------------------------------------------------------
(* What the handlers have let through, and what the variables hold *)

Row == [price : Nat, stock : Nat]

\* What CreateOrder computes as the total of a request.
Due(r) == Wrap(products[req[r].id].price * req[r].quantity)

TypeInv ==
  /\ products \in [ProductIds -> Row \cup {None}]
  /\ DOMAIN opening = ProductIds
  /\ DOMAIN cache = ProductIds
  /\ orders \in [Requests -> Int \cup {None}]
  /\ answer \in [Requests -> Int \cup {None}]
  /\ read \in [Requests -> Row \cup {None}]
  /\ pending \in [Requests -> Int \cup {None}]
  /\ total \in [Requests -> Int \cup {None}]

InputAt(r) ==
  /\ pc[r] = "insertProduct" =>
       /\ req[r].op = "createProduct"
       /\ req[r].price \in Nat /\ req[r].price \in Prices
       /\ req[r].stock \in Nat /\ req[r].stock \in Stocks
  /\ pc[r] \in {"cacheGet", "selectProduct", "cacheSet"} => req[r].id \in ProductIds
  /\ pc[r] \in Holding \cup {"forUpdate"} =>
       req[r].quantity \in Nat \ {0} /\ req[r].quantity \in Quantities
  /\ pc[r] = "cacheSet" => read[r] \in Row

\* What an open transaction has read and written is still true of the row that
\* it has locked.
TxAt(r) ==
  LET row == products[req[r].id] IN
  /\ pc[r] \in Holding => read[r] \in Row /\ row \in Row /\ read[r].price = row.price
  /\ pc[r] \in {"insertOrder", "commit"} =>
       pending[r] \in Nat /\ pending[r] + req[r].quantity = row.stock
  /\ pc[r] = "commit" => total[r] = Due(r)

RequestInv ==
  /\ LockInv
  /\ TypeInv
  /\ \A r \in Requests : InputAt(r) /\ TxAt(r)

LEMMA BodyNumbers == \A n \in Prices \cup Stocks \cup Quantities : n \in Int
BY OrdersAssumption

LEMMA RowFields == \A row \in Row : row.price \in Nat /\ row.stock \in Nat
BY DEF Row

LEMMA NoneIsNoRow == None \notin Row
BY OrdersAssumption DEF Row

LEMMA WrapType == \A n \in Int : Wrap(n) \in Int
BY OrdersAssumption, WrapInt DEF Wrap

LEMMA DueType ==
  ASSUME NEW r \in Requests, products[req[r].id] \in Row, req[r].quantity \in Nat
  PROVE  Due(r) \in Int
<1> DEFINE price == products[req[r].id].price
           quantity == req[r].quantity
<1>1. price \in Nat /\ quantity \in Nat BY RowFields
<1>2. Due(r) = Wrap(price * quantity) BY DEF Due
<1> HIDE DEF price, quantity
<1>3. price * quantity \in Int BY <1>1
<1> QED BY <1>2, <1>3, WrapType

LEMMA StatusType == \A err : Status(err) \in Int
BY DEF Status

LEMMA AnswerType ==
  ASSUME TypeInv, NEW r \in Requests, NEW status \in Int, Answers(r, status)
  PROVE  answer' \in [Requests -> Int \cup {None}]
BY DEF TypeInv, Answers

\* Where a step leads a request, and what it answers; the others stay.
LEMMA Moves ==
  ASSUME RequestInv, NEW r \in Requests, NEW to, Goto(r, to)
  PROVE  pc'[r] = to /\ \A s \in Requests \ {r} : pc'[s] = pc[s]
BY DEF RequestInv, LockInv, Goto

LEMMA Renders ==
  ASSUME RequestInv, NEW r \in Requests, NEW status, Answers(r, status)
  PROVE  /\ Goto(r, "done") /\ answer'[r] = status
         /\ \A s \in Requests \ {r} : answer'[s] = answer[s]
BY DEF RequestInv, TypeInv, Answers

LEMMA RequestInit == Init => RequestInv
<1> SUFFICES ASSUME Init PROVE RequestInv
  OBVIOUS
<1>1. \A r \in Requests : pc[r] = "idle" BY DEF Init
<1>2. Product \subseteq Row
  <2>1. \A n \in Int : n >= 0 => n \in Nat OBVIOUS
  <2> QED BY <2>1, BodyNumbers DEF Product, Row
<1>3. products \in [ProductIds -> Row \cup {None}]
  <2>1. Product \cup {None} \subseteq Row \cup {None} BY <1>2
  <2> QED BY <2>1 DEF Init
<1>4. TypeInv BY <1>3 DEF Init, TypeInv
<1> QED BY <1>1, <1>4, LockInit DEF RequestInv, InputAt, TxAt, Holding

\* A request that does not move keeps what is said of it, as long as the row
\* that it has locked stays what it is.
LEMMA OthersKeep ==
  ASSUME RequestInv, NEW r \in Requests, NEW to, Goto(r, to),
         \A s \in Requests \ {r} :
            /\ req'[s] = req[s]
            /\ pending'[s] = pending[s] /\ read'[s] = read[s] /\ total'[s] = total[s]
            /\ pc[s] \in Holding => products'[req[s].id] = products[req[s].id]
  PROVE  \A s \in Requests \ {r} : InputAt(s)' /\ TxAt(s)'
<1> SUFFICES ASSUME NEW s \in Requests \ {r} PROVE InputAt(s)' /\ TxAt(s)'
  OBVIOUS
<1>1. pc'[s] = pc[s] BY DEF RequestInv, LockInv, Goto
<1>2. InputAt(s)' BY <1>1 DEF RequestInv, InputAt
<1>3. TxAt(s)'
  <2>1. pc[s] \in Holding => Due(s)' = Due(s) BY DEF Due
  <2> QED BY <1>1, <2>1 DEF RequestInv, TxAt, Holding
<1> QED BY <1>2, <1>3

\* At these steps nothing is said of a request.
LEMMA FreeAt ==
  ASSUME NEW r \in Requests,
         pc'[r] \in {"done", "cacheDelete", "selectOrder"}
  PROVE  InputAt(r)' /\ TxAt(r)'
BY DEF InputAt, TxAt, Holding

LEMMA RequestReceive ==
  ASSUME RequestInv, LockInv', NEW r \in Requests, Receive(r)
  PROVE  RequestInv'
<1>1. UNCHANGED <<products, opening, cache, orders, read, pending, total>>
  BY DEF Receive, table, local
<1>2. PICK in \in Inputs :
        \/ /\ Valid(in)
           /\ req' = [req EXCEPT ![r] = in]
           /\ Goto(r, FirstStep[in.op]) /\ UNCHANGED answer
        \/ ~Valid(in) /\ Answers(r, 400) /\ UNCHANGED req
  BY DEF Receive
<1>3. CASE Answers(r, 400) /\ UNCHANGED req
  <2>1. TypeInv' BY <1>1, <1>3, AnswerType DEF RequestInv, TypeInv
  <2>2. Goto(r, "done") BY <1>3 DEF Answers
  <2>3. pc'[r] = "done" BY <2>2 DEF RequestInv, LockInv, Goto
  <2>4. \A s \in Requests \ {r} : InputAt(s)' /\ TxAt(s)' BY <1>1, <1>3, <2>2, OthersKeep
  <2> QED BY <2>1, <2>3, <2>4, FreeAt DEF RequestInv
<1>4. CASE /\ Valid(in) /\ req' = [req EXCEPT ![r] = in]
           /\ Goto(r, FirstStep[in.op]) /\ UNCHANGED answer
  <2>1. TypeInv' BY <1>1, <1>4 DEF RequestInv, TypeInv
  <2>2. pc'[r] = FirstStep[in.op] /\ req'[r] = in
        /\ \A s \in Requests \ {r} : req'[s] = req[s]
    BY <1>4 DEF RequestInv, LockInv, Goto
  <2>3. \A s \in Requests \ {r} : InputAt(s)' /\ TxAt(s)' BY <1>1, <1>4, <2>2, OthersKeep
  <2> SUFFICES InputAt(r)' /\ TxAt(r)'
    BY <2>1, <2>3 DEF RequestInv
  <2>4. in.op \in {"createProduct", "getProduct", "createOrder", "getOrder"} BY DEF Inputs
  <2>5. CASE in.op = "createProduct"
    <3>1. in.price \in Prices /\ in.stock \in Stocks BY <2>5 DEF Inputs
    <3>2. in.price >= 0 /\ in.stock >= 0 BY <1>4, <2>5 DEF Valid
    <3>3. in.price \in Nat /\ in.stock \in Nat
      <4>1. in.price \in Int /\ in.stock \in Int BY <3>1, BodyNumbers
      <4> QED BY <3>2, <4>1
    <3>4. pc'[r] = "insertProduct" BY <2>2, <2>5 DEF FirstStep
    <3> QED BY <2>2, <2>5, <3>1, <3>3, <3>4 DEF InputAt, TxAt, Holding
  <2>6. CASE in.op = "getProduct"
    <3>1. in.id \in NamedIds BY <2>6 DEF Inputs
    <3>2. in.id > 0 BY <1>4, <2>6 DEF Valid
    <3>3. in.id \in ProductIds BY <3>1, <3>2 DEF NamedIds, ProductIds
    <3>4. pc'[r] = "cacheGet" BY <2>2, <2>6 DEF FirstStep
    <3> QED BY <2>2, <3>3, <3>4 DEF InputAt, TxAt, Holding
  <2>7. CASE in.op = "createOrder"
    <3>1. in.quantity \in Quantities BY <2>7 DEF Inputs
    <3>2. in.quantity > 0 BY <1>4, <2>7 DEF Valid
    <3>3. in.quantity \in Nat \ {0}
      <4>1. in.quantity \in Int BY <3>1, BodyNumbers
      <4> QED BY <3>2, <4>1
    <3>4. pc'[r] = "forUpdate" BY <2>2, <2>7 DEF FirstStep
    <3> QED BY <2>2, <3>1, <3>3, <3>4 DEF InputAt, TxAt, Holding
  <2>8. CASE in.op = "getOrder"
    <3>1. pc'[r] = "selectOrder" BY <2>2, <2>8 DEF FirstStep
    <3> QED BY <3>1, FreeAt
  <2> QED BY <2>4, <2>5, <2>6, <2>7, <2>8
<1> QED BY <1>2, <1>3, <1>4

\* Steps that answer the request and leave the table and the inputs alone.
LEMMA RequestAnswers ==
  ASSUME RequestInv, LockInv', NEW r \in Requests, NEW status \in Int, Answers(r, status),
         UNCHANGED <<products, opening, orders, req, read>>, DOMAIN cache' = ProductIds,
         \/ UNCHANGED <<pending, total>>
         \/ /\ pending' = [pending EXCEPT ![r] = None]
            /\ total' = [total EXCEPT ![r] = None]
  PROVE  RequestInv'
<1>1. Goto(r, "done") BY DEF Answers
<1>2. pc'[r] = "done" BY <1>1 DEF RequestInv, LockInv, Goto
<1>3. \A s \in Requests \ {r} : pending'[s] = pending[s] /\ total'[s] = total[s]
  BY DEF RequestInv, TypeInv
<1>4. \A s \in Requests \ {r} : InputAt(s)' /\ TxAt(s)' BY <1>1, <1>3, OthersKeep
<1>5. TypeInv' BY AnswerType DEF RequestInv, TypeInv
<1> QED BY <1>2, <1>4, <1>5, FreeAt DEF RequestInv

LEMMA RequestFails ==
  ASSUME RequestInv, LockInv', NEW r \in Requests, NEW err, TxFails(r, err)
  PROVE  RequestInv'
<1>1. Answers(r, Status(err)) /\ Status(err) \in Int BY StatusType DEF TxFails
<1>2. UNCHANGED <<products, opening, orders, req, read, cache>> BY DEF TxFails, table
<1>3. /\ pending' = [pending EXCEPT ![r] = None]
      /\ total' = [total EXCEPT ![r] = None]
  BY DEF TxFails
<1>4. DOMAIN cache' = ProductIds BY <1>2 DEF RequestInv, TypeInv
<1> QED BY <1>1, <1>2, <1>3, <1>4, RequestAnswers

LEMMA RequestInsertProduct ==
  ASSUME RequestInv, LockInv', NEW r \in Requests, InsertProduct(r)
  PROVE  RequestInv'
<1>1. PICK i \in ProductIds :
        /\ products[i] = None /\ \A j \in 1..(i - 1) : products[j] # None
        /\ products' = [products EXCEPT ![i] = [price |-> req[r].price, stock |-> req[r].stock]]
        /\ opening' = [opening EXCEPT ![i] = req[r].stock]
  BY DEF InsertProduct
<1>2. PICK status \in {201, 500} : Answers(r, status) BY DEF InsertProduct
<1>3. Goto(r, "done") /\ UNCHANGED <<orders, cache, req, read, pending, total>>
  BY <1>2 DEF InsertProduct, Answers, local
<1>4. req[r].price \in Nat /\ req[r].stock \in Nat
  BY DEF RequestInv, InputAt, InsertProduct
<1>5. TypeInv'
  <2>1. [price |-> req[r].price, stock |-> req[r].stock] \in Row BY <1>4 DEF Row
  <2>2. products' \in [ProductIds -> Row \cup {None}] BY <1>1, <2>1 DEF RequestInv, TypeInv
  <2> QED BY <1>1, <1>2, <1>3, <2>2, AnswerType DEF RequestInv, TypeInv
<1>6. \A s \in Requests : pc[s] \in Holding => products'[req[s].id] = products[req[s].id]
  BY <1>1 DEF RequestInv, LockInv
<1>7. pc'[r] = "done" BY <1>3 DEF RequestInv, LockInv, Goto
<1>8. \A s \in Requests \ {r} : InputAt(s)' /\ TxAt(s)' BY <1>3, <1>6, OthersKeep
<1> QED BY <1>5, <1>7, <1>8, FreeAt DEF RequestInv

\* The row that a commit writes.
LEMMA DurableRow ==
  ASSUME RequestInv, NEW r \in Requests, pc[r] = "commit", Durable(r)
  PROVE  /\ req[r].id \in ProductIds /\ products[req[r].id] \in Row
         /\ products'[req[r].id] \in Row
         /\ products'[req[r].id].price = products[req[r].id].price
         /\ products'[req[r].id].stock = pending[r]
         /\ \A i \in ProductIds \ {req[r].id} : products'[i] = products[i]
         /\ DOMAIN products' = ProductIds
<1>1. req[r].id \in ProductIds BY DEF RequestInv, LockInv, Holding
<1>2. products[req[r].id] \in Row /\ pending[r] \in Nat BY DEF RequestInv, TxAt, Holding
<1>3. products' = [products EXCEPT ![req[r].id].stock = pending[r]] BY DEF Durable
<1>4. DOMAIN products = ProductIds BY DEF RequestInv, LockInv
<1>5. products'[req[r].id] = [products[req[r].id] EXCEPT !.stock = pending[r]]
  BY <1>1, <1>3, <1>4
<1>6. products'[req[r].id] = [price |-> products[req[r].id].price, stock |-> pending[r]]
  BY <1>2, <1>5 DEF Row
<1>7. products'[req[r].id] \in Row BY <1>2, <1>6 DEF Row
<1>8. /\ products'[req[r].id].price = products[req[r].id].price
      /\ products'[req[r].id].stock = pending[r]
  BY <1>6
<1> QED BY <1>1, <1>2, <1>3, <1>4, <1>7, <1>8

LEMMA RequestDurable ==
  ASSUME RequestInv, LockInv', NEW r \in Requests, pc[r] = "commit", Durable(r),
         \/ Goto(r, "cacheDelete") /\ UNCHANGED answer
         \/ \E status \in Int : Answers(r, status)
  PROVE  RequestInv'
<1>1. PICK to \in {"cacheDelete", "done"} : Goto(r, to) BY DEF Answers
<1>2. /\ orders' = [orders EXCEPT ![r] = total[r]]
      /\ pending' = [pending EXCEPT ![r] = None]
      /\ total' = [total EXCEPT ![r] = None]
      /\ UNCHANGED <<opening, cache, req, read>>
  BY DEF Durable
<1>3. TypeInv'
  <2>1. products' \in [ProductIds -> Row \cup {None}]
    <3>1. products' = [i \in ProductIds |-> products'[i]] BY DEF Durable, RequestInv, TypeInv
    <3>2. \A i \in ProductIds : products'[i] \in Row \cup {None}
      BY DurableRow DEF RequestInv, TypeInv
    <3> QED BY <3>1, <3>2
  <2>2. answer' \in [Requests -> Int \cup {None}] BY AnswerType DEF RequestInv, TypeInv
  <2> QED BY <1>2, <2>1, <2>2 DEF RequestInv, TypeInv
<1>4. \A s \in Requests \ {r} : pc[s] \in Holding =>
        products'[req[s].id] = products[req[s].id]
  <2>1. lock[req[r].id] = r BY DEF RequestInv, LockInv, Holding
  <2>2. \A s \in Requests \ {r} : pc[s] \in Holding =>
          req[s].id \in ProductIds /\ req[s].id # req[r].id
    BY <2>1 DEF RequestInv, LockInv
  <2> QED BY <2>2, DurableRow
<1>5. pc'[r] \in {"cacheDelete", "done"} BY <1>1 DEF RequestInv, LockInv, Goto
<1>6. \A s \in Requests \ {r} : pending'[s] = pending[s] /\ total'[s] = total[s]
  BY <1>2 DEF RequestInv, TypeInv
<1>7. \A s \in Requests \ {r} : InputAt(s)' /\ TxAt(s)' BY <1>1, <1>2, <1>4, <1>6, OthersKeep
<1> QED BY <1>3, <1>5, <1>7, FreeAt DEF RequestInv

LEMMA RequestReads ==
  ASSUME RequestInv, LockInv', NEW r \in Requests,
         SelectOrder(r) \/ CacheGet(r) \/ SelectProduct(r) \/ CacheSet(r) \/ Invalidate(r)
  PROVE  RequestInv'
<1>1. UNCHANGED <<products, opening, orders, req, pending, total>>
  BY DEF SelectOrder, CacheGet, SelectProduct, CacheSet, Invalidate, table, local
<1>2. DOMAIN cache' = ProductIds
  BY DEF SelectOrder, CacheGet, SelectProduct, CacheSet, Invalidate, Dropped, RequestInv, TypeInv
<1>3. CASE UNCHANGED read /\ \E status \in Int : Answers(r, status)
  BY <1>1, <1>2, <1>3, RequestAnswers
<1>4. CASE CacheGet(r) /\ Goto(r, "selectProduct") /\ UNCHANGED <<answer, read>>
  <2>1. \A s \in Requests \ {r} : InputAt(s)' /\ TxAt(s)' BY <1>1, <1>4, OthersKeep
  <2>2. TypeInv' BY <1>1, <1>2, <1>4 DEF RequestInv, TypeInv
  <2>3. pc[r] = "cacheGet" /\ pc'[r] = "selectProduct"
    BY <1>4 DEF CacheGet, RequestInv, LockInv, Goto
  <2>4. InputAt(r)' /\ TxAt(r)' BY <1>1, <2>3 DEF RequestInv, InputAt, TxAt, Holding
  <2> QED BY <2>1, <2>2, <2>4 DEF RequestInv
<1>5. CASE /\ SelectProduct(r) /\ products[req[r].id] # None /\ Goto(r, "cacheSet")
           /\ read' = [read EXCEPT ![r] = products[req[r].id]] /\ UNCHANGED answer
  <2>1. req[r].id \in ProductIds BY <1>5 DEF SelectProduct, RequestInv, InputAt
  <2>2. products[req[r].id] \in Row BY <1>5, <2>1 DEF RequestInv, TypeInv
  <2>3. TypeInv' BY <1>1, <1>2, <1>5, <2>2 DEF RequestInv, TypeInv
  <2>4. read'[r] \in Row /\ \A s \in Requests \ {r} : read'[s] = read[s]
    BY <1>5, <2>2 DEF RequestInv, TypeInv
  <2>5. \A s \in Requests \ {r} : InputAt(s)' /\ TxAt(s)' BY <1>1, <1>5, <2>4, OthersKeep
  <2>6. pc'[r] = "cacheSet" BY <1>5 DEF RequestInv, LockInv, Goto
  <2>7. InputAt(r)' /\ TxAt(r)' BY <1>1, <2>1, <2>4, <2>6 DEF InputAt, TxAt, Holding
  <2> QED BY <2>3, <2>5, <2>7 DEF RequestInv
<1> QED
  <2>1. SelectOrder(r) \/ CacheSet(r) \/ Invalidate(r) =>
          UNCHANGED read /\ \E status \in Int : Answers(r, status)
    BY StatusType DEF SelectOrder, CacheSet, Invalidate, local
  <2>2. CacheGet(r) => UNCHANGED read /\ (Answers(r, 200) \/ (Goto(r, "selectProduct") /\ UNCHANGED answer))
    BY DEF CacheGet, local
  <2>3. SelectProduct(r) =>
          \/ UNCHANGED read /\ Answers(r, Status("ErrNotFound"))
          \/ /\ products[req[r].id] # None /\ Goto(r, "cacheSet")
             /\ read' = [read EXCEPT ![r] = products[req[r].id]] /\ UNCHANGED answer
    BY DEF SelectProduct
  <2> QED BY <1>3, <1>4, <1>5, <2>1, <2>2, <2>3, StatusType

LEMMA RequestWrites ==
  ASSUME RequestInv, LockInv', NEW r \in Requests,
         GetForUpdate(r) \/ CheckStock(r) \/ DecrementStock(r) \/ InsertOrder(r)
  PROVE  RequestInv'
<1>1. CASE GetForUpdate(r)
  <2>1. CASE TxFails(r, "ErrNotFound") BY <2>1, RequestFails
  <2>2. CASE ~TxFails(r, "ErrNotFound")
    <3>1. /\ pc[r] = "forUpdate" /\ products[req[r].id] # None
          /\ read' = [read EXCEPT ![r] = products[req[r].id]]
          /\ Goto(r, "check")
          /\ UNCHANGED <<products, opening, orders, cache, req, answer, pending, total>>
      BY <1>1, <2>2 DEF GetForUpdate, table
    <3>2. products[req[r].id] \in Row BY <3>1 DEF RequestInv, LockInv, TypeInv
    <3>3. TypeInv' BY <3>1, <3>2 DEF RequestInv, TypeInv
    <3>4. read'[r] = products[req[r].id] /\ \A s \in Requests \ {r} : read'[s] = read[s]
      BY <3>1 DEF RequestInv, TypeInv
    <3>5. \A s \in Requests \ {r} : InputAt(s)' /\ TxAt(s)' BY <3>1, <3>4, OthersKeep
    <3>6. pc'[r] = "check" BY <3>1 DEF RequestInv, LockInv, Goto
    <3>7. req[r].quantity \in Nat \ {0} /\ req[r].quantity \in Quantities
      BY <3>1 DEF RequestInv, InputAt
    <3>8. InputAt(r)' /\ TxAt(r)'
      BY <3>1, <3>2, <3>4, <3>6, <3>7 DEF InputAt, TxAt, Holding
    <3> QED BY <3>3, <3>5, <3>8 DEF RequestInv
  <2> QED BY <2>1, <2>2
<1>2. CASE DecrementStock(r)
  <2>1. /\ pc[r] = "decrement" /\ products[req[r].id].stock >= req[r].quantity
        /\ pending' = [pending EXCEPT ![r] = products[req[r].id].stock - req[r].quantity]
        /\ Goto(r, "insertOrder")
        /\ UNCHANGED <<products, opening, orders, cache, req, answer, read, total>>
    BY <1>2 DEF DecrementStock, DecrementInTx
  <2>2. products[req[r].id] \in Row /\ req[r].quantity \in Nat
        /\ read[r] \in Row /\ read[r].price = products[req[r].id].price
    BY <2>1 DEF RequestInv, InputAt, TxAt, Holding
  <2>3. products[req[r].id].stock \in Nat BY <2>2, RowFields
  <2>4. pending'[r] = products[req[r].id].stock - req[r].quantity
        /\ \A s \in Requests \ {r} : pending'[s] = pending[s]
    BY <2>1 DEF RequestInv, TypeInv
  <2>5. TypeInv' BY <2>1, <2>2, <2>3 DEF RequestInv, TypeInv
  <2>6. \A s \in Requests \ {r} : InputAt(s)' /\ TxAt(s)' BY <2>1, <2>4, OthersKeep
  <2>7. pc'[r] = "insertOrder" BY <2>1 DEF RequestInv, LockInv, Goto
  <2>8. InputAt(r)' BY <2>1, <2>7 DEF RequestInv, InputAt, Holding
  <2>9. TxAt(r)'
    <3>1. pending'[r] \in Nat /\ pending'[r] + req[r].quantity = products[req[r].id].stock
      BY <2>1, <2>2, <2>3, <2>4
    <3> QED BY <2>1, <2>2, <2>7, <3>1 DEF TxAt, Holding
  <2> QED BY <2>5, <2>6, <2>8, <2>9 DEF RequestInv
<1>3. CASE InsertOrder(r)
  <2>1. /\ pc[r] = "insertOrder" /\ Goto(r, "commit")
        /\ total' = [total EXCEPT ![r] = Wrap(read[r].price * req[r].quantity)]
        /\ UNCHANGED <<products, opening, orders, cache, req, answer, read, pending>>
    BY <1>3 DEF InsertOrder, CacheUntouched, table
  <2>2. products[req[r].id] \in Row /\ req[r].quantity \in Nat
        /\ read[r] \in Row /\ read[r].price = products[req[r].id].price
    BY <2>1 DEF RequestInv, InputAt, TxAt, Holding
  <2>3. total' = [total EXCEPT ![r] = Due(r)] BY <2>1, <2>2 DEF Due
  <2>4. total'[r] = Due(r) /\ \A s \in Requests \ {r} : total'[s] = total[s]
    BY <2>3 DEF RequestInv, TypeInv
  <2>5. TypeInv'
    <3>1. Due(r) \in Int BY <2>2, DueType
    <3> QED BY <2>1, <2>3, <3>1 DEF RequestInv, TypeInv
  <2>6. \A s \in Requests \ {r} : InputAt(s)' /\ TxAt(s)' BY <2>1, <2>4, OthersKeep
  <2>7. pc'[r] = "commit" BY <2>1 DEF RequestInv, LockInv, Goto
  <2>8. InputAt(r)' BY <2>1, <2>7 DEF RequestInv, InputAt, Holding
  <2>9. TxAt(r)'
    <3>1. Due(r)' = Due(r) BY <2>1 DEF Due
    <3> QED BY <2>1, <2>2, <2>4, <2>7, <3>1 DEF RequestInv, TxAt, Holding
  <2> QED BY <2>5, <2>6, <2>8, <2>9 DEF RequestInv
<1>4. CASE CheckStock(r)
  <2>1. CASE TxFails(r, "ErrInsufficientStock") BY <2>1, RequestFails
  <2>2. CASE ~TxFails(r, "ErrInsufficientStock")
    <3>1. /\ pc[r] = "check" /\ Goto(r, "decrement")
          /\ UNCHANGED <<products, opening, orders, cache, req, answer, read, pending, total>>
      BY <1>4, <2>2 DEF CheckStock, table, local
    <3>2. TypeInv' BY <3>1 DEF RequestInv, TypeInv
    <3>3. \A s \in Requests \ {r} : InputAt(s)' /\ TxAt(s)' BY <3>1, OthersKeep
    <3>4. pc'[r] = "decrement" BY <3>1 DEF RequestInv, LockInv, Goto
    <3>5. InputAt(r)' /\ TxAt(r)' BY <3>1, <3>4 DEF RequestInv, InputAt, TxAt, Holding
    <3> QED BY <3>2, <3>3, <3>5 DEF RequestInv
  <2> QED BY <2>1, <2>2
<1> QED BY <1>1, <1>2, <1>3, <1>4

LEMMA RequestStep == RequestInv /\ [Next]_vars => RequestInv'
<1> SUFFICES ASSUME RequestInv, [Next]_vars PROVE RequestInv'
  OBVIOUS
<1>1. LockInv' BY LockStep DEF RequestInv
<1>2. ASSUME NEW r \in Requests, Commits(r) \/ CommitFails(r) PROVE RequestInv'
  <2>1. CASE TxFails(r, "failed to commit transaction") BY <1>1, <2>1, RequestFails
  <2>2. CASE ~TxFails(r, "failed to commit transaction")
    <3>1. /\ pc[r] = "commit" /\ Durable(r)
          /\ \/ Goto(r, "cacheDelete") /\ UNCHANGED answer
             \/ Answers(r, Status("failed to commit transaction"))
      BY <1>2, <2>2 DEF Commits, CommitFails
    <3> QED BY <1>1, <3>1, StatusType, RequestDurable
  <2> QED BY <2>1, <2>2
<1>3. ASSUME NEW r \in Requests, StatementFails(r) \/ GetForUpdateFails(r) PROVE RequestInv'
  BY <1>1, <1>3, RequestFails DEF StatementFails, GetForUpdateFails
<1>4. ASSUME NEW i \in ProductIds, Expire(i) PROVE RequestInv'
  BY <1>1, <1>4 DEF Expire, Dropped, table, local, RequestInv, TypeInv, InputAt, TxAt, Due
<1>5. CASE UNCHANGED vars
  BY <1>1, <1>5 DEF vars, table, local, RequestInv, TypeInv, InputAt, TxAt, Due
<1> QED BY <1>1, <1>2, <1>3, <1>4, <1>5, RequestReceive, RequestInsertProduct, RequestReads,
           RequestWrites DEF Next, Step

-----------------------------------------------------------------------------
(* The orders that are stored, and what their requests are answered *)

\* Only three kinds of step change the table or the inputs.
Quiet == UNCHANGED <<products, opening, orders, req>>

LEMMA Kinds ==
  ASSUME [Next]_vars
  PROVE  \/ Quiet
         \/ \E r \in Requests :
              Receive(r) \/ InsertProduct(r) \/ (pc[r] = "commit" /\ Durable(r))
<1>1. ASSUME NEW r \in Requests, Commits(r) \/ CommitFails(r)
      PROVE  Quiet \/ (pc[r] = "commit" /\ Durable(r))
  BY <1>1 DEF Commits, CommitFails, TxFails, Quiet, table
<1>2. ASSUME NEW r \in Requests,
             SelectOrder(r) \/ CacheGet(r) \/ SelectProduct(r) \/ CacheSet(r) \/ Invalidate(r)
      PROVE  Quiet
  BY <1>2 DEF SelectOrder, CacheGet, SelectProduct, CacheSet, Invalidate, Quiet, table
<1>3. ASSUME NEW r \in Requests,
             StatementFails(r) \/ GetForUpdateFails(r) \/ GetForUpdate(r) \/ CheckStock(r)
               \/ DecrementStock(r) \/ InsertOrder(r)
      PROVE  Quiet
  BY <1>3 DEF StatementFails, GetForUpdateFails, TxFails, GetForUpdate, CheckStock,
              DecrementStock, DecrementInTx, InsertOrder, Quiet, table
<1>4. ASSUME NEW i \in ProductIds, Expire(i) PROVE Quiet BY <1>4 DEF Expire, Quiet, table
<1>5. CASE UNCHANGED vars BY <1>5 DEF vars, table, Quiet
<1> QED BY <1>1, <1>2, <1>3, <1>4, <1>5 DEF Next, Step

LEMMA InsertRow ==
  ASSUME RequestInv, NEW r \in Requests, InsertProduct(r)
  PROVE  \E i \in ProductIds :
            /\ products[i] = None /\ products'[i] \in Row
            /\ opening'[i] = products'[i].stock
            /\ \A j \in ProductIds \ {i} : products'[j] = products[j] /\ opening'[j] = opening[j]
<1>1. PICK i \in ProductIds :
        /\ products[i] = None /\ \A j \in 1..(i - 1) : products[j] # None
        /\ products' = [products EXCEPT ![i] = [price |-> req[r].price, stock |-> req[r].stock]]
        /\ opening' = [opening EXCEPT ![i] = req[r].stock]
  BY DEF InsertProduct
<1>2. req[r].price \in Nat /\ req[r].stock \in Nat BY DEF RequestInv, InputAt, InsertProduct
<1>3. products'[i] = [price |-> req[r].price, stock |-> req[r].stock] /\ opening'[i] = req[r].stock
  BY <1>1 DEF RequestInv, TypeInv
<1>4. products'[i] \in Row
  <2>1. [price |-> req[r].price, stock |-> req[r].stock] \in Row BY <1>2 DEF Row
  <2> QED BY <1>3, <2>1
<1> QED BY <1>1, <1>3, <1>4 DEF RequestInv, TypeInv

\* Rows that are there stay, at the price they were created with.
PricesStay ==
  \A i \in ProductIds : products[i] \in Row =>
     products'[i] \in Row /\ products'[i].price = products[i].price

LEMMA PricesStep ==
  ASSUME RequestInv, [Next]_vars
  PROVE  PricesStay
<1>1. CASE UNCHANGED products BY <1>1 DEF PricesStay
<1>2. ASSUME NEW r \in Requests, InsertProduct(r) PROVE PricesStay
  <2>1. PICK i \in ProductIds :
          /\ products[i] = None /\ products'[i] \in Row
          /\ opening'[i] = products'[i].stock
          /\ \A j \in ProductIds \ {i} : products'[j] = products[j] /\ opening'[j] = opening[j]
    BY <1>2, InsertRow
  <2> QED BY <2>1, NoneIsNoRow DEF PricesStay
<1>3. ASSUME NEW r \in Requests, pc[r] = "commit", Durable(r) PROVE PricesStay
  BY <1>3, DurableRow DEF PricesStay
<1>4. ASSUME NEW r \in Requests, Receive(r) PROVE UNCHANGED products BY <1>4 DEF Receive, table
<1> QED BY <1>1, <1>2, <1>3, <1>4, Kinds DEF Quiet

OrderAt(r) ==
  /\ orders[r] # None =>
       /\ pc[r] \in {"cacheDelete", "done"}
       /\ pc[r] = "done" => answer[r] \in {201, 500}
       /\ req[r].id \in ProductIds /\ products[req[r].id] \in Row /\ req[r].quantity \in Nat
       /\ orders[r] = Due(r)
  /\ pc[r] = "cacheDelete" => orders[r] # None
  /\ pc[r] = "done" /\ answer[r] = 201 => orders[r] # None \/ req[r].op = "createProduct"

OrderInv == RequestInv /\ \A r \in Requests : OrderAt(r)

LEMMA OrderInit == Init => OrderInv
<1> SUFFICES ASSUME Init PROVE OrderInv
  OBVIOUS
<1>1. \A r \in Requests : pc[r] = "idle" /\ orders[r] = None BY DEF Init
<1> QED BY <1>1, RequestInit DEF OrderInv, OrderAt

LEMMA OrderOthers ==
  ASSUME OrderInv, PricesStay, NEW r \in Requests, NEW to, Goto(r, to),
         \A s \in Requests \ {r} :
            req'[s] = req[s] /\ orders'[s] = orders[s] /\ answer'[s] = answer[s]
  PROVE  \A s \in Requests \ {r} : OrderAt(s)'
<1> SUFFICES ASSUME NEW s \in Requests \ {r} PROVE OrderAt(s)'
  OBVIOUS
<1>1. pc'[s] = pc[s] BY DEF OrderInv, RequestInv, LockInv, Goto
<1>2. CASE orders[s] = None BY <1>1, <1>2 DEF OrderInv, OrderAt
<1>3. CASE orders[s] # None
  <2>1. products'[req[s].id] \in Row /\ products'[req[s].id].price = products[req[s].id].price
    BY <1>3 DEF OrderInv, OrderAt, PricesStay
  <2>2. Due(s)' = Due(s) BY <2>1 DEF Due
  <2> QED BY <1>1, <1>3, <2>1, <2>2 DEF OrderInv, OrderAt
<1> QED BY <1>2, <1>3

LEMMA OrderSame ==
  ASSUME OrderInv, UNCHANGED <<products, orders, pc, req, answer>>
  PROVE  \A s \in Requests : OrderAt(s)'
<1>1. ASSUME NEW s \in Requests PROVE OrderAt(s)'
  <2>1. Due(s)' = Due(s) BY DEF Due
  <2>2. OrderAt(s) BY DEF OrderInv
  <2> QED BY <2>1, <2>2 DEF OrderAt
<1> QED BY <1>1

\* A step before the commit, after which the request has no order yet.
LEMMA OrderEarly ==
  ASSUME OrderInv, PricesStay, NEW r \in Requests, NEW to, Goto(r, to),
         UNCHANGED orders, to # "cacheDelete", pc[r] \notin {"cacheDelete", "done"},
         \A s \in Requests \ {r} : req'[s] = req[s] /\ answer'[s] = answer[s],
         to = "done" /\ answer'[r] = 201 => req'[r].op = "createProduct"
  PROVE  \A s \in Requests : OrderAt(s)'
<1>1. pc'[r] = to BY Moves DEF OrderInv
<1>2. orders'[r] = None BY DEF OrderInv, OrderAt
<1>3. OrderAt(r)' BY <1>1, <1>2 DEF OrderAt
<1> QED BY <1>3, OrderOthers

LEMMA OrderDurable ==
  ASSUME OrderInv, PricesStay, NEW r \in Requests, pc[r] = "commit", Durable(r),
         \/ Goto(r, "cacheDelete") /\ UNCHANGED answer
         \/ Answers(r, 500)
  PROVE  \A s \in Requests : OrderAt(s)'
<1>1. PICK to \in {"cacheDelete", "done"} : Goto(r, to) BY DEF Answers
<1>2. orders' = [orders EXCEPT ![r] = total[r]] /\ req' = req BY DEF Durable
<1>3. \A s \in Requests \ {r} : orders'[s] = orders[s] /\ answer'[s] = answer[s]
  BY <1>2 DEF OrderInv, RequestInv, TypeInv, Answers
<1>4. /\ req[r].id \in ProductIds /\ req[r].quantity \in Nat
      /\ products[req[r].id] \in Row
      /\ total[r] = Due(r)
  BY DEF OrderInv, RequestInv, LockInv, InputAt, TxAt, Holding
<1>5. orders'[r] = Due(r) /\ orders'[r] # None
  <2>1. Due(r) \in Int BY <1>4, DueType
  <2> QED BY <1>2, <1>4, <2>1, NoneIsNothing DEF OrderInv, RequestInv, TypeInv
<1>6. pc'[r] \in {"cacheDelete", "done"} BY <1>1 DEF OrderInv, RequestInv, LockInv, Goto
<1>7. pc'[r] = "done" => answer'[r] = 500
  BY DEF OrderInv, RequestInv, LockInv, TypeInv, Goto, Answers
<1>8. products'[req[r].id] \in Row /\ products'[req[r].id].price = products[req[r].id].price
  BY <1>4 DEF PricesStay
<1>9. OrderAt(r)'
  <2>1. Due(r)' = Due(r) BY <1>2, <1>8 DEF Due
  <2> QED BY <1>2, <1>4, <1>5, <1>6, <1>7, <1>8, <2>1 DEF OrderAt
<1> QED BY <1>1, <1>2, <1>3, <1>9, OrderOthers

LEMMA OrderInvalidate ==
  ASSUME OrderInv, PricesStay, NEW r \in Requests, Invalidate(r)
  PROVE  \A s \in Requests : OrderAt(s)'
<1>1. Answers(r, 201) /\ UNCHANGED <<products, orders, req>> BY DEF Invalidate, table
<1>2. Goto(r, "done") /\ answer'[r] = 201 /\ \A s \in Requests \ {r} : answer'[s] = answer[s]
  BY <1>1, Renders DEF OrderInv
<1>3. pc[r] = "cacheDelete" /\ pc'[r] = "done" BY <1>2, Moves DEF Invalidate, OrderInv
<1>4. OrderAt(r)'
  <2>1. Due(r)' = Due(r) BY <1>1 DEF Due
  <2>2. OrderAt(r) BY DEF OrderInv
  <2> QED BY <1>1, <1>2, <1>3, <2>1, <2>2 DEF OrderAt
<1> QED BY <1>1, <1>2, <1>4, OrderOthers

\* A step that answers something other than 201 without an order.
LEMMA OrderRefused ==
  ASSUME OrderInv, PricesStay, NEW r \in Requests, NEW status \in Int \ {201},
         Answers(r, status), UNCHANGED <<orders, req>>, pc[r] \notin {"cacheDelete", "done"}
  PROVE  \A s \in Requests : OrderAt(s)'
<1>1. Goto(r, "done") /\ answer'[r] # 201 /\ \A s \in Requests \ {r} : answer'[s] = answer[s]
  BY Renders DEF OrderInv
<1> QED BY <1>1, OrderEarly

LEMMA OrderReads ==
  ASSUME OrderInv, PricesStay, NEW r \in Requests,
         SelectOrder(r) \/ CacheGet(r) \/ SelectProduct(r) \/ CacheSet(r)
  PROVE  \A s \in Requests : OrderAt(s)'
<1>1. pc[r] \notin {"cacheDelete", "done"} /\ UNCHANGED <<orders, req>>
  BY DEF SelectOrder, CacheGet, SelectProduct, CacheSet, table
<1>2. \/ Answers(r, 200) \/ Answers(r, 404)
      \/ UNCHANGED answer /\ \E to \in {"selectProduct", "cacheSet"} : Goto(r, to)
  BY DEF SelectOrder, CacheGet, SelectProduct, CacheSet, Status
<1> QED BY <1>1, <1>2, OrderRefused, OrderEarly

LEMMA OrderStep == OrderInv /\ [Next]_vars => OrderInv'
<1> SUFFICES ASSUME OrderInv, [Next]_vars PROVE \A s \in Requests : OrderAt(s)'
  BY RequestStep DEF OrderInv
<1>1. PricesStay BY PricesStep DEF OrderInv
<1>2. ASSUME NEW r \in Requests, NEW err, TxFails(r, err), pc[r] \notin {"cacheDelete", "done"}
      PROVE  \A s \in Requests : OrderAt(s)'
  <2>1. Status(err) \in Int \ {201} BY DEF Status
  <2> QED BY <1>1, <1>2, <2>1, OrderRefused DEF TxFails, table
<1>3. ASSUME NEW r \in Requests, Receive(r) PROVE \A s \in Requests : OrderAt(s)'
  <2>1. pc[r] = "idle" /\ UNCHANGED orders BY <1>3 DEF Receive, table
  <2>2. PICK in \in Inputs :
          \/ /\ Valid(in)
             /\ req' = [req EXCEPT ![r] = in]
             /\ Goto(r, FirstStep[in.op]) /\ UNCHANGED answer
          \/ ~Valid(in) /\ Answers(r, 400) /\ UNCHANGED req
    BY <1>3 DEF Receive
  <2>3. CASE Answers(r, 400) /\ UNCHANGED req BY <1>1, <2>1, <2>3, OrderRefused
  <2>4. CASE /\ req' = [req EXCEPT ![r] = in]
             /\ Goto(r, FirstStep[in.op]) /\ UNCHANGED answer
    <3>1. in.op \in {"createProduct", "getProduct", "createOrder", "getOrder"} BY DEF Inputs
    <3>2. FirstStep[in.op] \notin {"cacheDelete", "done"} BY <3>1 DEF FirstStep
    <3>3. \A s \in Requests \ {r} : req'[s] = req[s]
      BY <2>4 DEF OrderInv, RequestInv, LockInv
    <3> QED BY <1>1, <2>1, <2>4, <3>2, <3>3, OrderEarly
  <2> QED BY <2>2, <2>3, <2>4
<1>4. ASSUME NEW r \in Requests, InsertProduct(r) PROVE \A s \in Requests : OrderAt(s)'
  <2>1. pc[r] = "insertProduct" /\ UNCHANGED <<orders, req>>
        /\ \E status \in {201, 500} : Answers(r, status)
    BY <1>4 DEF InsertProduct
  <2>2. Goto(r, "done") /\ \A s \in Requests \ {r} : answer'[s] = answer[s]
    BY <2>1 DEF Answers, OrderInv, RequestInv, TypeInv
  <2>3. req'[r].op = "createProduct" BY <2>1 DEF OrderInv, RequestInv, InputAt
  <2> QED BY <1>1, <2>1, <2>2, <2>3, OrderEarly
<1>5. ASSUME NEW r \in Requests,
             GetForUpdate(r) \/ CheckStock(r) \/ DecrementStock(r) \/ InsertOrder(r)
      PROVE  \A s \in Requests : OrderAt(s)'
  <2>1. pc[r] \notin {"cacheDelete", "done"}
    BY <1>5 DEF GetForUpdate, CheckStock, DecrementStock, InsertOrder
  <2>2. CASE \E err : TxFails(r, err) BY <1>2, <2>1, <2>2
  <2>3. CASE ~\E err : TxFails(r, err)
    <3>1. /\ UNCHANGED <<orders, req, answer>>
          /\ \E to \in {"check", "decrement", "insertOrder", "commit"} : Goto(r, to)
      BY <1>5, <2>3 DEF GetForUpdate, CheckStock, DecrementStock, InsertOrder, table
    <3> QED BY <1>1, <2>1, <3>1, OrderEarly
  <2> QED BY <2>2, <2>3
<1>6. ASSUME NEW r \in Requests, Commits(r) \/ CommitFails(r)
      PROVE  \A s \in Requests : OrderAt(s)'
  <2>1. pc[r] = "commit" BY <1>6 DEF Commits, CommitFails
  <2>2. CASE TxFails(r, "failed to commit transaction") BY <1>2, <2>1, <2>2
  <2>3. CASE ~TxFails(r, "failed to commit transaction")
    <3>1. /\ Durable(r)
          /\ (Goto(r, "cacheDelete") /\ UNCHANGED answer) \/ Answers(r, 500)
      BY <1>6, <2>3 DEF Commits, CommitFails, Status
    <3> QED BY <1>1, <2>1, <3>1, OrderDurable
  <2> QED BY <2>2, <2>3
<1>7. ASSUME NEW r \in Requests, StatementFails(r) \/ GetForUpdateFails(r)
      PROVE  \A s \in Requests : OrderAt(s)'
  BY <1>2, <1>7 DEF StatementFails, GetForUpdateFails, Statements
<1>8. ASSUME NEW i \in ProductIds, Expire(i) PROVE \A s \in Requests : OrderAt(s)'
  BY <1>8, OrderSame DEF Expire, table
<1>9. CASE UNCHANGED vars BY <1>9, OrderSame DEF vars, table
<1> QED BY <1>1, <1>3, <1>4, <1>5, <1>6, <1>7, <1>8, <1>9, OrderReads, OrderInvalidate
        DEF Next, Step

\* CreateOrder answers 201 exactly for the orders that are stored, and 500 where
\* the outcome is open; the total stored is price times quantity unless that
\* overflows (service.go:90-126, handler.go:97-120).
THEOREM AnswersAreTrue == Spec => []AnswerMatchesOutcome
<1>1. OrderInv => AnswerMatchesOutcome
  <2> SUFFICES ASSUME OrderInv, NEW r \in Requests, pc[r] = "done"
               PROVE  /\ answer[r] = 201 /\ req[r].op = "createOrder" => orders[r] # None
                      /\ orders[r] # None => answer[r] \in {201, 500}
                      /\ orders[r] # None =>
                           LET due == products[req[r].id].price * req[r].quantity
                           IN  orders[r] = due \/ due >= 2^(Width - 1)
    BY DEF AnswerMatchesOutcome
  <2>1. OrderAt(r) BY DEF OrderInv
  <2>2. answer[r] = 201 /\ req[r].op = "createOrder" => orders[r] # None BY <2>1 DEF OrderAt
  <2>3. orders[r] # None => answer[r] \in {201, 500} BY <2>1 DEF OrderAt
  <2>4. ASSUME orders[r] # None
        PROVE  LET due == products[req[r].id].price * req[r].quantity
               IN  orders[r] = due \/ due >= 2^(Width - 1)
    <3> DEFINE due == products[req[r].id].price * req[r].quantity
               half == 2^(Width - 1)
    <3>1. due \in Nat
      <4> DEFINE price == products[req[r].id].price
                 quantity == req[r].quantity
      <4>1. price \in Nat /\ quantity \in Nat BY <2>1, <2>4, RowFields DEF OrderAt
      <4>2. due = price * quantity OBVIOUS
      <4> HIDE DEF price, quantity, due
      <4> QED BY <4>1, <4>2
    <3>2. orders[r] = Wrap(due) BY <2>1, <2>4 DEF OrderAt, Due
    <3>3. half \in Nat BY OrdersAssumption, PowPos
    <3> HIDE DEF due
    <3>4. due < half => Wrap(due) = due BY <3>1, OrdersAssumption, WrapFits DEF Wrap
    <3>5. orders[r] = due \/ due >= half
      <4> HIDE DEF half
      <4> QED BY <3>1, <3>2, <3>3, <3>4
    <3> QED BY <3>5 DEF due
  <2> QED BY <2>2, <2>3, <2>4
<1> QED BY <1>1, OrderInit, OrderStep, PTL DEF Spec

\* An order that is stored is never changed, and neither is a product's price:
\* repository.go inserts rows and updates nothing but a product's stock.
THEOREM RecordsStay ==
  Spec => [][/\ PricesStay
             /\ \A r \in Requests : orders[r] # None => orders'[r] = orders[r]]_vars
<1> DEFINE Kept == \A r \in Requests : orders[r] # None => orders'[r] = orders[r]
<1>1. ASSUME OrderInv, [Next]_vars PROVE Kept
  <2>1. ASSUME NEW r \in Requests, pc[r] = "commit", Durable(r) PROVE Kept
    <3>1. orders[r] = None BY <1>1, <2>1 DEF OrderInv, OrderAt
    <3>2. \A s \in Requests \ {r} : orders'[s] = orders[s]
      BY <1>1, <2>1 DEF Durable, OrderInv, RequestInv, TypeInv
    <3> QED BY <3>1, <3>2
  <2>2. ASSUME NEW r \in Requests, Receive(r) \/ InsertProduct(r) PROVE Kept
    BY <2>2 DEF Receive, InsertProduct, table
  <2> QED BY <1>1, <2>1, <2>2, Kinds DEF Quiet
<1>2. OrderInv /\ [Next]_vars => [PricesStay /\ Kept]_vars
  BY <1>1, PricesStep DEF OrderInv
<1> QED BY <1>2, OrderInit, OrderStep, PTL DEF Spec

-----------------------------------------------------------------------------
(* The books: stock, orders and cached copies *)

\* A copy of row i is one that was committed: orders placed since then account
\* for the difference.
Committed(i, stock) ==
  /\ products[i] \in Row
  /\ \E S \in SUBSET Placed(i) : stock = products[i].stock + Taken(S)

BookInv ==
  /\ OrderInv
  /\ \A i \in ProductIds : IsFiniteSet(Placed(i))
  /\ StockAccounted
  /\ \A i \in ProductIds : Cached(i) => Committed(i, cache[i].stock)
  /\ \A r \in Requests : pc[r] = "cacheSet" => Committed(req[r].id, read[r].stock)

LEMMA TakenNone == Taken({}) = 0
BY SumEmpty DEF Taken

LEMMA PlacedQuantity ==
  ASSUME OrderInv
  PROVE  \A i : \A r \in Placed(i) : req[r].quantity \in Int
<1>1. \A r \in Requests : OrderAt(r) BY DEF OrderInv
<1>2. \A r \in Requests : orders[r] # None => req[r].quantity \in Nat BY <1>1 DEF OrderAt
<1> QED BY <1>2 DEF Placed

LEMMA TakenAdd ==
  ASSUME NEW S, IsFiniteSet(S), NEW r, r \notin S, \A x \in S \cup {r} : req[x].quantity \in Int
  PROVE  Taken(S) \in Int /\ Taken(S \cup {r}) = req[r].quantity + Taken(S)
<1> DEFINE f == [x \in S |-> req[x].quantity]
           e == [x \in S \cup {r} |-> req[x].quantity]
<1>1. Taken(S) = SumFunctionOnSet(f, S) /\ Taken(S \cup {r}) = SumFunctionOnSet(e, S \cup {r})
  BY DEF Taken
<1>2. \A x \in S : f[x] \in Int /\ e[x] = f[x] OBVIOUS
<1>3. \A x \in S \cup {r} : e[x] \in Int OBVIOUS
<1>4. e[r] = req[r].quantity OBVIOUS
<1> HIDE DEF f, e
<1>5. SumFunctionOnSet(f, S) \in Int BY <1>2, SumInt
<1>6. SumFunctionOnSet(e, S) = SumFunctionOnSet(f, S) BY <1>2, SumSame
<1>7. SumFunctionOnSet(e, S \cup {r}) = e[r] + SumFunctionOnSet(e, S) BY <1>3, SumAdd
<1> QED BY <1>1, <1>4, <1>5, <1>6, <1>7

LEMMA BookInit == Init => BookInv
<1> SUFFICES ASSUME Init PROVE BookInv
  OBVIOUS
<1>1. \A i \in ProductIds : Placed(i) = {} BY DEF Init, Placed
<1>2. \A i \in ProductIds : IsFiniteSet(Placed(i)) BY <1>1, FS_EmptySet
<1>3. ASSUME NEW i \in ProductIds, products[i] # None
      PROVE  products[i].stock + Taken(Placed(i)) = opening[i]
  <2>1. products[i] \in Row BY <1>3, RequestInit DEF RequestInv, TypeInv
  <2>2. products[i].stock \in Nat BY <2>1, RowFields
  <2>3. opening[i] = products[i].stock BY <1>3 DEF Init
  <2> QED BY <1>1, <2>2, <2>3, TakenNone
<1>4. \A i \in ProductIds : ~Cached(i) BY DEF Init, Cached
<1>5. \A r \in Requests : pc[r] = "idle" BY DEF Init
<1> QED BY <1>2, <1>3, <1>4, <1>5, OrderInit DEF BookInv, StockAccounted

\* What the three kinds of step do to the orders placed for a product and to
\* what they took.
LEMMA TakenPlaced ==
  ASSUME NEW i \in ProductIds, NEW T, Placed(i)' = T
  PROVE  Taken(Placed(i))' = Taken(T)'
BY DEF Taken

LEMMA BooksReceive ==
  ASSUME BookInv, NEW r \in Requests, Receive(r), NEW i \in ProductIds
  PROVE  /\ Placed(i)' = Placed(i)
         /\ \A S \in SUBSET Placed(i) : Taken(S)' = Taken(S)
<1>1. orders[r] = None BY DEF Receive, BookInv, OrderInv, OrderAt
<1>2. UNCHANGED orders BY DEF Receive, table
<1>3. \A s \in Requests \ {r} : req'[s] = req[s]
  BY DEF Receive, BookInv, OrderInv, RequestInv, LockInv
<1>4. Placed(i)' = Placed(i) BY <1>1, <1>2, <1>3 DEF Placed
<1>5. ASSUME NEW S \in SUBSET Placed(i) PROVE Taken(S)' = Taken(S)
  <2>1. \A s \in S : req'[s] = req[s] BY <1>1, <1>3 DEF Placed
  <2>2. [s \in S |-> req'[s].quantity] = [s \in S |-> req[s].quantity] BY <2>1
  <2> QED BY <2>2 DEF Taken
<1> QED BY <1>4, <1>5

LEMMA BooksDurable ==
  ASSUME BookInv, NEW r \in Requests, pc[r] = "commit", Durable(r)
  PROVE  /\ r \notin Placed(req[r].id)
         /\ \A i \in ProductIds :
              Placed(i)' = IF i = req[r].id THEN Placed(i) \cup {r} ELSE Placed(i)
         /\ \A S : Taken(S)' = Taken(S)
         /\ \A S \in SUBSET Placed(req[r].id) :
              Taken(S) \in Int /\ Taken(S \cup {r}) = req[r].quantity + Taken(S)
<1>1. orders[r] = None BY DEF BookInv, OrderInv, OrderAt
<1>2. orders' = [orders EXCEPT ![r] = total[r]] /\ req' = req BY DEF Durable
<1>3. /\ req[r].id \in ProductIds /\ req[r].quantity \in Nat /\ products[req[r].id] \in Row
      /\ total[r] = Due(r)
  BY DEF BookInv, OrderInv, RequestInv, LockInv, InputAt, TxAt, Holding
<1>4. total[r] \in Int BY <1>3, DueType
<1>5. orders'[r] # None /\ \A s \in Requests \ {r} : orders'[s] = orders[s]
  BY <1>2, <1>4, NoneIsNothing DEF BookInv, OrderInv, RequestInv, TypeInv
<1>6. r \notin Placed(req[r].id) BY <1>1 DEF Placed
<1>7. ASSUME NEW i \in ProductIds, i = req[r].id PROVE Placed(i)' = Placed(i) \cup {r}
  BY <1>2, <1>5, <1>7 DEF Placed
<1>8. ASSUME NEW i \in ProductIds, i # req[r].id PROVE Placed(i)' = Placed(i)
  BY <1>2, <1>5, <1>8 DEF Placed
<1>9. \A S : Taken(S)' = Taken(S) BY <1>2 DEF Taken
<1>10. ASSUME NEW S \in SUBSET Placed(req[r].id)
       PROVE  Taken(S) \in Int /\ Taken(S \cup {r}) = req[r].quantity + Taken(S)
  <2>1. IsFiniteSet(S) BY <1>3, FS_Subset DEF BookInv
  <2>2. \A x \in S : req[x].quantity \in Int BY PlacedQuantity DEF BookInv
  <2>3. r \notin S /\ \A x \in S \cup {r} : req[x].quantity \in Int BY <1>3, <1>6, <2>2
  <2> QED BY <2>1, <2>3, TakenAdd
<1> QED BY <1>6, <1>7, <1>8, <1>9, <1>10

LEMMA BooksQuiet ==
  ASSUME Quiet
  PROVE  (\A i : Placed(i)' = Placed(i)) /\ (\A S : Taken(S)' = Taken(S))
BY DEF Quiet, Placed, Taken

\* The rows of a commit, before and after.
LEMMA DurableStock ==
  ASSUME BookInv, NEW r \in Requests, pc[r] = "commit", Durable(r)
  PROVE  /\ req[r].quantity \in Nat
         /\ products[req[r].id].stock \in Nat /\ products'[req[r].id].stock \in Nat
         /\ products'[req[r].id].stock + req[r].quantity = products[req[r].id].stock
<1>1. pending[r] \in Nat /\ pending[r] + req[r].quantity = products[req[r].id].stock
      /\ req[r].quantity \in Nat
  BY DEF BookInv, OrderInv, RequestInv, InputAt, TxAt, Holding
<1>2. products'[req[r].id].stock = pending[r] BY DurableRow DEF BookInv, OrderInv
<1>3. products[req[r].id].stock \in Nat BY DurableRow DEF BookInv, OrderInv, Row
<1> QED BY <1>1, <1>2, <1>3

LEMMA BooksBalance ==
  ASSUME BookInv, [Next]_vars
  PROVE  (\A i \in ProductIds : IsFiniteSet(Placed(i))') /\ StockAccounted'
<1> DEFINE Balance(i) == /\ IsFiniteSet(Placed(i))
                         /\ products[i] # None => products[i].stock + Taken(Placed(i)) = opening[i]
<1> SUFFICES ASSUME NEW i \in ProductIds PROVE Balance(i)'
  BY DEF StockAccounted
<1>1. Balance(i) BY DEF BookInv, StockAccounted
<1>2. ASSUME /\ Placed(i)' = Placed(i) /\ Taken(Placed(i))' = Taken(Placed(i))
             /\ products'[i] = products[i] /\ opening'[i] = opening[i]
      PROVE  Balance(i)'
  BY <1>1, <1>2
<1>3. CASE Quiet
  <2>1. Taken(Placed(i))' = Taken(Placed(i)) BY <1>3, BooksQuiet, TakenPlaced
  <2> QED BY <1>2, <1>3, <2>1, BooksQuiet DEF Quiet
<1>4. ASSUME NEW r \in Requests, Receive(r) PROVE Balance(i)'
  <2>1. Placed(i)' = Placed(i) BY <1>4, BooksReceive
  <2>2. Taken(Placed(i))' = Taken(Placed(i))
    <3>1. \A S \in SUBSET Placed(i) : Taken(S)' = Taken(S) BY <1>4, BooksReceive
    <3>2. PICK T : T = Placed(i) OBVIOUS
    <3>3. Taken(T)' = Taken(T) BY <3>1, <3>2
    <3>4. Taken(Placed(i))' = Taken(T)' BY <2>1, <3>2, TakenPlaced
    <3> QED BY <3>2, <3>3, <3>4
  <2>3. UNCHANGED <<products, opening>> BY <1>4 DEF Receive, table
  <2> QED BY <1>2, <2>1, <2>2, <2>3
<1>5. ASSUME NEW r \in Requests, InsertProduct(r) PROVE Balance(i)'
  <2>1. PICK n \in ProductIds :
          /\ products[n] = None /\ products'[n] \in Row
          /\ opening'[n] = products'[n].stock
          /\ \A j \in ProductIds \ {n} : products'[j] = products[j] /\ opening'[j] = opening[j]
    BY <1>5, InsertRow DEF BookInv, OrderInv
  <2>2. UNCHANGED <<orders, req>> BY <1>5 DEF InsertProduct
  <2>3. Placed(i)' = Placed(i) BY <2>2 DEF Placed
  <2>4. Taken(Placed(i))' = Taken(Placed(i)) BY <2>2, <2>3 DEF Taken
  <2>5. CASE i # n BY <1>2, <2>1, <2>3, <2>4, <2>5
  <2>6. CASE i = n
    <3>2. Placed(i) = {} BY <2>1, <2>6, NoneIsNoRow DEF Placed, BookInv, OrderInv, OrderAt
    <3>3. Taken(Placed(i)) = 0 BY <3>2, TakenNone
    <3>4. products'[i].stock \in Nat BY <2>1, <2>6, RowFields
    <3>5. products'[i].stock + Taken(Placed(i))' = opening'[i]
      BY <2>1, <2>4, <2>6, <3>3, <3>4
    <3> QED BY <1>1, <2>3, <3>5
  <2> QED BY <2>5, <2>6
<1>6. ASSUME NEW r \in Requests, pc[r] = "commit", Durable(r) PROVE Balance(i)'
  <2>1. UNCHANGED opening BY <1>6 DEF Durable
  <2>2. \A S : Taken(S)' = Taken(S) BY <1>6, BooksDurable
  <2>3. CASE i # req[r].id
    <3>1. Placed(i)' = Placed(i) BY <1>6, <2>3, BooksDurable
    <3>2. Taken(Placed(i))' = Taken(Placed(i)) BY <2>2, <3>1, TakenPlaced
    <3>3. products'[i] = products[i] BY <1>6, <2>3, DurableRow DEF BookInv, OrderInv
    <3> QED BY <1>2, <2>1, <3>1, <3>2, <3>3
  <2>4. CASE i = req[r].id
    <3>1. PICK T : T = Placed(i) OBVIOUS
    <3>2. Placed(i)' = T \cup {r} BY <1>6, <2>4, <3>1, BooksDurable
    <3>3. IsFiniteSet(T \cup {r})
      <4>1. IsFiniteSet(T) BY <1>1, <3>1
      <4> QED BY <4>1, FS_AddElement
    <3>4. Taken(T) \in Int /\ Taken(T \cup {r}) = req[r].quantity + Taken(T)
      BY <1>6, <2>4, <3>1, BooksDurable
    <3>5. Taken(Placed(i))' = Taken(T \cup {r}) BY <2>2, <3>2, TakenPlaced
    <3>6. products[i] # None
      <4>1. products[i] \in Row BY <1>6, <2>4, DurableRow DEF BookInv, OrderInv
      <4> QED BY <4>1, NoneIsNoRow
    <3>7. products[i].stock + Taken(T) = opening[i] BY <1>1, <3>1, <3>6
    <3>8. /\ req[r].quantity \in Nat
          /\ products[i].stock \in Nat /\ products'[i].stock \in Nat
          /\ products'[i].stock + req[r].quantity = products[i].stock
      BY <1>6, <2>4, DurableStock
    <3>9. products'[i].stock + Taken(Placed(i))' = opening'[i]
      BY <2>1, <3>4, <3>5, <3>7, <3>8
    <3> QED BY <3>2, <3>3, <3>9
  <2> QED BY <2>3, <2>4
<1> QED BY <1>3, <1>4, <1>5, <1>6, Kinds

\* What was committed once stays so, however many orders follow.
LEMMA CommittedStays ==
  ASSUME BookInv, [Next]_vars, NEW i \in ProductIds, NEW x, Committed(i, x)
  PROVE  Committed(i, x)'
<1>1. PICK S \in SUBSET Placed(i) : x = products[i].stock + Taken(S) BY DEF Committed
<1>2. products[i] \in Row BY DEF Committed
<1>3. ASSUME Placed(i)' = Placed(i), Taken(S)' = Taken(S), products'[i] = products[i]
      PROVE  Committed(i, x)'
  BY <1>1, <1>2, <1>3 DEF Committed
<1>4. CASE Quiet BY <1>3, <1>4, BooksQuiet DEF Quiet
<1>5. ASSUME NEW r \in Requests, Receive(r) PROVE Committed(i, x)'
  <2>1. UNCHANGED products BY <1>5 DEF Receive, table
  <2>2. Placed(i)' = Placed(i) BY <1>5, BooksReceive
  <2>3. Taken(S)' = Taken(S) BY <1>5, BooksReceive
  <2> QED BY <1>3, <2>1, <2>2, <2>3
<1>6. ASSUME NEW r \in Requests, InsertProduct(r) PROVE Committed(i, x)'
  <2>1. PICK n \in ProductIds :
          /\ products[n] = None /\ products'[n] \in Row
          /\ opening'[n] = products'[n].stock
          /\ \A j \in ProductIds \ {n} : products'[j] = products[j] /\ opening'[j] = opening[j]
    BY <1>6, InsertRow DEF BookInv, OrderInv
  <2>3. products'[i] = products[i] BY <1>2, <2>1, NoneIsNoRow
  <2>4. UNCHANGED <<orders, req>> BY <1>6 DEF InsertProduct
  <2>5. Placed(i)' = Placed(i) BY <2>4 DEF Placed
  <2>6. Taken(S)' = Taken(S) BY <2>4 DEF Taken
  <2> QED BY <1>3, <2>3, <2>5, <2>6
<1>7. ASSUME NEW r \in Requests, pc[r] = "commit", Durable(r) PROVE Committed(i, x)'
  <2>1. CASE i # req[r].id
    <3>1. Placed(i)' = Placed(i) BY <1>7, <2>1, BooksDurable
    <3>2. Taken(S)' = Taken(S) BY <1>7, BooksDurable
    <3>3. products'[i] = products[i] BY <1>7, <2>1, DurableRow DEF BookInv, OrderInv
    <3> QED BY <1>3, <3>1, <3>2, <3>3
  <2>2. CASE i = req[r].id
    <3>1. S \cup {r} \in SUBSET Placed(i)' BY <1>1, <1>7, <2>2, BooksDurable
    <3>2. Taken(S) \in Int /\ Taken(S \cup {r}) = req[r].quantity + Taken(S)
      BY <1>1, <1>7, <2>2, BooksDurable
    <3>3. Taken(S \cup {r})' = Taken(S \cup {r}) BY <1>7, BooksDurable
    <3>4. /\ req[r].quantity \in Nat
          /\ products[i].stock \in Nat /\ products'[i].stock \in Nat
          /\ products'[i].stock + req[r].quantity = products[i].stock
      BY <1>7, <2>2, DurableStock
    <3>5. x = products'[i].stock + Taken(S \cup {r})' BY <1>1, <3>2, <3>3, <3>4
    <3>6. products'[i] \in Row BY <1>7, <2>2, DurableRow DEF BookInv, OrderInv
    <3>7. PICK T : T = S \cup {r} OBVIOUS
    <3>8. x = products'[i].stock + Taken(T)' BY <3>5, <3>7
    <3> QED BY <3>1, <3>6, <3>7, <3>8 DEF Committed
  <2> QED BY <2>1, <2>2
<1> QED BY <1>4, <1>5, <1>6, <1>7, Kinds

\* An entry of the cache is an old one or the copy that CacheSet stores.
LEMMA CacheSource ==
  ASSUME BookInv, [Next]_vars, NEW i \in ProductIds, Cached(i)'
  PROVE  \/ Cached(i) /\ cache'[i] = cache[i]
         \/ \E r \in Requests : /\ pc[r] = "cacheSet" /\ req[r].id = i
                               /\ cache'[i].stock = read[r].stock
<1> DEFINE Fresh(r) == pc[r] = "cacheSet" /\ req[r].id = i /\ cache'[i].stock = read[r].stock
           Old == Cached(i) /\ cache'[i] = cache[i]
<1>1. DOMAIN cache = ProductIds BY DEF BookInv, OrderInv, RequestInv, TypeInv
<1>2. CASE UNCHANGED cache BY <1>2 DEF Cached
<1>3. ASSUME NEW j \in ProductIds, cache' = Dropped(j) PROVE Old
  BY <1>1, <1>3 DEF Dropped, Cached
<1>4. ASSUME NEW r \in Requests, CacheSet(r) PROVE Fresh(r) \/ Old
  <2>1. pc[r] = "cacheSet" BY <1>4 DEF CacheSet
  <2>2. req[r].id \in ProductIds BY <2>1 DEF BookInv, OrderInv, RequestInv, InputAt
  <2>3. CASE cache' = [cache EXCEPT ![req[r].id] = NewEntry(read[r])]
    BY <1>1, <2>1, <2>2, <2>3 DEF NewEntry, Cached
  <2> QED BY <1>2, <1>4, <2>3 DEF CacheSet, Cached
<1>5. ASSUME NEW r \in Requests, Invalidate(r) PROVE Old
  <2>1. pc[r] = "cacheDelete" BY <1>5 DEF Invalidate
  <2>2. req[r].id \in ProductIds BY <2>1 DEF BookInv, OrderInv, OrderAt
  <2> QED BY <1>3, <1>5, <2>2 DEF Invalidate, Cached
<1>6. ASSUME NEW r \in Requests,
             \/ Receive(r) \/ InsertProduct(r) \/ SelectOrder(r) \/ CacheGet(r) \/ SelectProduct(r)
             \/ StatementFails(r) \/ GetForUpdateFails(r) \/ GetForUpdate(r) \/ CheckStock(r)
             \/ DecrementStock(r) \/ InsertOrder(r) \/ Commits(r) \/ CommitFails(r)
      PROVE  UNCHANGED cache
  BY <1>6 DEF Receive, InsertProduct, SelectOrder, CacheGet, SelectProduct, StatementFails,
              GetForUpdateFails, GetForUpdate, CheckStock, TxFails, DecrementStock, InsertOrder,
              CacheUntouched, Commits, CommitFails, Durable
<1>7. ASSUME NEW j \in ProductIds, Expire(j) PROVE Old BY <1>3, <1>7 DEF Expire
<1>8. CASE UNCHANGED vars BY <1>2, <1>8 DEF vars
<1> QED BY <1>2, <1>4, <1>5, <1>6, <1>7, <1>8 DEF Next, Step

\* A request about to fill the cache was about to before, or has just selected
\* the row.
LEMMA ReadSource ==
  ASSUME BookInv, [Next]_vars, NEW r \in Requests, pc'[r] = "cacheSet"
  PROVE  /\ req'[r] = req[r]
         /\ \/ pc[r] = "cacheSet" /\ read'[r] = read[r]
            \/ /\ products[req[r].id] # None /\ req[r].id \in ProductIds
               /\ read'[r] = products[req[r].id]
<1> DEFINE Source == /\ req'[r] = req[r]
                     /\ \/ pc[r] = "cacheSet" /\ read'[r] = read[r]
                        \/ /\ products[req[r].id] # None /\ req[r].id \in ProductIds
                           /\ read'[r] = products[req[r].id]
<1> USE DEF BookInv, OrderInv, RequestInv
<1>1. ASSUME NEW s \in Requests, NEW to, Goto(s, to), to # "cacheSet",
             \A q \in Requests \ {s} : req'[q] = req[q] /\ read'[q] = read[q]
      PROVE  Source
  <2>1. r # s /\ pc'[r] = pc[r] BY <1>1 DEF LockInv, Goto
  <2> QED BY <1>1, <2>1
<1>2. ASSUME NEW s \in Requests, Receive(s) PROVE Source
  <2>1. UNCHANGED read BY <1>2 DEF Receive, local
  <2>2. \A q \in Requests \ {s} : req'[q] = req[q] BY <1>2 DEF Receive, LockInv
  <2>3. \E to \in PCs \ {"cacheSet"} : Goto(s, to)
    <3>1. \A in \in Inputs : FirstStep[in.op] \in PCs \ {"cacheSet"}
      <4>1. \A in \in Inputs : in.op \in {"createProduct", "getProduct", "createOrder", "getOrder"}
        BY DEF Inputs
      <4> QED BY <4>1 DEF FirstStep, PCs, Statements
    <3> QED BY <1>2, <3>1 DEF Receive, Answers, PCs
  <2> QED BY <1>1, <2>1, <2>2, <2>3
<1>3. ASSUME NEW s \in Requests, SelectProduct(s) PROVE Source
  <2>1. UNCHANGED req BY <1>3 DEF SelectProduct
  <2>2. CASE UNCHANGED read /\ Goto(s, "done") BY <1>1, <2>1, <2>2
  <2>3. CASE /\ products[req[s].id] # None /\ Goto(s, "cacheSet")
             /\ read' = [read EXCEPT ![s] = products[req[s].id]]
    <3>1. req[s].id \in ProductIds BY <1>3 DEF SelectProduct, InputAt
    <3>2. CASE r = s BY <2>1, <2>3, <3>1, <3>2 DEF TypeInv
    <3>3. CASE r # s BY <2>1, <2>3, <3>3 DEF TypeInv, LockInv, Goto
    <3> QED BY <3>2, <3>3
  <2> QED BY <1>3, <2>2, <2>3 DEF SelectProduct, Answers
<1>4. ASSUME NEW s \in Requests, GetForUpdate(s) PROVE Source
  <2>1. CASE \E err : TxFails(s, err) BY <1>1, <2>1 DEF TxFails, Answers
  <2>2. CASE ~\E err : TxFails(s, err)
    <3>1. /\ UNCHANGED req /\ Goto(s, "check")
          /\ read' = [read EXCEPT ![s] = products[req[s].id]]
      BY <1>4, <2>2 DEF GetForUpdate
    <3> QED BY <1>1, <3>1 DEF TypeInv
  <2> QED BY <2>1, <2>2
<1>5. ASSUME NEW s \in Requests,
             \/ InsertProduct(s) \/ SelectOrder(s) \/ CacheGet(s) \/ CacheSet(s) \/ Invalidate(s)
             \/ StatementFails(s) \/ GetForUpdateFails(s) \/ CheckStock(s)
             \/ DecrementStock(s) \/ InsertOrder(s) \/ Commits(s) \/ CommitFails(s)
      PROVE  Source
  <2>1. UNCHANGED <<req, read>>
    BY <1>5 DEF InsertProduct, SelectOrder, CacheGet, CacheSet, Invalidate, StatementFails,
                GetForUpdateFails, CheckStock, DecrementStock, InsertOrder, Commits, CommitFails,
                TxFails, Durable, local
  <2>2. \E to \in {"done", "selectProduct", "decrement", "insertOrder", "commit", "cacheDelete"} : Goto(s, to)
    BY <1>5 DEF InsertProduct, SelectOrder, CacheGet, CacheSet, Invalidate, StatementFails,
                GetForUpdateFails, CheckStock, DecrementStock, InsertOrder, Commits, CommitFails,
                TxFails, Answers
  <2> QED BY <1>1, <2>1, <2>2
<1>6. ASSUME NEW i \in ProductIds, Expire(i) PROVE Source BY <1>6 DEF Expire, local
<1>7. CASE UNCHANGED vars BY <1>7 DEF vars, local
<1> QED BY <1>2, <1>3, <1>4, <1>5, <1>6, <1>7 DEF Next, Step

LEMMA BookStep == BookInv /\ [Next]_vars => BookInv'
<1> SUFFICES ASSUME BookInv, [Next]_vars PROVE BookInv'
  OBVIOUS
<1>1. OrderInv' BY OrderStep DEF BookInv
<1>2. (\A i \in ProductIds : IsFiniteSet(Placed(i))') /\ StockAccounted' BY BooksBalance
<1>3. ASSUME NEW r \in Requests, pc[r] = "cacheSet"
      PROVE  req[r].id \in ProductIds /\ Committed(req[r].id, read[r].stock)
  BY <1>3 DEF BookInv, OrderInv, RequestInv, InputAt
<1>4. ASSUME NEW i \in ProductIds, Cached(i)' PROVE Committed(i, cache[i].stock)'
  <2>1. PICK x : x = cache'[i].stock OBVIOUS
  <2>2. Committed(i, x) BY <1>3, <1>4, <2>1, CacheSource DEF BookInv
  <2>3. Committed(i, x)' BY <2>2, CommittedStays
  <2> QED BY <2>1, <2>3 DEF Committed
<1>5. ASSUME NEW r \in Requests, pc'[r] = "cacheSet" PROVE Committed(req[r].id, read[r].stock)'
  <2>1. PICK i, x : i = req[r].id /\ x = read'[r].stock OBVIOUS
  <2>2. i \in ProductIds /\ Committed(i, x)
    <3>1. CASE pc[r] = "cacheSet" /\ read'[r] = read[r] BY <1>3, <2>1, <3>1
    <3>2. CASE /\ products[req[r].id] # None /\ req[r].id \in ProductIds
               /\ read'[r] = products[req[r].id]
      <4>1. products[i] \in Row BY <2>1, <3>2 DEF BookInv, OrderInv, RequestInv, TypeInv
      <4>2. x = products[i].stock + Taken({})
        <5>1. products[i].stock \in Nat BY <4>1, RowFields
        <5> QED BY <2>1, <3>2, <5>1, TakenNone
      <4> QED BY <2>1, <3>2, <4>1, <4>2 DEF Committed
    <3> QED BY <1>5, <3>1, <3>2, ReadSource
  <2>3. Committed(i, x)' BY <2>2, CommittedStays
  <2>4. req'[r].id = i /\ read'[r].stock = x BY <1>5, <2>1, ReadSource
  <2> QED BY <2>3, <2>4 DEF Committed
<1> QED BY <1>1, <1>2, <1>4, <1>5 DEF BookInv

\* However orders and failures interleave, what is missing from a product's
\* stock is exactly what its stored orders took: DecrementStock and Create
\* commit or roll back as a unit (service.go:93-113).
THEOREM BooksAgree == Spec => []StockAccounted
<1>1. BookInv => StockAccounted BY DEF BookInv
<1> QED BY <1>1, BookInit, BookStep, PTL DEF Spec

\* A product is never oversold: the stored orders take no more than what it
\* was created with, however many of them pass the check of CreateOrder
\* (service.go:99) at about the same time.
THEOREM NeverOversold ==
  Spec => [](\A i \in ProductIds : products[i] # None =>
               products[i].stock >= 0 /\ Taken(Placed(i)) <= opening[i])
<1> DEFINE Kept == \A i \in ProductIds : products[i] # None =>
                     products[i].stock >= 0 /\ Taken(Placed(i)) <= opening[i]
<1>1. BookInv => Kept
  <2> SUFFICES ASSUME BookInv, NEW i \in ProductIds, products[i] # None
               PROVE  products[i].stock >= 0 /\ Taken(Placed(i)) <= opening[i]
    OBVIOUS
  <2>1. products[i] \in Row BY DEF BookInv, OrderInv, RequestInv, TypeInv
  <2>2. products[i].stock \in Nat BY <2>1, RowFields
  <2>3. products[i].stock + Taken(Placed(i)) = opening[i] BY DEF BookInv, StockAccounted
  <2>4. Taken(Placed(i)) \in Int
    <3> DEFINE S == Placed(i)
               f == [r \in S |-> req[r].quantity]
    <3>1. IsFiniteSet(S) BY DEF BookInv
    <3>2. \A r \in S : f[r] \in Int BY PlacedQuantity DEF BookInv
    <3>3. Taken(S) = SumFunctionOnSet(f, S) BY DEF Taken
    <3> HIDE DEF S, f
    <3>4. SumFunctionOnSet(f, S) \in Int BY <3>1, <3>2, SumInt
    <3> QED BY <3>3, <3>4 DEF S
  <2> QED BY <2>2, <2>3, <2>4
<1> QED BY <1>1, BookInit, BookStep, PTL DEF Spec

\* The cache only ever holds stocks that were committed: CreateOrder touches it
\* after the transaction, and GetProduct copies what it selected
\* (service.go:67-75, 119-123).
THEOREM CacheIsClean == Spec => []NeverDirty
<1>1. BookInv => NeverDirty BY DEF BookInv, NeverDirty, Committed
<1> QED BY <1>1, BookInit, BookStep, PTL DEF Spec

-----------------------------------------------------------------------------
(* The tables move as those of Shop do *)

LEMMA ShopReceive ==
  ASSUME OrderInv, NEW r \in Requests, Receive(r)
  PROVE  UNCHANGED <<products, Bought>>
<1>1. UNCHANGED <<products, orders>> /\ orders[r] = None
  BY DEF Receive, table, OrderInv, OrderAt
<1>2. \A s \in Requests \ {r} : req'[s] = req[s]
  BY DEF Receive, OrderInv, RequestInv, LockInv
<1> QED BY <1>1, <1>2 DEF Bought

LEMMA ShopOffer ==
  ASSUME OrderInv, NEW r \in Requests, InsertProduct(r)
  PROVE  \E i \in ProductIds : Abstract!Offer(i)
<1>1. PICK i \in ProductIds :
        /\ products[i] = None /\ \A j \in 1..(i - 1) : products[j] # None
        /\ products' = [products EXCEPT ![i] = [price |-> req[r].price, stock |-> req[r].stock]]
        /\ opening' = [opening EXCEPT ![i] = req[r].stock]
  BY DEF InsertProduct
<1>2. /\ req[r].price \in Nat /\ req[r].price \in Prices
      /\ req[r].stock \in Nat /\ req[r].stock \in Stocks
  <2>1. InputAt(r) /\ pc[r] = "insertProduct" BY DEF InsertProduct, OrderInv, RequestInv
  <2> QED BY <2>1 DEF InputAt
<1>3. [price |-> req[r].price, stock |-> req[r].stock] \in Product
  <2> DEFINE price == req[r].price
             stock == req[r].stock
  <2> HIDE DEF price, stock
  <2>1. price >= 0 /\ price \in Prices /\ stock >= 0 /\ stock \in Stocks
    BY <1>2 DEF price, stock
  <2>2. [price |-> price, stock |-> stock] \in Product BY <2>1 DEF Product
  <2> QED BY <2>2 DEF price, stock
<1>4. UNCHANGED Bought BY DEF InsertProduct, Bought
<1> QED BY <1>1, <1>3, <1>4 DEF Abstract!Offer

\* The commit is the step at which an order happens.
LEMMA ShopBuy ==
  ASSUME OrderInv, NEW r \in Requests, pc[r] = "commit", Durable(r)
  PROVE  Abstract!Buy(r, req[r].id, req[r].quantity)
<1> DEFINE row == products[req[r].id]
<1>1. orders[r] = None BY DEF OrderInv, OrderAt
<1>2. Bought[r] = None BY <1>1 DEF Bought
<1>3. /\ pending[r] \in Nat /\ pending[r] + req[r].quantity = row.stock
      /\ req[r].quantity \in Nat /\ row \in Row
      /\ total[r] = Due(r)
  BY DEF OrderInv, RequestInv, InputAt, TxAt, Holding
<1>4. row.stock \in Nat /\ row # None BY <1>3, RowFields, NoneIsNoRow
<1>5. row.stock >= req[r].quantity /\ pending[r] = row.stock - req[r].quantity
  <2> HIDE DEF row
  <2> QED BY <1>3, <1>4
<1>6. products' = [products EXCEPT ![req[r].id].stock = @ - req[r].quantity]
  BY <1>5 DEF Durable
<1>7. total[r] \in Int BY <1>3, DueType
<1>8. Bought' = [Bought EXCEPT ![r] = [id |-> req[r].id, quantity |-> req[r].quantity]]
  <2>1. orders'[r] # None /\ \A s \in Requests \ {r} : orders'[s] = orders[s]
    BY <1>7, NoneIsNothing DEF Durable, OrderInv, RequestInv, TypeInv
  <2>2. req' = req BY DEF Durable
  <2> QED BY <2>1, <2>2 DEF Bought
<1> QED BY <1>2, <1>4, <1>5, <1>6, <1>8 DEF Abstract!Buy

LEMMA ShopStep == OrderInv /\ [Next]_vars => [Abstract!Next]_<<products, Bought>>
<1> SUFFICES ASSUME OrderInv, [Next]_vars PROVE [Abstract!Next]_<<products, Bought>>
  OBVIOUS
<1>1. CASE Quiet BY <1>1 DEF Quiet, Bought
<1>2. ASSUME NEW r \in Requests, Receive(r) PROVE UNCHANGED <<products, Bought>>
  BY <1>2, ShopReceive
<1>3. ASSUME NEW r \in Requests, InsertProduct(r) PROVE Abstract!Next
  BY <1>3, ShopOffer DEF Abstract!Next
<1>4. ASSUME NEW r \in Requests, pc[r] = "commit", Durable(r) PROVE Abstract!Next
  <2>1. req[r].id \in ProductIds BY <1>4 DEF OrderInv, RequestInv, LockInv, Holding
  <2>2. req[r].quantity \in Nat \ {0} /\ req[r].quantity \in Quantities
    BY <1>4 DEF OrderInv, RequestInv, InputAt, Holding
  <2>3. req[r].quantity \in {n \in Quantities : n > 0} BY <2>2
  <2> QED BY <1>4, <2>1, <2>3, ShopBuy DEF Abstract!Next
<1> QED BY <1>1, <1>2, <1>3, <1>4, Kinds

\* However requests interleave and whatever fails, the tables move as those of
\* Shop do: the statements of CreateOrder (service.go:93-113) take effect in
\* one step, the commit, or not at all, and no order takes what is not there.
THEOREM OrdersAreAtomic == Spec => ImplementsShop
<1>1. Init => Abstract!Init BY DEF Init, Abstract!Init, Bought
<1> QED BY <1>1, OrderInit, OrderStep, ShopStep, PTL DEF Spec, ImplementsShop, Abstract!Spec
=============================================================================
