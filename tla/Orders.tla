------------------------------- MODULE Orders -------------------------------
(***************************************************************************)
(* The orders service (examples/orders): the HTTP handlers, OrderService,  *)
(* the repositories over Postgres and the product cache.  Every request is *)
(* served by a goroutine of its own, so its statements and cache calls     *)
(* interleave with those of the others.                                    *)
(*                                                                         *)
(* Postgres is external: a statement sees committed rows and the writes of *)
(* its own transaction, a written row stays locked to the transaction's    *)
(* end, and the CHECKs of migrations/0001_init.sql hold.  Any statement    *)
(* and any call to Redis may fail, since the context may end or the        *)
(* connection break.  WithTx is modelled in TxManager; here it appears by  *)
(* what it promises.  An order's id is the request that placed it.         *)
(***************************************************************************)
EXTENDS Integers, FiniteSetsExt

CONSTANTS Requests,     \* the HTTP requests, each served once
          MaxProducts,  \* bound: rows of the products table
          Prices, Stocks, Quantities,   \* the numbers in request bodies
          Width,        \* bits of an integer, 64 in the code
          None

ASSUME OrdersAssumption ==
  /\ MaxProducts \in Nat /\ Width \in Nat \ {0}
  /\ Prices \subseteq Int /\ Stocks \subseteq Int /\ Quantities \subseteq Int
  /\ None \notin Int \cup Requests /\ None \notin [price : Nat, stock : Nat]

ProductIds == 1..MaxProducts

\* Product ids that a client may name: 0 stands for whatever pathID refuses.
NamedIds == 0..MaxProducts

VARIABLES adapter,    \* the Cache implementation: RedisCache or MemoryCache
          products,   \* the products table, committed rows
          opening,    \* the stock each product was created with
          orders,     \* the orders table: total of each committed order
          lock,       \* the transaction that holds each product row
          cache,      \* the cached copy of each product
          pc, req, answer,   \* per request: next step, input, HTTP status
          read,       \* per request: the product it has selected
          pending,    \* per request: the stock its open transaction has written
          total,      \* per request: the total it has inserted
          missed      \* products whose invalidation failed or was skipped

table == <<products, opening, orders>>
local == <<read, pending, total>>
vars  == <<adapter, table, lock, cache, pc, req, answer, local, missed>>

Product == [price : {n \in Prices : n >= 0}, stock : {n \in Stocks : n >= 0}]

Inputs ==
  [op : {"createProduct"}, price : Prices, stock : Stocks]
    \cup [op : {"getProduct"}, id : NamedIds]
    \cup [op : {"createOrder"}, id : NamedIds, quantity : Quantities]
    \cup [op : {"getOrder"}, order : Requests \cup {None}]

Statements == {"insertProduct", "selectProduct", "selectOrder",
               "forUpdate", "decrement", "insertOrder"}
PCs == Statements \cup {"idle", "check", "commit", "cacheGet", "cacheSet", "cacheDelete", "done"}

\* The table holds what earlier runs of the program left in it.
Init ==
  /\ adapter \in {"redis", "memory"}
  /\ products \in [ProductIds -> Product \cup {None}]
  /\ opening = [i \in ProductIds |-> IF products[i] = None THEN None ELSE products[i].stock]
  /\ orders = [r \in Requests |-> None]
  /\ lock = [i \in ProductIds |-> None]
  /\ cache = [i \in ProductIds |-> None]
  /\ pc = [r \in Requests |-> "idle"]
  /\ req = [r \in Requests |-> None]
  /\ answer = [r \in Requests |-> None]
  /\ read = [r \in Requests |-> None]
  /\ pending = [r \in Requests |-> None]
  /\ total = [r \in Requests |-> None]
  /\ missed = {}

-----------------------------------------------------------------------------
(* Handlers: decoding, validation and rendering *)

Goto(r, step) == pc' = [pc EXCEPT ![r] = step]

\* renderServiceError: the status for an error of the service.
Status(err) == CASE err = "ErrNotFound" -> 404
                 [] err = "ErrInsufficientStock" -> 409
                 [] OTHER -> 500

Answers(r, status) ==
  /\ Goto(r, "done")
  /\ answer' = [answer EXCEPT ![r] = status]

\* What createProduct, getProduct, createOrder and getOrder let through.  An
\* input that fails stands for every body or path that is turned away.
Valid(in) ==
  CASE in.op = "createProduct" -> in.price >= 0 /\ in.stock >= 0
    [] in.op = "getProduct" -> in.id > 0
    [] in.op = "createOrder" -> in.id > 0 /\ in.quantity > 0
    [] in.op = "getOrder" -> in.order # None

FirstStep == [createProduct |-> "insertProduct", getProduct |-> "cacheGet",
              createOrder |-> "forUpdate", getOrder |-> "selectOrder"]

Receive(r) ==
  /\ pc[r] = "idle"
  /\ \E in \in Inputs :
        \/ /\ Valid(in)
           /\ req' = [req EXCEPT ![r] = in]
           /\ Goto(r, FirstStep[in.op]) /\ UNCHANGED answer
        \/ ~Valid(in) /\ Answers(r, 400) /\ UNCHANGED req
  /\ UNCHANGED <<adapter, table, lock, cache, local, missed>>

-----------------------------------------------------------------------------
(* Single statements: CreateProduct, GetOrder *)

InsertProduct(r) ==
  /\ pc[r] = "insertProduct"
  /\ \E i \in ProductIds :
        /\ products[i] = None /\ \A j \in 1..(i - 1) : products[j] # None
        /\ products' = [products EXCEPT ![i] = [price |-> req[r].price, stock |-> req[r].stock]]
        /\ opening' = [opening EXCEPT ![i] = req[r].stock]
  /\ \E status \in {201, 500} : Answers(r, status)   \* 500: the answer was lost
  /\ UNCHANGED <<adapter, orders, lock, cache, req, local, missed>>

SelectOrder(r) ==
  /\ pc[r] = "selectOrder"
  /\ \/ orders[req[r].order] # None /\ Answers(r, 200)
     \/ orders[req[r].order] = None /\ Answers(r, Status("ErrNotFound"))
  /\ UNCHANGED <<adapter, table, lock, cache, req, local, missed>>

-----------------------------------------------------------------------------
(* GetProduct: cache-aside *)

\* Only Redis can fail; the in-memory adapter ignores its context.
CacheMayFail == adapter = "redis"

\* Fault: the entry is stored without an expiry.
EntryForEver(p) == [stock |-> p.stock, expires |-> FALSE]

\* RedisCache.Set keeps the entry for productCacheTTL, MemoryCache.Set for ever.
NewEntry(p) == [stock |-> p.stock, expires |-> adapter = "redis"]

\* Get finds an entry, and Delete leaves none.
Cached(i)  == cache[i] # None
Dropped(i) == [cache EXCEPT ![i] = None]

\* A miss and an error are told apart only in the log.
CacheGet(r) ==
  /\ pc[r] = "cacheGet"
  /\ \/ Cached(req[r].id) /\ Answers(r, 200)
     \/ ~Cached(req[r].id) /\ Goto(r, "selectProduct") /\ UNCHANGED answer
     \/ CacheMayFail /\ Goto(r, "selectProduct") /\ UNCHANGED answer
  /\ UNCHANGED <<adapter, table, lock, cache, req, local, missed>>

SelectProduct(r) ==
  /\ pc[r] = "selectProduct"
  /\ LET row == products[req[r].id] IN
       \/ /\ row # None
          /\ read' = [read EXCEPT ![r] = row]
          /\ Goto(r, "cacheSet") /\ UNCHANGED answer
       \/ row = None /\ Answers(r, Status("ErrNotFound")) /\ UNCHANGED read
  /\ UNCHANGED <<adapter, table, lock, cache, req, pending, total, missed>>

\* Caching is best-effort: the read is answered either way.
CacheSet(r) ==
  /\ pc[r] = "cacheSet"
  /\ \/ cache' = [cache EXCEPT ![req[r].id] = NewEntry(read[r])]
     \/ CacheMayFail /\ UNCHANGED cache
  /\ Answers(r, 200)
  /\ UNCHANGED <<adapter, table, lock, req, local, missed>>

\* Redis drops an entry when its time is up.
Expire(i) ==
  /\ Cached(i) /\ cache[i].expires
  /\ cache' = Dropped(i)
  /\ UNCHANGED <<adapter, table, lock, pc, req, answer, local, missed>>

-----------------------------------------------------------------------------
(* CreateOrder: one transaction, then the invalidation *)

\* Fault: the transaction is left open when its function fails.
KeepLocks(r) == UNCHANGED lock

\* The end of a transaction gives up its row locks.
ReleaseLocks(r) == lock' = [i \in ProductIds |-> IF lock[i] = r THEN None ELSE lock[i]]

\* WithTx rolls back, or there was no transaction, and the handler answers.
TxFails(r, err) ==
  /\ ReleaseLocks(r)
  /\ pending' = [pending EXCEPT ![r] = None]
  /\ total' = [total EXCEPT ![r] = None]
  /\ Answers(r, Status(err))
  /\ UNCHANGED <<adapter, table, cache, req, read, missed>>

StatementFails(r) == pc[r] \in Statements \ {"forUpdate"} /\ TxFails(r, "driver error")

\* GetForUpdate fails, or the transaction does not begin, or the context ends
\* while the statement waits for the row.
GetForUpdateFails(r) == pc[r] = "forUpdate" /\ TxFails(r, "driver error")

\* Fault: SELECT without FOR UPDATE.
SelectUnlocked(r) == UNCHANGED lock

\* scanProduct with forUpdate.
SelectForUpdate(r) == lock' = [lock EXCEPT ![req[r].id] = r]

\* GetForUpdate waits for the row's lock and takes it.
GetForUpdate(r) ==
  /\ pc[r] = "forUpdate" /\ lock[req[r].id] = None
  /\ LET row == products[req[r].id] IN
       \/ row = None /\ TxFails(r, "ErrNotFound")
       \/ /\ row # None
          /\ SelectForUpdate(r)
          /\ read' = [read EXCEPT ![r] = row]
          /\ Goto(r, "check")
          /\ UNCHANGED <<adapter, table, cache, req, answer, pending, total, missed>>

\* The stock that was read is checked.
CheckStock(r) ==
  /\ pc[r] = "check"
  /\ \/ read[r].stock < req[r].quantity /\ TxFails(r, "ErrInsufficientStock")
     \/ /\ read[r].stock >= req[r].quantity
        /\ Goto(r, "decrement")
        /\ UNCHANGED <<adapter, table, lock, cache, req, answer, local, missed>>

\* Fault: the update runs on the pool and not in the context's transaction.
DecrementOutsideTx(r) == products' = [products EXCEPT ![req[r].id].stock = @ - req[r].quantity]

\* Through the Querier of the context: only the transaction sees it.
DecrementInTx(r) == UNCHANGED products

\* UPDATE ... SET stock = stock - $1 takes the row's lock too.  Where the
\* CHECK (stock >= 0) is violated, only StatementFails is left.
DecrementStock(r) ==
  /\ pc[r] = "decrement" /\ lock[req[r].id] \in {None, r}
  /\ products[req[r].id].stock >= req[r].quantity
  /\ lock' = [lock EXCEPT ![req[r].id] = r]
  /\ pending' = [pending EXCEPT ![r] = products[req[r].id].stock - req[r].quantity]
  /\ DecrementInTx(r)
  /\ Goto(r, "insertOrder")
  /\ UNCHANGED <<adapter, opening, orders, cache, req, answer, read, total, missed>>

\* Two's complement in Width bits.
Wrap(n) == ((n + 2^(Width - 1)) % 2^Width) - 2^(Width - 1)

\* Fault: the new stock is cached before the transaction commits.
CacheEarly(r) == cache' = [cache EXCEPT ![req[r].id] = NewEntry([stock |-> pending[r]])]

\* Nothing inside the transaction uses the cache.
CacheUntouched(r) == UNCHANGED cache

\* product.Price * quantity in an int64, and the INSERT with
\* CHECK (total_cents >= 0).
InsertOrder(r) ==
  /\ pc[r] = "insertOrder"
  /\ LET cents == Wrap(read[r].price * req[r].quantity) IN
       /\ cents >= 0
       /\ total' = [total EXCEPT ![r] = cents]
  /\ CacheUntouched(r)
  /\ Goto(r, "commit")
  /\ UNCHANGED <<adapter, table, lock, req, answer, read, pending, missed>>

\* COMMIT takes effect on the server.
Durable(r) ==
  /\ products' = [products EXCEPT ![req[r].id].stock = pending[r]]
  /\ orders' = [orders EXCEPT ![r] = total[r]]
  /\ pending' = [pending EXCEPT ![r] = None]
  /\ total' = [total EXCEPT ![r] = None]
  /\ ReleaseLocks(r)
  /\ UNCHANGED <<adapter, opening, cache, req, read>>

Commits(r) ==
  /\ pc[r] = "commit"
  /\ Durable(r)
  /\ Goto(r, "cacheDelete")
  /\ UNCHANGED <<answer, missed>>

\* Fault: an error of the commit is not passed on.
CommitErrIgnored(r) ==
  /\ pc[r] = "commit"
  /\ TxFails(r, "lost") \/ (ReleaseLocks(r) /\ Goto(r, "cacheDelete")
        /\ UNCHANGED <<adapter, table, cache, req, answer, local, missed>>)

\* Commit returns an error: the transaction is rolled back, or it is durable
\* and only the answer was lost.  The cache is left alone in both cases.
CommitFails(r) ==
  /\ pc[r] = "commit"
  /\ \/ TxFails(r, "failed to commit transaction")
     \/ /\ Durable(r)
        /\ missed' = missed \cup {req[r].id}
        /\ Answers(r, Status("failed to commit transaction"))

\* After the commit the product's cached copy is dropped; a failure is logged.
Invalidate(r) ==
  /\ pc[r] = "cacheDelete"
  /\ \/ cache' = Dropped(req[r].id) /\ UNCHANGED missed
     \/ CacheMayFail /\ missed' = missed \cup {req[r].id} /\ UNCHANGED cache
  /\ Answers(r, 201)
  /\ UNCHANGED <<adapter, table, lock, req, local>>

-----------------------------------------------------------------------------
Step(r) ==
  \/ InsertProduct(r) \/ SelectOrder(r)
  \/ CacheGet(r) \/ SelectProduct(r) \/ CacheSet(r)
  \/ StatementFails(r) \/ GetForUpdate(r) \/ CheckStock(r)
  \/ DecrementStock(r) \/ InsertOrder(r)
  \/ Commits(r) \/ CommitFails(r) \/ Invalidate(r)

Next ==
  \/ \E r \in Requests : Receive(r) \/ Step(r) \/ GetForUpdateFails(r)
  \/ \E i \in ProductIds : Expire(i)

Spec == Init /\ [][Next]_vars

\* A request that is being served goes on, and Redis keeps its time to live.
\* That a wait for a row is cut short is not counted on.
FairSpec ==
  /\ Spec
  /\ \A r \in Requests : WF_vars(Step(r))
  /\ \A i \in ProductIds : WF_vars(Expire(i))

-----------------------------------------------------------------------------
Placed(i) == {r \in Requests : orders[r] # None /\ req[r].id = i}

\* What the orders in S took from the stock.
Taken(S) == SumFunctionOnSet([r \in S |-> req[r].quantity], S)

\* "they commit or roll back as a unit" (examples/orders/README.md:30-31):
\* what is missing from a product's stock is what its orders took.
StockAccounted ==
  \A i \in ProductIds : products[i] # None =>
     products[i].stock + Taken(Placed(i)) = opening[i]

\* GetForUpdate (order.go:43-45) holds the row until the end, so the stock
\* that was checked is still there when it is taken: two orders never race to
\* the CHECK of the table, which would turn a 409 into a 500.
StillInStock ==
  \A r \in Requests : pc[r] = "decrement" => products[req[r].id].stock >= req[r].quantity

\* 201 exactly for orders that are stored (service.go:85-88: insufficient stock
\* "rolls the whole transaction back - nothing is written"); only a 500 may
\* leave open which.  The total is price times quantity unless that overflows.
AnswerMatchesOutcome ==
  \A r \in Requests : pc[r] = "done" =>
     /\ answer[r] = 201 /\ req[r].op = "createOrder" => orders[r] # None
     /\ orders[r] # None => answer[r] \in {201, 500}
     /\ orders[r] # None =>
          LET due == products[req[r].id].price * req[r].quantity
          IN  orders[r] = due \/ due >= 2^(Width - 1)

\* The orders table as a customer sees it.
Bought ==
  [r \in Requests |-> IF orders[r] = None THEN None
                     ELSE [id |-> req[r].id, quantity |-> req[r].quantity]]

Abstract == INSTANCE Shop WITH
  Ids <- ProductIds, Rows <- Product, Customers <- Requests,
  Amounts <- {n \in Quantities : n > 0}, shelf <- products, bought <- Bought

\* The statements of CreateOrder are one step to everyone else
\* (service.go:93-113): the tables move as those of Shop do.
ImplementsShop == Abstract!Spec

\* "a rolled-back transaction never touches the cache" (service.go:120): a
\* cached stock lacks nothing but what stored orders took, so it is never
\* below the table's, as that of an order which is not committed would be.
NeverDirty ==
  \A i \in ProductIds : Cached(i) =>
     \E S \in SUBSET Placed(i) : cache[i].stock = products[i].stock + Taken(S)

Stale(i) == Cached(i) /\ cache[i].stock # products[i].stock

\* productCacheTTL "bounds staleness" (service.go:13-15): with Redis, a cached
\* copy that differs from the table goes away.
StaleEnds == \A i \in ProductIds : adapter = "redis" /\ Stale(i) ~> ~Stale(i)

\* Every request is answered, without a timeout to end its wait for a row
\* (service.go:93-117): no path of CreateOrder leaves a row locked.
Answered == \A r \in Requests : pc[r] # "idle" ~> pc[r] = "done"

\* "the TTL only bounds staleness if an invalidation is ever missed"
\* (service.go:13-15): a copy is stale only while an order has yet to
\* invalidate it, or after an invalidation was missed.
StaleOnlyIfMissed ==
  \A i \in ProductIds : Stale(i) =>
     i \in missed \/ \E r \in Requests : pc[r] = "cacheDelete" /\ req[r].id = i
=============================================================================
