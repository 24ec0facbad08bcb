-------------------------------- MODULE Shop --------------------------------
(***************************************************************************)
(* What the orders service promises about its tables, seen from outside:   *)
(* an order takes what it asks for from the stock of its product in one    *)
(* step, and only if that much is there.  Nothing else moves the stock     *)
(* (examples/orders/README.md, "they commit or roll back as a unit").      *)
(***************************************************************************)
EXTENDS Integers

CONSTANTS Ids,        \* of products
          Rows,       \* what a product may be offered as
          Customers,  \* each places one order at most
          Amounts,    \* what a customer may ask for
          None

VARIABLES shelf,      \* the product of each id, if there is one
          bought      \* what each customer has bought

Init ==
  /\ shelf \in [Ids -> Rows \cup {None}]
  /\ bought = [c \in Customers |-> None]

Offer(i) ==
  /\ shelf[i] = None
  /\ \E p \in Rows : shelf' = [shelf EXCEPT ![i] = p]
  /\ UNCHANGED bought

Buy(c, i, n) ==
  /\ bought[c] = None
  /\ shelf[i] # None /\ shelf[i].stock >= n
  /\ shelf' = [shelf EXCEPT ![i].stock = @ - n]
  /\ bought' = [bought EXCEPT ![c] = [id |-> i, quantity |-> n]]

Next ==
  \/ \E i \in Ids : Offer(i)
  \/ \E c \in Customers, i \in Ids, n \in Amounts : Buy(c, i, n)

Spec == Init /\ [][Next]_<<shelf, bought>>
=============================================================================
