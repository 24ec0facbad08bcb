\* Two requests, one product.
CONSTANTS
  r1 = r1
  r2 = r2
  r3 = r3
  None = None
  Requests <- TwoRequests
  MaxProducts = 1
  Prices <- SomePrices
  Stocks <- SomeStocks
  Quantities <- SomeQuantities
  Width = 4
SPECIFICATION Spec
INVARIANT StaleOnlyIfMissed
CHECK_DEADLOCK FALSE
