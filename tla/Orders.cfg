\* Three requests on one product row, present or not at the start.
CONSTANTS
  r1 = r1
  r2 = r2
  r3 = r3
  None = None
  Requests <- ThreeRequests
  MaxProducts = 1
  Prices <- SomePrices
  Stocks <- SomeStocks
  Quantities <- SomeQuantities
  Width = 4
SPECIFICATION FairSpec
INVARIANTS StockAccounted StillInStock AnswerMatchesOutcome NeverDirty
PROPERTIES ImplementsShop StaleEnds Answered
CHECK_DEADLOCK FALSE
