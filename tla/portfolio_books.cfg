CONSTANTS
  a = a
  b = b
  s = s
  m = m
  Requests <- OneRequest
  Settlements <- OneSettlement
  Resets <- OneReset
  Calls <- ImmediateAndClose
  Prices <- TwoPrices
  Quantities <- OnlyOne
  QueueQuantities <- OnlyTwo
  Target = 2
  MaxInFlight = 2
  MaxStarts = 4
  MaxPositions = 2
  MaxTrades = 1
  MaxDays = 2
  MaxFailures = 1
SPECIFICATION Spec
CHECK_DEADLOCK FALSE
INVARIANTS
  TypeOK
  BooksBalance
PROPERTIES
  TradesFillExactly
