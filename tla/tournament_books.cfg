CONSTANTS
  a = a
  s = s
  c = c
  N = 2
  Requests <- OneRequest
  Settlements <- OneSettlement
  Crons <- OneCron
  Calls <- AllCalls
  Prices <- TwoPrices
  Quantities <- OnlyOne
  StartingBalance = 2
  MaxInFlight = 2
  MaxStarts = 4
  MaxPortfolios = 2
  MaxPositions = 1
  MaxTrades = 2
  MaxFailures = 0
SPECIFICATION Spec
CHECK_DEADLOCK FALSE
INVARIANTS
  TypeOK
  BooksBalance
  
  ResultsAreFinal
  TradesFillExactly
  ChannelHasEntrants
