CONSTANTS
  a = a
  s = s
  c = c
  N = 1
  Requests <- OneRequest
  Settlements <- OneSettlement
  Crons <- OneCron
  Calls <- AllCalls
  Prices <- TwoPrices
  Quantities <- OnlyOne
  StartingBalance = 2
  MaxInFlight = 2
  MaxStarts = 3
  MaxPortfolios = 2
  MaxPositions = 1
  MaxTrades = 1
  MaxFailures = 1
SPECIFICATION FairSpec
CHECK_DEADLOCK FALSE
INVARIANTS
  ResultsAreFinal
  EntrantsTradeTheirEntry
PROPERTIES
  EndedIsCompleted
