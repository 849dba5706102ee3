SPECIFICATION Spec
CONSTANTS
  Kinds <- AllKinds
  Pipelines = {pipeline}
  Settlements = {eod, admin}
  Ticks = {tick}
  Resets = {monthly}
  Strengths = {"weak", "strong"}
  Verdicts <- Said
  Percent <- Sizes
  TradePercent = 30
  InitialBalance = 10
  Prices = {2, 3}
  PaperDays = 1
  MaxDays = 1
  MaxEvents = 3
  MaxInFlight = 2
  MaxSignals = 1
  MaxPositions = 2
INVARIANTS
  TypeOK
  BooksBalance
  OnePositionPerSignal
  
  SessionEndsFlat
  StatusIsOfTheLastClose
SYMMETRY Interchangeable
CHECK_DEADLOCK FALSE
