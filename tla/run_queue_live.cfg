CONSTANTS
  i1 = i1
  i2 = i2
  a = a
  b = b
  r1 = r1
  r2 = r2
  r3 = r3
  NoInst = NoInst
  NoId = NoId
  Instruments <- TwoInstruments
  UserKeys <- OneKey
  RunIds <- TwoRuns
  Callers <- OneCaller
  MaxFaults = 1
  MaxCrashes = 1
  MaxManual = 0
SPECIFICATION FairSpec
CHECK_DEADLOCK FALSE
PROPERTIES
  ExecutedRunEnds
  PredictionsReturn
