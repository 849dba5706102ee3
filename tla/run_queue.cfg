CONSTANTS
  i1 = i1
  i2 = i2
  a = a
  b = b
  r1 = r1
  r2 = r2
  r3 = r3
  NoInst = NoInst
  NoId = NoId
  Instruments <- OneInstrument
  UserKeys <- OneKey
  RunIds <- ThreeRuns
  Callers <- TwoCallers
  MaxFaults = 0
  MaxCrashes = 1
  MaxManual = 1
SYMMETRY Symmetry
SPECIFICATION Spec
CHECK_DEADLOCK FALSE
INVARIANTS
  TypeOK
  ClaimedOnce
  OnePipelineRunPerWindow
PROPERTIES
  ImplementsRunTable
