SPECIFICATION Spec
CONSTANTS
  Runs = {nightly, manual}
  Horizons <- Days
  MaxTime = 12
  PublishTimes = {0, 5}
  MaxPredictions = 2
  Confidences = {TRUE}
  MaxRuns = 1
  MaxFailures = 1
  MaxPublished = 2
INVARIANTS
  TypeOK
  EvaluationsCountOnce
  
  EvaluationsAttributed
SYMMETRY Interchangeable
CHECK_DEADLOCK FALSE
