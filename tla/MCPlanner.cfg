CONSTANTS
  Inputs <- MCInputs
  MaxLoad = 10
  BufferSize = 750
SPECIFICATION Spec
INVARIANTS TypeOK MovesWhatWasDecided ResultIsOfTheOutcome NewInstanceSafe ScaleInConserves BestIsCheapest
CHECK_DEADLOCK FALSE
