SPECIFICATION FairSpec
CONSTANTS
  Outputs <- MCOutputs
  Window = 1
INVARIANTS
  AcceptedIsComplete
  NothingStaysOpen
PROPERTIES
  ReadEnds
  WorkerReleased
CHECK_DEADLOCK FALSE
