SPECIFICATION Spec
CONSTANTS
  Outputs <- MCOutputs
  Window = 1
INVARIANT
  OnlyCompleteIsAccepted
CHECK_DEADLOCK FALSE
