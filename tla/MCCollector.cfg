SPECIFICATION Spec
CONSTANTS
  SweepAbortAfter = 2
  MaxSurprises = 2
INVARIANTS
  AbsenceIsAnswered
  GapsAreTold
  LimitEnds
  NamedIsServed
CHECK_DEADLOCK FALSE
