SPECIFICATION Spec
CONSTANTS
  Members <- ThreeMembers
  Fields <- TwoFields
  Walks <- FourWalks
  MaxFaults = 4
INVARIANTS
  NeverDryAmongMembers
  RecordedIsRead
  RecordIsItsOwn
  FootprintIsBounded
CHECK_DEADLOCK FALSE
