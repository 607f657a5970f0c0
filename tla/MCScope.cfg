SPECIFICATION FairSpec
CONSTANTS
  NoDevice = NoDevice
  Devices = {1, 2, 3}
  Controllers = {"c1", "c2"}
  Inventories <- MCInventories
  Requests <- MCRequests
INVARIANTS
  SelectionIsLeast
  NothingVanishes
  CoverageIsReal
  CaptureIsExact
  StartedIsSound
PROPERTY
  ResolveEnds
CHECK_DEADLOCK FALSE
