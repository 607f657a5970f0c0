SPECIFICATION FairSpec
CONSTANTS
  Devices <- TwoDevices
  HostChecks <- OneHostCheck
  BmcChecks <- OneBmcCheck
  Platforms = {"panos", "vmware"}
  MaxMishaps = 1
INVARIANTS
  NotVisitedIsUntouched
  BatchGoesOn
PROPERTIES
  RunEnds
CHECK_DEADLOCK FALSE
