SPECIFICATION Spec
CONSTANTS
  Devices <- OneDevice
  HostChecks <- TwoHostChecks
  BmcChecks <- OneBmcCheck
  Platforms = {"iosxe", "panos", "vmware", "proxmox"}
  MaxMishaps = 2
INVARIANTS
  OutcomeExact
  SnapshotComplete
  NothingLeftOpen
  CheckLimitKeepsEvidence
CHECK_DEADLOCK FALSE
