SPECIFICATION FairSpec
CONSTANTS
  a = a
  b = b
  c = c
  dev = dev
  solo = solo
  NoFile = NoFile
  Files = {a, b, c}
  Groups = {dev, solo}
  GroupOf <- MCGroupOf
  Weight <- MCWeight
  Caps = {1, 4, 5, 6, 20}
  ManifestSize <- MCManifestSize
  ManifestBound <- MCManifestBound
  MaxSignals = 2
INVARIANTS
  PlanFits
  SignalLosesNothing
PROPERTIES
  RunEnds
  PlanStable
  DeliversAsPromised
CHECK_DEADLOCK FALSE
