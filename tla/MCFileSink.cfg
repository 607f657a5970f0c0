SPECIFICATION Spec
CONSTANTS
  NoFile = NoFile
  ManifestName = ManifestName
  Files = {a, b, c}
  MaxSignals = 2
INVARIANTS
  MissingIsMissing
  AttachedOnce
PROPERTIES
  DeliversAsPromised
CHECK_DEADLOCK FALSE
