SPECIFICATION Spec
CONSTANTS
  None = None
  Up = Up
  Down = Down
  Words = {Up, Down}
  Names = {"d1", "d2"}
  Precision = 1000
  Misrounded <- MCMisrounded
  Given <- Calls
INVARIANTS
  NewestWins
  RefusalIsDeserved
  NoSilentDrop
  VerdictIsSound
  HunksAddUp
CHECK_DEADLOCK FALSE
