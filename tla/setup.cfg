SPECIFICATION SetupSpec
CONSTANTS
  Profiles = {0, 1, 2, 3, 5}
  MAX = 8
  Window = 6
INVARIANTS
  DependenciesHold
  CopyIsAccepted
  IdsAreUnique
CHECK_DEADLOCK FALSE
