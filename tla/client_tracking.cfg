\* Four commands, enough for a cleanup to leave a fresh one behind; the last
\* one cannot be serialised.
SPECIFICATION Spec
CONSTANTS
  MaxId = 4
  MaxCleanups = 1
  HeartBeats = {2}
  Unserialisable = {4}
INVARIANTS
  NeverThrowsUnlessUnserialisable
  InFlightCanTimeOut
PROPERTIES
  OnlyCleanupLosesTrack
\* A client whose commands have all been used up, or that threw, stops.
CHECK_DEADLOCK FALSE
