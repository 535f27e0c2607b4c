\* Four commands: one in flight, one that times out, one aged, one fresh.
SPECIFICATION FairSpec
CONSTANTS
  MaxId = 4
  MaxCleanups = 1
  HeartBeats = {2}
  Unserialisable = {}
PROPERTIES
  CleanupPreventsDeadlock
CHECK_DEADLOCK FALSE
