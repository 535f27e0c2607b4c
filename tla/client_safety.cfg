\* Three commands, the second one a heartbeat; one cleanup timer at a time.
SPECIFICATION FairSpec
CONSTANTS
  MaxId = 3
  MaxCleanups = 1
  HeartBeats = {2}
  Unserialisable = {}
INVARIANTS
  InductiveInv
  AtMostOnce
  FirstInFirstOut
PROPERTIES
  RepliesSettleTheirCommand
  DisposedIsSilent
  ImplementsLifecycle
  EveryCommandSettles
\* A client whose commands have all been used up, or that threw, stops.
CHECK_DEADLOCK FALSE
