\* Two commands, the first a heartbeat that is in flight during a handover.
SPECIFICATION Spec
CONSTANTS
  MaxId = 2
  MaxCleanups = 1
  HeartBeats = {1}
  Unserialisable = {}
PROPERTIES
  HeartBeatsComeThrough
CHECK_DEADLOCK FALSE
