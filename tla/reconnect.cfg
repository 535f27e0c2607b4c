\* A timer is late by up to half of the delay.
SPECIFICATION TimerSpec
CONSTANTS
  Delay = 4
  Late = 2
  Options <- Settings
INVARIANTS
  RetriesInTime
  DisposedStaysDown
PROPERTIES
  SilentServerIsGivenUp
  EventuallyConnected
