\* Two commands with five ids: both may fail at once, and be sent again; the
\* device switches back to a primary that is announced again.
SPECIFICATION Spec
CONSTANTS
  NoCommand = NoCommand
  Primary = primary
  Secondary = secondary
  HeartBeats = {}
  Unserialisable = {}
  Command = {a, b}
  OffspecFailover = TRUE
  MaxId = 5
SYMMETRY Interchangeable
INVARIANTS
  ClientsConsistent
  OneCopyOfAMessage
  SettledPromisesAreAwaited
PROPERTIES
  ImplementsPromise
\* The behaviour ends when the ids are used up.
CHECK_DEADLOCK FALSE
