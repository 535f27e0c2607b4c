\* One command, sent up to four times.
SPECIFICATION FairSpec
CONSTANTS
  NoCommand = NoCommand
  Primary = primary
  Secondary = secondary
  HeartBeats = {}
  Unserialisable = {}
  Command = {a}
  OffspecFailover = TRUE
  MaxId = 4
PROPERTIES
  EveryCommandEnds
\* The behaviour ends when the ids are used up.
CHECK_DEADLOCK FALSE
