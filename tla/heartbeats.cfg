\* One client on the lower port and one on the upper; sound and throwing
\* listeners.
SPECIFICATION FairSpec
CONSTANTS
  Clients = {lower, upper}
  MaxLate = 2
INVARIANTS
  RoundsDoNotOverlap
PROPERTIES
  NoRoundAfterDispose
  ChangesAreAnnounced
  HeartbeatsGoOn
