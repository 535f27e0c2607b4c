\* All requests, of a device that may miss one callback; three transfers of
\* three objects.
SPECIFICATION DeviceSpec
CONSTANTS
  Requests <- AllRequests
  Lists <- SomeLists
  Rewritten <- Numbers
  Bare <- BareStories
  Supported = {0, 1, 2, 3, 4}
  Transfers = {r1, r2, r3}
  MaxObjects = 3
INVARIANTS
  ResolvedMeansDone
  RejectedMeansNotAccepted
  EveryObjectIsSent
PROPERTIES
  ValidMeansSupported
  EverythingEnds
\* Transfers that came to their end leave nothing to do.
CHECK_DEADLOCK FALSE
