SPECIFICATION Spec
CONSTANTS
  MaxDocs = 3
  Names = {"objPath", "objProxyPath", "objMetadataPath"}
  Values = {"empty", "FALSE", "t", "007"}
  Rewritten <- Numbers
  MaxChildren = 3
INVARIANTS
  DeliveredIsSent
  ReceivedIsDelivered
  IdsAreRead
  DialogueReadsAlike
  PathsAreRead
CHECK_DEADLOCK FALSE
