SPECIFICATION Spec
CONSTANTS
  Peers = {p1, p2}
  MaxDevices = 2
  MaxDisposals = 2
  Ports = {lower, upper}
  Sockets = {x1}
  MaxInits = 2
INVARIANTS
  RegistryConsistent
  ListeningConsistent
  DisposeReleases
PROPERTIES
  DisposeEnds
CHECK_DEADLOCK FALSE
