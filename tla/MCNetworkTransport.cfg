SPECIFICATION Spec
CONSTANTS
  Sent <- Anything
  Conns = {c1, c2, c3}
  MaxConnections = 2
  PendingLimit = 2
  ReadSize = 2
SYMMETRY Symmetric
INVARIANTS ConnectionsExact InputInOrder OneResponseEach NoIdleAfterShutdown
PROPERTIES ClosingIsFinal
