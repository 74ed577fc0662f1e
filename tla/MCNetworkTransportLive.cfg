SPECIFICATION FairSpec
CONSTANTS
  Sent <- OneAnything
  Conns = {c1, c2}
  MaxConnections = 2
  PendingLimit = 2
  ReadSize = 2
PROPERTIES DueRequestServed ShutdownCompletes
