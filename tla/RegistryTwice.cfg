SPECIFICATION Spec
CONSTANTS
  a = a
  b = b
  p1 = p1
  p2 = p2
  remote = remote
  name = name
  None = None
  Nowhere = Nowhere
  NoRemote = NoRemote
  Checkouts <- TwoClones
  Paths <- TwoPaths
  RemoteOf <- OneRemote
  NameOf <- OneName
  Requests <- SomeRequests
  Junk <- SomeJunk
  MaxRequest = 2
  MaxRequests = 0
  MaxMoves = 2
  MaxCommands = 3
  MaxTime = 1
CHECK_DEADLOCK FALSE
INVARIANT NoPathTwice
