SPECIFICATION FairSpec
CONSTANTS
  NumConn = 2
  Inbound = {}
  Span = 1
  LibLag = 1
  StartHead = 1
  Starts <- Usual
  MaxNum = 4
  MaxRejected = 1
  MaxFaults = 1
INVARIANT NothingSkipped
PROPERTY CatchesUp
\* The node is at rest once it has caught up.
CHECK_DEADLOCK FALSE
