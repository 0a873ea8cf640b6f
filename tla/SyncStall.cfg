SPECIFICATION Spec
CONSTANTS
  NumConn = 2
  Inbound = {}
  Span = 1
  LibLag = 1
  StartHead = 1
  Starts <- Lagging
  MaxNum = 4
  MaxRejected = 1
  MaxFaults = 0
INVARIANT QuietIsCaughtUp
\* The node is at rest once it has caught up.
CHECK_DEADLOCK FALSE
