SPECIFICATION FdbSpec
CONSTANTS
  Block <- MCBlock
  Genesis = 1
  Prev <- MCPrev
  BlockNum <- MCBlockNum
  DposLib <- MCDposLib
INVARIANT Linked
INVARIANT HeadIsBestValidated
INVARIANT PendingHeadIsBest
INVARIANT ReopenSucceeds
PROPERTY HeadNeverWorsens
