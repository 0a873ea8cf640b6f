SPECIFICATION FairSpec
CONSTANTS
  Block <- MCBlock
  Genesis = 1
  Prev <- MCPrev
  BlockNum <- MCBlockNum
  DposLib <- MCDposLib
  Rate = {1, 2}
  DefaultRate = 1
  ActiveRate <- RateAcrossForks
  Reproducible <- SomeInvalid
  Produced = {}
  Modes = {"speculative"}
  MaxAppendFailures = 1
  MayRestart = FALSE
  MayReplay = FALSE
  MayCrash = FALSE
INVARIANT TypeOK
INVARIANT StateMatchesHead
INVARIANT OnBestBranch
PROPERTY OnlyInvalidDropped
PROPERTY ReapplySucceeds
PROPERTY CatchesUp
