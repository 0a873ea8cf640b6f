SPECIFICATION Spec
CONSTANTS
  Block <- MCBlock
  Genesis = 1
  Prev <- MCPrev
  BlockNum <- MCBlockNum
  DposLib <- MCDposLib
  Rate = {1, 2}
  DefaultRate = 1
  ActiveRate <- RateOnOneBranch
  Reproducible <- ValidOnOneBranch
  Produced = {}
  Modes = {"speculative"}
  MaxAppendFailures = 0
  MayRestart = FALSE
  MayReplay = FALSE
  MayCrash = FALSE
PROPERTY ReapplySucceeds
