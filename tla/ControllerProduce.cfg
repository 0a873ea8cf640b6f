SPECIFICATION Spec
CONSTANTS
  Block <- MCBlock
  Genesis = 1
  Prev <- MCPrev
  BlockNum <- MCBlockNum
  DposLib <- MCDposLib
  Rate = {1, 2}
  DefaultRate = 1
  ActiveRate <- OneRate
  Reproducible <- OneRateValid
  Produced = {4, 6, 8}
  Modes = {"speculative", "irreversible"}
  MaxAppendFailures = 0
  MayRestart = TRUE
  MayReplay = TRUE
  MayCrash = TRUE
INVARIANT StateMatchesHead
INVARIANT IrreversibleHeadIsLogged
INVARIANT StartupSucceeds
PROPERTY RestartResumes
