SPECIFICATION Spec
CONSTANTS
  Block <- MCBlock
  Genesis = 1
  Prev <- MCPrev
  BlockNum <- MCBlockNum
  DposLib <- MCDposLib
  Rate = {1, 2}
  DefaultRate = 1
  ActiveRate <- OneRate
  Reproducible <- OneRateInvalid
  Produced = {4, 6, 8}
  Modes = {"speculative", "irreversible"}
  MaxAppendFailures = 1
  MayRestart = TRUE
  MayReplay = FALSE
  MayCrash = TRUE
INVARIANT ReversibleIsBranch
INVARIANT IrreversibleStays
INVARIANT AdvanceRootContract
INVARIANT SwitchInSync
PROPERTY ChainSpec
\* A failed start and a crash are final.
CHECK_DEADLOCK FALSE
