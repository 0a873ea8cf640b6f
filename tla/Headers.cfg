SPECIFICATION Spec
CONSTANTS
  dcd = dcd
  bpa = bpa
  bpb = bpb
  bpc = bpc
  Producer <- MCProducer
  SystemAccount = dcd
  Offline = {}
  Schedules <- Growing
  DisallowEmpty = TRUE
  RateValues = {2}
  ProducerRepetitions = 1
  UInt32 = 65536
  MaxTracked = 4
  SlotCycle = 4
  MaxSkip = 2
  MaxConfirmed = 3
  HonestConfirms = FALSE
  MaxBlockNum = 9
INVARIANT TypeOK
INVARIANT LibBehindProposed
INVARIANT LibIsSupported
INVARIANT ConfirmWindow
INVARIANT PromotionNeverThrows
INVARIANT PendingScheduleIsPromoted
INVARIANT PendingRateIsPromoted
PROPERTY LibNeverDecreases
PROPERTY NoDoubleConfirm
\* The branch ends at MaxBlockNum.
CHECK_DEADLOCK FALSE
