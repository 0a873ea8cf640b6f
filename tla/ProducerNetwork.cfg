SPECIFICATION Spec
CONSTANTS
  dcd = dcd
  bpa = bpa
  bpb = bpb
  bpc = bpc
  bpd = bpd
  Schedule <- FourProducers
  SystemAccount = dcd
  CalmSlots <- TwoRounds
  MaxSlot = 16
  Outcomes <- AfterThem
  MaxRestarted = 1
  ProducerRepetitions = 1
  UInt32 = 65536
  MaxTracked = 16
INVARIANT FinalByNumber
INVARIANT ConfirmsDisjoint
\* A behaviour ends at MaxSlot.
CHECK_DEADLOCK FALSE
