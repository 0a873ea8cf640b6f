SPECIFICATION Spec
CONSTANTS
  dcd = dcd
  bpa = bpa
  bpb = bpb
  bpc = bpc
  bpd = bpd
  Schedule <- FourProducers
  SystemAccount = dcd
  CalmSlots <- Isolation
  MaxSlot = 33
  Outcomes <- LongBreak
  MaxRestarted = 0
  ProducerRepetitions = 1
  UInt32 = 65536
  MaxTracked = 16
INVARIANT IrreversibleAgree
\* A behaviour ends at MaxSlot.
CHECK_DEADLOCK FALSE
