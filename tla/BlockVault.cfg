SPECIFICATION Spec
CONSTANTS
  n1 = n1
  n2 = n2
  Node = {n1, n2}
  OwnSlots = {2, 3}
  MaxSlot = 4
  MaxBlocks = 4
  MaxFaults = 1
  Libs = {0, 2}
  MaxSnapshots = 1
SYMMETRY NodeSymmetry
INVARIANT ProductionOrdered
INVARIANT ExtendsFinal
CHECK_DEADLOCK FALSE
