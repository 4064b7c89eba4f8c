SPECIFICATION AddressingSpec
CONSTANTS
  Space = 8
  None = None
  eth1 = eth1
  v6 = v6
  Interface = eth1
  Foreign = {v6}
  Sizes <- MCSizes
  Reserves <- MCReserves
INVARIANTS SubnetDivided LoopIsFirstFit WrittenOnce DataIsUpsert RestKept
PROPERTY AllocationEnds
CHECK_DEADLOCK FALSE
