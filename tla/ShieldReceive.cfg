\* Five messages in any order, one reload, one failed transaction.
CONSTANTS
    N = 5
    None = None
    MaxReloads = 1
    MaxFaults = 1
SPECIFICATION FairSpec
CHECK_DEADLOCK FALSE
INVARIANTS
  ReceiveInv
  BufferLossNeedsOverlap
PROPERTIES
  EveryCallSettles
