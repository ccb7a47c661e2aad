SPECIFICATION Spec
CONSTANTS
  Theirs = {1, 2}
  MaxCalls = 3
  MaxOpenings = 2
  MaxMounts = 2
  MaxFaults = 1
CHECK_DEADLOCK FALSE
INVARIANTS
  PairingInv
  ConfirmedBeforeConnected
