SPECIFICATION Spec
CONSTANTS
  Pages = {1, 2}
  MaxCalls = 3
  MaxMishaps = 1
CHECK_DEADLOCK FALSE
INVARIANTS
  KeysInv
  LockedOutNeedsCause
