SPECIFICATION Spec
CONSTANTS
  Procs = {1, 2}
  MaxStarts = 2
  Keys = {1, 2}
  MaxFaults = 1
CHECK_DEADLOCK FALSE
INVARIANTS
  DesktopInv
  HiddenNeedsCause
