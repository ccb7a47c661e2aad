SPECIFICATION Spec
CONSTANTS
  s1 = s1
  s2 = s2
  Servers <- MCServers
  Mine = {1}
  Theirs = {2}
  MaxSockets = 4
  MaxFaults = 1
  Fault = {"cut", "close", "dial", "throw", "refuse", "late"}
CHECK_DEADLOCK FALSE
INVARIANTS
  SmpInv
  ConnectedAgainNeedsASurvivor
PROPERTIES
  PushesAreHeard
  Recovers
