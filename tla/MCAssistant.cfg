SPECIFICATION Spec
CONSTANTS
  Owner = "owner"
  Client = "client"
  Contact = "contact"
  Claims <- MCClaims
  MaxUpdates = 3
  MaxAtOnce = 2
  MaxFaults = 1
CHECK_DEADLOCK FALSE
INVARIANTS
  AssistantInv
  AnsweredOnce
  RejectedIsUnsent
PROPERTIES
  WorkEnds
