SPECIFICATION Spec
CONSTANTS
  ann = ann
  bob = bob
  cas = cas
  Creator = ann
  Others <- MCOthers
  Invitations <- MCInvitations
  KeepKeys = 1
  MaxSteps = 3
  MaxTasks = 2
CHECK_DEADLOCK FALSE
INVARIANTS
  GroupInv
  RemovedLacksCurrentKey
PROPERTIES
  RotationsAreOrdered
