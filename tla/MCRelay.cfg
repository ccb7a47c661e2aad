SPECIFICATION FairSpec
CONSTANTS
    None = None
    inviter = inviter
    invitee = invitee
    A = A
    B = B
    Client = {inviter, invitee}
    Queue = {B}
    Message = {1, 2}
    Creator <- MCCreator
    Recipient <- MCRecipient
    Sender <- MCSender
    Target <- MCTarget
    MaxSockets = 3
    MaxTries = 2
    MaxCalls = 3
    MaxFaults = 1
    Fault = {"cut", "shutdown", "restart"}
CHECK_DEADLOCK FALSE
INVARIANTS
  RelayInv
  LostOnlyWithItsSocket
PROPERTIES
  KeepsPromise
  Served
