SPECIFICATION FairSpec
CONSTANTS
    None = None
    inviter = inviter
    invitee = invitee
    m1 = m1
    m2 = m2
    Message = {m1, m2}
    Author <- WhoComposes
    File = {m2}
    GroupKey = {m1}
    MaxFaults = 1
    Fault = {"offline", "late", "cipher", "lost", "unsaved", "ack", "reload"}
CHECK_DEADLOCK FALSE
INVARIANTS
  MessagingInv
  StuckNeedsCause
PROPERTIES
  TicksTellTheTruth
  SentIsShownOrStuck
  AuthorIsTold
