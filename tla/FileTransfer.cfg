SPECIFICATION Spec
CONSTANTS
  Inviter = "ann"
  Invitee = "bob"
  MaxFiles = 2
  MaxRequests = 1
  MaxFaults = 1
  Fault = {"crash", "send", "late", "db", "unsaved"}
CHECK_DEADLOCK FALSE
INVARIANTS
  FilesInv
PROPERTIES
  AnnouncedIsShown
