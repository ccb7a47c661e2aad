\* Two updates (one of them in a cleartext blob, or none), four page loads, two failures.
CONSTANTS
    Update = {u1, u2}
    Legacy = {u1}
    None = None
    Clear = Clear
    MaxKeys = 6
    MaxWrites = 3
    MaxLoads = 4
    MaxFaults = 2
SPECIFICATION FairSpec
CHECK_DEADLOCK FALSE
INVARIANTS
  BlobOpens
  StoredStaysStored
  SettledIsSaved
PROPERTIES
  PageGetsReady
