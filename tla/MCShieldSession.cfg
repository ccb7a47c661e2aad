\* Three concurrent calls, a reload, a commit that fails, stored sessions that may fail to load.
CONSTANTS
    c1 = c1
    c2 = c2
    c3 = c3
    Call <- ThreeCalls
    None = None
    MaxReloads = 1
    MaxLost = 1
    RestoreFaults = TRUE
SPECIFICATION FairSpec
CHECK_DEADLOCK FALSE
INVARIANTS
  ReuseNeedsFork
  StoredCounterCoversReleased
  HolesNeedACasualty
PROPERTIES
  EveryCallSettles
