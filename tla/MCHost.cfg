SPECIFICATION HostSpec
CONSTANTS
  None = None
  Jobs <- MCJobs
  MaxCrashes = 1
  MaxFaults = 2
  MaxEdits = 2
  s1 = s1
  s2 = s2
  e1 = e1
  o1 = o1
  Sources <- MCSources
  Order <- MCOrder
  Touchable <- MCTouchable
  MaxRequests = 2
  Edits <- MCEdits
  Original = o1
  MaxMishaps = 2
  Absent = Absent
INVARIANTS
  HostTypeOK
  EvidenceKept
  FailureIsClean
  FavoriteIsLive
  SavedSettingsKept
  BaselineIsProved
  UnprovedIsReported
PROPERTIES
  NothingLost
  EveryRequestEnds
CHECK_DEADLOCK FALSE
