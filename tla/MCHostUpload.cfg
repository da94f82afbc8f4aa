SPECIFICATION FilesSpec
CONSTANTS
  None = None
  Jobs <- Uploads
  MaxCrashes = 0
  MaxFaults = 1
  MaxEdits = 0
  s1 = s1
  s2 = s2
  e1 = e1
  o1 = o1
  Sources <- MCSources
  Order <- MCOrder
  Touchable <- MCTouchable
  MaxRequests = 2
  Edits <- MCEdits
  Original = o1
  MaxMishaps = 2
  Absent = Absent
INVARIANTS
  PublicationIsOnRecord
CHECK_DEADLOCK FALSE
