SPECIFICATION FairSpec
CONSTANTS
  s1 = s1
  s2 = s2
  p1 = p1
  p2 = p2
  p3 = p3
  short = short
  long = long
  Scopes <- MCScopes
  Ids <- MCIds
  Texts <- MCTexts
  Length <- MCLength
  MaxScopes = 2
  MaxPromptsPerScope = 2
  MaxStoredText = 4
  MaxCalls = 3
INVARIANTS
  TypeOK
  AcceptedIsDurable
  WithdrawnStaysOut
  EachIdOnce
  FileReloads
PROPERTIES
  AtomicQueue
  ChainDrains
