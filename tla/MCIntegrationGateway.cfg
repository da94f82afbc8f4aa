SPECIFICATION Spec
CONSTANTS
  c1 = c1
  c2 = c2
  c3 = c3
  r1 = r1
  r2 = r2
  d1 = d1
  d2 = d2
  s1 = s1
  s2 = s2
  v1 = v1
  None = None
  Calls <- MCCalls
  Requests <- MCRequests
  Digests <- MCDigests
  Sessions <- MCSessions
  Voices <- MCVoices
  MaxStopped = 1
  MaxRecords = 1
  MaxFaults = 1
SYMMETRY Interchangeable
INVARIANTS
  TypeOK
  AtMostOnce
  EffectsAreOnRecord
  SuccessIsTrue
PROPERTIES
  OutcomeIsFinal
  OnlyTheOwnersVoice
