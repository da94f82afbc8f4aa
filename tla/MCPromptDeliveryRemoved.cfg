SPECIFICATION Spec
CONSTANTS
  a1 = a1
  a2 = a2
  p1 = p1
  p2 = p2
  o1 = o1
  o2 = o2
  None = None
  Agents <- OneAgent
  First = a1
  Prompts <- MCPrompts
  Resets <- OneReset
  Tracked <- Everyone
  Observers <- OneObserver
  MaxPromptsPerScope = 2
  Scenarios <- Removals
  MaxCrashes = 0
  MaxFailures = 1
PROPERTIES
  RemovedIsNeverTaken
