SPECIFICATION SchedulesSpec
CONSTANTS
  a1 = a1
  a2 = a2
  p1 = p1
  p2 = p2
  o1 = o1
  o2 = o2
  None = None
  Agents <- MCAgents
  First = a1
  Prompts <- MCPrompts
  Resets <- Nobody
  Tracked <- Nobody
  Observers <- OneObserver
  MaxPromptsPerScope = 1
  Scenarios <- IdleRestarts
  MaxCrashes = 0
  MaxFailures = 1
  b1 = b1
  b2 = b2
  i1 = i1
  h1 = h1
  w1 = w1
  w2 = w2
  MaxClicks = 3
  Browsers <- MCBrowsers
  RequestIds <- MCRequestIds
  PromptButtons <- MCPrompts
  ShellButtons <- MCShellButtons
  NoClick = NoClick
  MaxLeases = 3
  MaxTasks = 2
  Sizes <- MCSizes
  OriginalSize = 2
  MaxMinute = 3
  CronInstants <- MCCronInstants
  MaxScheduleEdits = 2
  MaxRunsNow = 0
  MaxReboots = 0
  MaxLostRecords = 0
  MaxUndone = 0
  NoRun = NoRun
  Nil = Nil
  Owners <- MCBrowsers
  Branches <- MCBranches
  MaxTours = 2
  MaxReviews = 2
  Courses <- MCCourses
INVARIANTS
  OneManagedRun
CHECK_DEADLOCK FALSE
