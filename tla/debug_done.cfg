SPECIFICATION Spec
CONSTANTS
  s1 = s1
  s2 = s2
  s3 = s3
  Scripts = {s1, s2}
  NoScript = NoScript
  Program <- DebugProgram
  Debuggable = {s1}
  UnlockedDebugger = TRUE
  KillTargets = {}
  Priorities = {}
  SleepTicks = {1}
  DefaultQueueSize = 1
  QueueSizes = {}
  DiscardOldEvents = FALSE
  MaxClock = 2
  MaxEvents = 0
INVARIANTS
  ClassInvariant
