SPECIFICATION FairSpec
CONSTANTS
  s1 = s1
  s2 = s2
  s3 = s3
  Scripts = {s1, s2, s3}
  NoScript = NoScript
  Program <- ProgressProgram
  Debuggable = {}
  UnlockedDebugger = FALSE
  KillTargets = {s2}
  Priorities = {2}
  SleepTicks = {1}
  DefaultQueueSize = 1
  QueueSizes = {}
  DiscardOldEvents = FALSE
  MaxClock = 2
  MaxEvents = 0
PROPERTIES
  PassEnds
  SleepersWake
  EndsAreFollowed
