SPECIFICATION Spec
CONSTANTS
  s1 = s1
  s2 = s2
  s3 = s3
  Scripts = {s1, s2}
  NoScript = NoScript
  Program <- EventProgram
  Debuggable = {s2}
  UnlockedDebugger = TRUE
  KillTargets = {s2}
  Priorities = {}
  SleepTicks = {1}
  DefaultQueueSize = 1
  QueueSizes = {0, 2}
  DiscardOldEvents = TRUE
  MaxClock = 2
  MaxEvents = 3
INVARIANTS
  NoEventWhileWaiting
  EventsInOrder
