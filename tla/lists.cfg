SPECIFICATION Spec
CONSTANTS
  s1 = s1
  s2 = s2
  s3 = s3
  Scripts = {s1, s2, s3}
  NoScript = NoScript
  Program <- ListsProgram
  Debuggable = {s2}
  UnlockedDebugger = FALSE
  KillTargets = {s2}
  Priorities = {}
  SleepTicks = {0, 1}
  DefaultQueueSize = 1
  QueueSizes = {}
  DiscardOldEvents = FALSE
  MaxClock = 2
  MaxEvents = 0
INVARIANTS
  TypeOK
  InOneList
  NoneLost
  HeldAsBlocked
  FamilyLinks
  WellDefined
