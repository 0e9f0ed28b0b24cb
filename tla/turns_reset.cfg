SPECIFICATION TurnsSpec
CONSTANTS
  N = 1
  RetryAfter = 1
  MissedAfter = 2
  Repeats = {0}
  Day = 2
  ShiftAt = 2
  ShiftBy = 1
  Texts = {t1, t2}
  NoText = NoText
  MaxTime = 4
  MaxDelay = 2
  MaxId = 2
  MaxFaults = 0
  MaxReboots = 0
  QueueLength = 2
  MaxChats = 1
  MaxDrops = 0
  MaxFailures = 0
  MaxResets = 1
PROPERTIES
  ResetRemovesJobs
CHECK_DEADLOCK FALSE
