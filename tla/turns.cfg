SPECIFICATION FairTurnsSpec
CONSTANTS
  N = 1
  RetryAfter = 1
  MissedAfter = 1
  Repeats = {0, 1}
  Day = 2
  ShiftAt = 2
  ShiftBy = 1
  Texts = {t1, t2}
  NoText = NoText
  MaxTime = 3
  MaxDelay = 1
  MaxId = 2
  MaxFaults = 0
  MaxReboots = 1
  QueueLength = 1
  MaxChats = 2
  MaxDrops = 1
  MaxFailures = 1
  MaxResets = 1
INVARIANTS
  TurnsSound
  OneMessagePerJob
  RunsCurrentPrompt
PROPERTIES
  DueJobsRun
CHECK_DEADLOCK FALSE
