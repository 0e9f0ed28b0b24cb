SPECIFICATION StoreSpec
CONSTANTS
  N = 2
  RetryAfter = 1
  MissedAfter = 1
  Repeats = {0, 1, 2}
  Day = 2
  ShiftAt = 4
  ShiftBy = 1
  Texts = {t1}
  NoText = NoText
  MaxTime = 5
  MaxDelay = 1
  MaxId = 2
  MaxFaults = 1
  MaxReboots = 1
INVARIANTS
  StoreSound
  JobIdsUnique
  PromisedStored
  FinishedGone
PROPERTIES
  PendingKept
  ReportCountsSkipped
CHECK_DEADLOCK FALSE
