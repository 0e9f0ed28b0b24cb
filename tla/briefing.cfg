SPECIFICATION FairSpec
CONSTANTS
  DayLength = 4
  DueTimes = {0, 2}
  CatchUp = 1
  QueueLength = 1
  MaxTime = 6
  MaxCommands = 1
  MaxFaults = 1
  MaxReboots = 1
INVARIANTS
  BriefingsSound
PROPERTIES
  DaysSettled
CHECK_DEADLOCK FALSE
