SPECIFICATION Spec
CONSTANTS
  DayLength = 4
  DueTimes = {0, 2}
  CatchUp = 1
  QueueLength = 2
  MaxTime = 7
  MaxCommands = 1
  MaxFaults = 1
  MaxReboots = 0
INVARIANTS
  DeliveredDaysRan
CHECK_DEADLOCK FALSE
