SPECIFICATION FairSpec
CONSTANTS
  Agent = agent
  Tasks = {agent, poller}
  Nobody = nobody
  QueueLength = 2
  MaxParts = 2
  MaxCalls = 3
  MaxFaults = 1
INVARIANTS
  QueueSound
  TextsUnbroken
PROPERTIES
  FlushEnds
CHECK_DEADLOCK FALSE
