SPECIFICATION Spec
CONSTANTS
  TurnTrigger = 3
  RemoveTurns = 2
  ByteTrigger = 4
  ByteTarget = 2
  Sizes = {1, 2, 4}
  MaxTurns = 5
  MaxFaults = 1
  MaxReboots = 2
  MaxForgets = 1
INVARIANTS
  ContextSound
PROPERTIES
  ConversationKept
  CompactionKeepsUp
CHECK_DEADLOCK FALSE
