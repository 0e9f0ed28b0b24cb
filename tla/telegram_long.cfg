SPECIFICATION ChannelsSpec
CONSTANTS
  AgentQueueLength = 2
  Channels = {"telegram", "instagram", "jobs"}
  Setups = {{"telegram"}}
  Writings = {"command", "slashed", "voice", "foreign", "long"}
  Arrivals = {"text"}
  MaxUpdates = 3
  MaxPollDrops = 1
  MaxReboots = 1
  People = {"ann", "bob"}
  Starts <- SmallStarts
  PageSize = 2
  PageCount = 2
  OutLength = 1
  TurnTexts = 1
  MaxItems = 10
  MaxArrivals = 1
  MaxTrouble = 2
PROPERTIES
  LongMessagesAnswered
CHECK_DEADLOCK FALSE
