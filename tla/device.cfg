SPECIFICATION DeviceSpec
CONSTANTS
  Keys = {1, 2, 3}
  AgentKeys = {2}
  Values = {"default", "x", "y"}
  Default = "default"
  Unset = "unset"
  Files <- SmallFiles
  MaxWrites = 3
  Slots = {1, 2}
  MaxSaves = 3
  MaxThings = 1
  MaxAges = 2
  Releases <- SmallReleases
  NoImage = NoImage
  MaxUpdates = 3
  Scenes <- SmallScenes
INVARIANTS
  SettingsHold
  FactsKept
  ResetStays
  SoundImageKept
PROPERTIES
  UpAgain
CHECK_DEADLOCK FALSE
