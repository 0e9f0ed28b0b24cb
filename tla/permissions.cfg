SPECIFICATION MCSpec
CONSTANTS
  Chats = {"telegram", "ig:1", "serial"}
  Owners = {"telegram", "ig:1"}
  Tools = {"time_now", "schedule_list", "schedule_add", "schedule_update", "email_send"}
  Talkers = {"telegram"}
  Services = {"email"}
  Capacity = 2
  TimeToLive = 1
  MaxTime = 2
  MaxRecords = 2
  MaxBatches = 2
  Prompts <- MCPrompts
  MaxJobs = 2
INVARIANTS
  ArenaSound
  ReadsFirst
PROPERTIES
  ResetDeliberate
CHECK_DEADLOCK FALSE
