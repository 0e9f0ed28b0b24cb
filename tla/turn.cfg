SPECIFICATION TurnSpec
CONSTANTS
  Answers <- SmallAnswers
  Styles = {"full", "terse", "brief"}
  ArenaSize = 5
  TextSize = 1
  MaxTrouble = 1
  JobCounts = {0, 2}
  MaxPresses = 2
  MaxSpoilt = 1
  Scenes <- SmallScenes
  Slow = {2}
  TraceSize = 3
  RequestSize = 2
  MaxTurns = 2
INVARIANTS
  AnswerAsSent
  OutcomesTold
  TurnBounded
  FaceTruthful
  OnePressOneSwitch
PROPERTIES
  TurnsAnswered
  ScreenFollows
CHECK_DEADLOCK FALSE
