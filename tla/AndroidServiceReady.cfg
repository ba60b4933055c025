SPECIFICATION Spec
CONSTANTS
  MaxGeneration = 2
  MaxPosted = 1
  Overtaking = {"disconnect"}
  AutoSurvey = FALSE
  Jobs = {"uds.enable", "knowledge"}
INVARIANT
  ReadyHasASession
CHECK_DEADLOCK FALSE
