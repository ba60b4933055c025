SPECIFICATION FairSpec
CONSTANTS
  MaxGeneration = 3
  MaxPosted = 1
  Overtaking = {"disconnect"}
  AutoSurvey = TRUE
  Jobs = {"uds.enable"}
INVARIANTS AnswerIsForOwnExchange
PROPERTIES StoppedStaysStopped ExtendedSessionIsLeft LostLinkIsClosed
CHECK_DEADLOCK FALSE
