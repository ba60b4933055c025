SPECIFICATION FairSpec
CONSTANTS
  Targets = {engine, gearbox}
  Engine = engine
  Functional = Functional
  None = None
  Pids = {rpm}
  AnswersPending = FALSE
  Interval = 1
  Limit = 2
INVARIANTS FunctionalNeedsDefaultSession
PROPERTIES SessionIsAccountedFor IndeterminateStopsTraffic StrayOnlyAfterFailedReset SessionEnds
