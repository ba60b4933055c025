SPECIFICATION Spec
CONSTANTS
  Targets = {engine, gearbox}
  Engine = engine
  Functional = Functional
  None = None
  Pids = {rpm}
  AnswersPending = TRUE
  Interval = 1
  Limit = 2
PROPERTIES SessionIsAccountedFor
