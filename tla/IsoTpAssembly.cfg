SPECIFICATION Spec
CONSTANTS
  engine = engine
  gearbox = gearbox
  brakes = brakes
  Ecus = {engine, gearbox, brakes}
  NoHeader = NoHeader
  BadHeader = BadHeader
  Body <- MCBody
  Answering <- MCAnswering
  Services = {"mode03", "uds", "multi", "mode09"}
  MaxFaults = 2
INVARIANTS CleanAnswerIsWhole OthersAreUntouched
CHECK_DEADLOCK FALSE
