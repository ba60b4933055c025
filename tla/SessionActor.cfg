SPECIFICATION FairSpec
CONSTANTS
  Clients = {c1, c2}
  Nobody = Nobody
  Capacity = 2
  Threshold = 2
INVARIANTS UnhealthyAfterConsecutiveFailures
PROPERTIES GivenUpIsTold CallsAreAnswered AdapterIsReleased
CHECK_DEADLOCK FALSE
