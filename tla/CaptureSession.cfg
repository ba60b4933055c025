SPECIFICATION FairSpec
CONSTANTS Capacity = 2
INVARIANTS ViewIsCurrent ReturnsClean LinkIsClosed LossIsVisible
PROPERTIES CaptureEnds
CHECK_DEADLOCK FALSE
