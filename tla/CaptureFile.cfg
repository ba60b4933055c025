SPECIFICATION Spec
CONSTANTS
  MaxText = 8
  CommitLength = 2
  MaxMode = 10
  HistoryCapacity = 1
  ResponderOrder <- MCResponderOrder
  Capacity = 2
  AuditCapacity = 1
  Subscriptions <- Plan
  Interval = 1
  Replies <- MCReplies
  ScanReplies <- MCScanReplies
  Negotiations <- MCNegotiations
  Millisecond = 2
  MaxReads = 3
  MaxTook = 1
INVARIANTS FileReadsBack ReplayShowsTheScreen ReportAddsUp SuccessIsClean
CHECK_DEADLOCK FALSE
