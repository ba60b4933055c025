SPECIFICATION FairSpec
CONSTANTS
  Clients = {c1, c2}
  Nobody = Nobody
  Capacity = 1
  MaxSequence = 3
  Events <- MCEvents
INVARIANTS RepliesFormOneHistory AnswerIsForOwnCommand
PROPERTIES ImplementsLifecycle CallsAreAnswered TaskEnds
CHECK_DEADLOCK FALSE
