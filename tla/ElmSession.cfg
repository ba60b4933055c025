SPECIFICATION Spec
CONSTANTS
  Targets = {t1, t2}
  Functional = Functional
  None = None
  Pids = {p1}
  AnswersPending = TRUE
SYMMETRY TargetSymmetry
INVARIANTS ConfiguredOrReset FunctionalIsClean NeverAnotherEcu
