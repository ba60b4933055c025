SPECIFICATION Spec
CONSTANTS
    Signals = {1, 2, 3}
    Second = 10
    Precision = 1000
    DefaultBudget = 4
    Freshness = {2, 5, 10}
    Profiles <- MCProfiles
    ServiceTimes = {1, 3}
    Lateness = {0, 1}
INVARIANTS BudgetIsMet PrioritiesKept
PROPERTIES EverySignalIsRead
