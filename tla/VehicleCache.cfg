SPECIFICATION Spec
CONSTANTS
    Processes = {p1, p2}
    Vins = {"v1", "v2"}
    Keys = {1, 2, 3}
    Times = {0, 2}
    MaxCommands = 2
    MaxBytes = 6
    MaxReferences = 1
    MaxEntries = 1
    VinLength = 2
    Repository <- MCRepository
    Revision <- MCRevision
    CatalogPids <- MCCatalogPids
    Vehicles <- MCVehicles
    Plan <- MCPlan
    Replies <- MCReplies
    Providers <- MCProviders
    FirstFiles <- MCFirstFiles
    VinSymbols <- MCVinSymbols
INVARIANTS LoadedIsSaved OneVehiclePerKey ValidMeansUnchanged
PROPERTIES TargetedEcuIsThere EvidenceIsKept
SYMMETRY MCSymmetry
CHECK_DEADLOCK FALSE
