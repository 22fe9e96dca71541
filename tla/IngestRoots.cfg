SPECIFICATION FairSpec
CONSTANTS
    Roots = {1, 2}
    Paths = {1}
    RootName <- MCDistinctNames
    RootLists <- MCAnyRoots
    RootStates = {"ok", "missing"}
    Contents = {"a", "large"}
    NoContent = "none"
    Kind <- MCKind
    Sigs = {"s1"}
    NoSig = "none"
    MaxRuns = 2
    MaxEdits = 1
    StatFaults = FALSE
    DbFaults = TRUE
INVARIANTS
    CountersMatchCatalog
PROPERTIES
    OnlyListedRootsReconciled
    ImplementsCatalog
    RunEnds
CHECK_DEADLOCK FALSE
