SPECIFICATION FairSpec
CONSTANTS
    Roots = {1}
    Paths = {1}
    RootName <- MCDistinctNames
    RootLists <- MCOneRoot
    RootStates = {"ok", "unreadable"}
    Contents = {"a"}
    NoContent = "none"
    Kind <- MCKind
    Sigs = {"s1"}
    NoSig = "none"
    MaxRuns = 2
    MaxEdits = 1
    StatFaults = FALSE
    DbFaults = FALSE
PROPERTIES
    OnlyListedRootsReconciled
CHECK_DEADLOCK FALSE
