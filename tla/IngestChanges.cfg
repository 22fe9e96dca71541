SPECIFICATION Spec
CONSTANTS
    Roots = {1}
    Paths = {1}
    RootName <- MCDistinctNames
    RootLists <- MCOneRoot
    RootStates = {"ok", "missing", "unreadable"}
    Contents = {"a", "b", "corrupt", "pbl"}
    NoContent = "none"
    Kind <- MCKind
    Sigs = {"s1", "s2"}
    NoSig = "none"
    MaxRuns = 2
    MaxEdits = 2
    StatFaults = TRUE
    DbFaults = TRUE
INVARIANTS
    RowsAreSound
    NoStaleKnowledge
    CompletedRunMirrorsDisk
PROPERTIES
    WritesAreDue
CHECK_DEADLOCK FALSE
