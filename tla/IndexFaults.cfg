SPECIFICATION FairSpec
CONSTANTS
    Files = {1}
    Chunks = {11, 12}
    Owner <- MCOwner
    Documents <- MCVersions
    Models = {"a"}
    Dims = {4}
    Scopes = {}
    NoChunk = NoChunk
    NoModel = NoModel
    MaxRuns = 3
    MaxEdits = 2
    ProviderFaults = TRUE
    DbFaults = TRUE
    Crashes = TRUE
INVARIANTS
    IndexedHasVector
    CompletedRunMirrorsCorpus
    CountersMatchIndex
PROPERTIES
    RunEnds
CHECK_DEADLOCK FALSE
