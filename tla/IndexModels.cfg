SPECIFICATION Spec
CONSTANTS
    Files = {1, 2}
    Chunks = {11, 21, 22}
    Owner <- MCOwner
    Documents <- MCTwoFiles
    Models = {"a", "b"}
    Dims = {4, 8}
    Scopes <- MCScopes
    NoChunk = NoChunk
    NoModel = NoModel
    MaxRuns = 2
    MaxEdits = 1
    ProviderFaults = FALSE
    DbFaults = FALSE
    Crashes = TRUE
INVARIANTS
    NoMixedDimensions
PROPERTIES
    OnlyScopeIsWritten
    NoRedundantEmbedding
CHECK_DEADLOCK FALSE
