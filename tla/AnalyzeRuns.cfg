SPECIFICATION FairSpec
CONSTANTS
    Files = {1, 2}
    Texts = {"call", "copy", "impl"}
    NoText = NoText
    Symbols = {1, 2}
    NoSymbol = NoSymbol
    Refs = {1, 2}
    Defines <- MCDefines
    Refers <- MCRefers
    Kind <- MCKind
    Compatible <- MCCompatible
    Container <- MCContainer
    NoContainer = NoContainer
    Prefixes <- MCPrefixes
    MaxRuns = 2
    MaxEdits = 1
    DbFaults = TRUE
    Crashes = TRUE
INVARIANTS
    PublishedIsTrue
    ResolutionIsGlobal
    CompletedRunMirrorsTexts
PROPERTIES
    RunEnds
CHECK_DEADLOCK FALSE
