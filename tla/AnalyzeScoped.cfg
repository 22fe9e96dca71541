SPECIFICATION Spec
CONSTANTS
    Files = {1, 2}
    Texts = {"call", "copy", "impl"}
    NoText = NoText
    Symbols = {1, 2}
    NoSymbol = NoSymbol
    Refs = {2}
    Defines <- MCDefines
    Refers <- MCRefers
    Kind <- MCKind
    Compatible <- MCCompatible
    Container <- MCContainer
    NoContainer = NoContainer
    Prefixes <- MCPrefixes
    MaxRuns = 2
    MaxEdits = 0
    DbFaults = FALSE
    Crashes = FALSE
PROPERTIES
    ScopedRunKeepsOthers
CHECK_DEADLOCK FALSE
