SPECIFICATION SpecModeSpec
CONSTANTS
    Creators = {a, b}
    Requirements <- MCRequirements
    Depths = {2}
    Corpora <- MCCorpora
    Catalogs <- MCCatalogs
    MarkedNames = {"s2", "z"}
    Technical = {"pkg_a", "pkg_b"}
    MaxQueries = 2
    NodeLimit = 2
    MaxStarts = 2
    MaxChanges = 1
    MaxEdits = 1
INVARIANTS
    DocumentsAreTrue
    OnlyForeignWordsReject
PROPERTIES
    ReplacedOnRequest
CHECK_DEADLOCK FALSE
SYMMETRY CreatorsAlike
