SPECIFICATION SetupSpec
CONSTANTS
    Clients = {c1, c2}
    Processes = {d1, d2}
    Models = {"llama", "qwen:7b"}
    ReportedAs <- MCReportedAs
    Configurations <- MCConfigurations
    NoModel = NoModel
    Releases = {1, 2}
    Statements = 2
    Nobody = Nobody
    Directories = {"database", "source1"}
    Checked = {"database", "source1"}
    MaxEdits = 1
    MaxEvents = 1
    MaxCommands = 2
INVARIANTS
    SetupInvariant
    HealthyIsReady
PROPERTIES
    SuccessIsEarned
SYMMETRY Alike
CHECK_DEADLOCK FALSE
