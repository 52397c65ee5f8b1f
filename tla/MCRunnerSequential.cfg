SPECIFICATION Spec
CONSTANTS
    Databases = {"a"}
    Registry <- MCOne
    Group <- MCNoGroup
    MaxNumber = 99999
    Migrations = {0, 100, 200}
    RepoVersions <- MCPlainRepo
    Class <- MCClass
    AllowList <- MCAllowList
    Length <- MCLength
    SystemFirst <- MCSystemFirst
    AncestorRows = {}
    Operations <- MCChainOperations
    MaxRuns = 3
    MaxActive = 1
    Uuid <- MCUuid
    ClockSteps = {1}
    Faults = {"network", "statement", "discovery", "params", "crash"}
INVARIANTS
    NewestRowIsTrue
PROPERTIES
    LedgerSpec
CHECK_DEADLOCK FALSE
