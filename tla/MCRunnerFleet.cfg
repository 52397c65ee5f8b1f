SPECIFICATION FairSpec
CONSTANTS
    Databases = {"a", "b", "x"}
    Registry <- MCRegistry
    Group <- MCGroup
    MaxNumber = 99999
    Migrations = {0, 100, 200, 300}
    RepoVersions <- MCGraduatingRepos
    Class <- MCGateClass
    AllowList <- MCAllowList
    Length <- MCLength
    SystemFirst <- MCSystemFirst
    AncestorRows <- MCAncestorRows
    Operations <- MCWalkOperations
    MaxRuns = 2
    MaxActive = 1
    Uuid <- MCUuid
    ClockSteps = {1}
    Faults = {"network", "statement", "late"}
INVARIANTS
    OneInDoubt SuccessIsComplete ExecutionsAllowed
PROPERTIES
    OkMeansReached RunsReturn
CHECK_DEADLOCK FALSE
