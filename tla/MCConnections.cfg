SPECIFICATION FairSpec
CONSTANTS
    Names = {"prod", "lab"}
    Hosts = {"host"}
    Services = {"service"}
    Keyed = {"service"}
    Initial <- MCInitial
    Faults = {"file", "secret", "rollback"}
    MaxWork = 4
    MaxPolls = 1
    MaxFaults = 2
    None = None
CHECK_DEADLOCK FALSE
INVARIANTS NothingIsLeftBehind
PROPERTIES SavesAreWhole ConnectingEnds
