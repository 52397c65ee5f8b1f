\* A checkout that ends up attached to another connection than the one it was opened for.
SPECIFICATION FairSpec
CONSTANTS
    Connections = {"a", "b"}
    Repos = {"local", "remote"}
    Remote = {"remote"}
    Production = {"b"}
    Actions = {"rollback"}
    Structural = {"rollback"}
    Irreversible = {}
    Saved <- MCSaved
    MaxWork = 4
    None = None
PROPERTIES ChainFollowsConnection
CHECK_DEADLOCK FALSE
