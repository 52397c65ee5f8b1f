\* Two connections, a local checkout and one behind a URL, every order of events.
SPECIFICATION FairSpec
CONSTANTS
    Connections = {"a", "b"}
    Repos = {"local", "remote"}
    Remote = {"remote"}
    Production = {"b"}
    Actions = {"rollback"}
    Structural = {"rollback"}
    Irreversible = {}
    Saved <- MCSaved
    MaxWork = 4
    None = None
INVARIANTS SettledMatrixIsTrue
PROPERTIES ConsentIsFresh RunsOnce LoadingEnds
CHECK_DEADLOCK FALSE
