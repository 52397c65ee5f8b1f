\* Two machines with a connection each, the repository empty or not;
\* pushes, pulls, commits and saves fail, answers get lost, processes die.
SPECIFICATION Spec
CONSTANTS
    a = a
    b = b
    Machines = {a, b}
    Editors = {a, b}
    Themes = {"dark", "light"}
    AgentLists = {"acp"}
    Names = {"prod", "staging"}
    Endpoints = {"http", "ssh"}
    Syncable = {"http"}
    Users = {"ops"}
    None = None
    Initial <- MCInitialConnections
    InitialRemotes <- MCSeededOrEmpty
    Faults = {"network", "landed", "disk", "save", "crash"}
    MaxEdits = 1
    MaxFaults = 2
    MaxToggles = 3
    MaxTogether = 3
    MaxCommits = 3
CHECK_DEADLOCK FALSE
INVARIANTS AuthorityIsLocal GivenUpIsInHistory PushedIsShared
PROPERTIES PushesOverWhatItRead KeepsWhatIsLocal
