\* One machine edits, the other follows; nothing fails.
SPECIFICATION LiveSpec
CONSTANTS
    a = a
    b = b
    Machines = {a, b}
    Themes = {"default", "dark", "light"}
    AgentLists = {}
    Names = {}
    Endpoints = {}
    Syncable = {}
    Users = {}
    None = None
    Editors = {a}
    Initial <- MCInitial
    InitialRemotes <- MCSeeded
    Faults = {}
    MaxEdits = 3
    MaxFaults = 0
    MaxToggles = 2
    MaxTogether = 2
    MaxCommits = 5
CHECK_DEADLOCK FALSE
INVARIANTS PushesOnlyEdits
PROPERTIES FollowersCatchUp
