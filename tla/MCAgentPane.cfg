\* Two threads of two agents, two turns, a permission request.
SPECIFICATION FairSpec
CONSTANTS
    Keys = {"claude", "codex"}
    Asks = {"write"}
    MaxPermissions = 1
    MaxThreads = 2
    MaxTurns = 2
    EventCapacity = 1
    None = None
INVARIANTS OneProcessPerAgent ThreadIsItsOwn OneTurnAtATime
PROPERTIES DeadTurnsEnd
CHECK_DEADLOCK FALSE
