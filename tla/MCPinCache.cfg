\* Two processes on one cache, a published release and one that has none.
SPECIFICATION Spec
CONSTANTS
    Processes = {"app", "cli"}
    Tasks = {"check", "verify", "pin"}
    Owner <- MCOwner
    Versions = {"cloud", "v26"}
    Trusted = {"v26"}
    Rank <- MCRank
    Minor <- MCMinor
    MaxAsked = 3
    MaxFaults = 2
    None = None
INVARIANTS HandedOutIsWhole PinnedStaysUsable DebrisIsHarmless
CHECK_DEADLOCK FALSE
