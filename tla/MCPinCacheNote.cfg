\* TLC finds a counterexample: the answer of `zedb pin` does not stay true
\* (pin.rs:343-345), though nothing fails.
SPECIFICATION Spec
CONSTANTS
    Processes = {"app", "cli"}
    Tasks = {"check", "verify", "pin"}
    Owner <- MCOwner
    Versions = {"cloud", "v26"}
    Trusted = {"v26"}
    Rank <- MCRank
    Minor <- MCMinor
    MaxAsked = 2
    MaxFaults = 0
    None = None
INVARIANT AnswerIsFound
CHECK_DEADLOCK FALSE
