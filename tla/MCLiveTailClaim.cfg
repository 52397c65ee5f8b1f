\* TLC finds a counterexample: "a poll firing during stream connect can no longer
\* duplicate a row" (CHANGELOG.md:543-544).  One poll, one stream, no edit, no restart.
SPECIFICATION Spec
CONSTANTS
    Nodes = {"n1"}
    Home = "n1"
    InitialRows <- MCRows
    Table = "table"
    Edited = {}
    Experimental = {TRUE}
    Burst = 2
    Seed = 1
    Limit = 1
    Cap = 2
    MaxRows = 3
    MaxPolls = 1
    MaxEpochs = 1
    MaxGenerations = 1
    MaxEdits = 0
    None = None
INVARIANT RowsComeOnce
CHECK_DEADLOCK FALSE
