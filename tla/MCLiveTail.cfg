\* Two nodes, one with an empty table, one poll per generation in flight, two upgrades, one
\* restart and one edit.
SPECIFICATION FairSpec
CONSTANTS
    Nodes = {"n1", "n2"}
    Home = "n1"
    InitialRows <- MCRows
    Table = "table"
    Edited = {"edited"}
    Experimental = {TRUE}
    Burst = 2
    Seed = 1
    Limit = 1
    Cap = 2
    MaxRows = 3
    MaxPolls = 1
    MaxEpochs = 2
    MaxGenerations = 2
    MaxEdits = 1
    None = None
INVARIANTS ShownExactly ViewsAreOwned
PROPERTIES RowsArrive
CHECK_DEADLOCK FALSE
