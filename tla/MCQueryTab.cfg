\* Two tabs, scripts of up to two statements, one batch of rows of each, three runs
\* or cancellations, one rewrite.
SPECIFICATION FairSpec
CONSTANTS
    Scripts <- MCScripts
    MaxTabs = 2
    MaxRunId = 3
    MaxBatches = 1
    MaxRewrites = 1
    None = None
INVARIANTS ControlsAreLive GridIsOneResult CompleteShowsAll
PROPERTIES RunsEnd
CHECK_DEADLOCK FALSE
