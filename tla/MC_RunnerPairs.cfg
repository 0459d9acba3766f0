\* Safety: two installs that may be removed, two files, rows that age, two events.
CONSTANTS
    render = render
    publish = publish
    Installs = {render, publish}
    Paths <- MCPaths
    NoInstall = none
    Workers = {w1}
    Kinds <- TwoFiles
    Matches <- MCMatches
    On <- MCOn
    SkipOwn <- MCSkipOwn
    MaxAttempts <- MCMaxAttempts
    DefaultMaxAttempts = 2
    UserStates = {"gone"}
    RowsAge = TRUE
    MaxEvents = 2
    MaxPasses = 1
    MaxCrashes = 0
SYMMETRY Threads
SPECIFICATION Spec
CHECK_DEADLOCK FALSE
INVARIANTS RunsKeepTheirEvent
PROPERTIES ImplementsRunQueue
