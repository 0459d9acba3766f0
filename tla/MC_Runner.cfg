\* Safety: one install, one file, three events, two threads, one crash.
CONSTANTS
    render = render
    publish = publish
    Installs = {render}
    Paths <- MCPaths
    NoInstall = none
    Workers = {w1, w2}
    Kinds <- OneFile
    Matches <- MCMatches
    On <- MCOn
    SkipOwn <- MCSkipOwn
    MaxAttempts <- MCMaxAttempts
    DefaultMaxAttempts = 2
    UserStates = {}
    RowsAge = FALSE
    MaxEvents = 3
    MaxPasses = 2
    MaxCrashes = 1
SYMMETRY Threads
SPECIFICATION Spec
CHECK_DEADLOCK FALSE
INVARIANTS
    TypeOK CursorOverSettled HalfSyncedHidden SerialPerPair ClaimOwnership BacklogBounded
    QueuedIsNewest AttemptsWithinLimit
PROPERTIES TerminalIsFinal
