\* Liveness: one install, two events, a crash.
CONSTANTS
    render = render
    publish = publish
    Installs = {render}
    Paths <- MCPaths
    NoInstall = none
    Workers = {w1, w2}
    Kinds <- OneFile
    Matches <- MCMatches
    On <- MCOn
    SkipOwn <- MCSkipOwn
    MaxAttempts <- MCMaxAttempts
    DefaultMaxAttempts = 2
    UserStates = {}
    RowsAge = FALSE
    MaxEvents = 2
    MaxPasses = 2
    MaxCrashes = 1
SPECIFICATION FairSpec
CHECK_DEADLOCK FALSE
PROPERTIES SettledIsHandedOver EveryRunEnds OrphansSettle
