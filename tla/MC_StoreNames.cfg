\* One name with a capital that Python folds and SQLite does not.
CONSTANTS
    a = a
    A = A
    b = b
    e = e
    Bases = {e}
    SqlLower <- MCLower
    PyLower <- MCPyLower
    Paths <- MCNamePaths
    Inners = {u1}
    Contents = {c1}
    NoInner = noinner
    NoHash = nohash
    Mixed = mixed
    None = none
    Workers = {w1}
    UploadIds = {}
    Capacity = 2
    Repeats = FALSE
    MaxId = 2
    MaxRequests = 4
    MaxCrashes = 0
SPECIFICATION Spec
CHECK_DEADLOCK FALSE
INVARIANTS TreeSound
