\* One request at a time, as the sync lock has it; two uploads, and a server that may die.
CONSTANTS
    a = a
    A = A
    b = b
    e = e
    Bases = {a, A, b}
    SqlLower <- MCLower
    PyLower <- MCPyLower
    Paths <- MCPaths
    Inners = {u1, u2}
    Contents = {c1, c2}
    NoInner = noinner
    NoHash = nohash
    Mixed = mixed
    None = none
    Workers = {w1}
    UploadIds = {k1}
    Capacity = 1
    Repeats = FALSE
    MaxId = 4
    MaxRequests = 5
    MaxCrashes = 1
SYMMETRY Alike
SPECIFICATION Spec
CHECK_DEADLOCK FALSE
INVARIANTS TypeOK TreeSound NodesHaveBlobs BlobsAccounted LinksKeepTheirContent
PROPERTIES ChangesAnnounced OnlyUncountedOverruns ImplementsVault
