\* A pass that stops between a change and its event.
CONSTANTS
    a = a
    d = d
    e = e
    x = x
    copy1 = copy1
    copy2 = copy2
    Absent = absent
    Folder = folder
    NoPath = nopath
    Ancestors <- MCAncestors
    Rank <- MCRank
    CopiesOf <- MCCopies
    Contents = {v1, v2, v3}
    Paths = {a}
    FilePaths = {a}
    FolderPaths = {}
    Ignored = {}
    Policy = "keep-both"
    Racing = {}
    MaxEdits = 1
    MaxFaults = 1
SYMMETRY Alike
SPECIFICATION Spec
CHECK_DEADLOCK FALSE
INVARIANTS EventsAsDurable
