\* A folder deleted here while a file in it was edited there.
CONSTANTS
    a = a
    d = d
    e = e
    x = x
    copy1 = copy1
    copy2 = copy2
    Absent = absent
    Folder = folder
    NoPath = nopath
    Ancestors <- MCAncestors
    Rank <- MCRank
    CopiesOf <- MCCopies
    Contents = {v1, v2}
    Paths = {d, x}
    FilePaths = {x}
    FolderPaths = {d}
    Ignored = {}
    Policy = "keep-both"
    Racing = {}
    MaxEdits = 2
    MaxFaults = 0
SYMMETRY Alike
SPECIFICATION Spec
CHECK_DEADLOCK FALSE
PROPERTIES DeletesOnlyDeleted
