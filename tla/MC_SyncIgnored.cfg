\* A file of a name the local scan ignores.
CONSTANTS
    a = a
    d = d
    e = e
    x = x
    copy1 = copy1
    copy2 = copy2
    Absent = absent
    Folder = folder
    NoPath = nopath
    Ancestors <- MCAncestors
    Rank <- MCRank
    CopiesOf <- MCCopies
    Contents = {v1, v2}
    Paths = {a}
    FilePaths = {a}
    FolderPaths = {}
    Ignored = {a}
    Policy = "keep-both"
    Racing = {}
    MaxEdits = 2
    MaxFaults = 0
SYMMETRY Alike
SPECIFICATION Spec
CHECK_DEADLOCK FALSE
PROPERTIES DeletesOnlyDeleted
