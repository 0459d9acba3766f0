\* The user saves the file while a pass transfers it.
CONSTANTS
    a = a
    d = d
    e = e
    x = x
    copy1 = copy1
    copy2 = copy2
    Absent = absent
    Folder = folder
    NoPath = nopath
    Ancestors <- MCAncestors
    Rank <- MCRank
    CopiesOf <- MCCopies
    Contents = {v1, v2}
    Paths = {a}
    FilePaths = {a}
    FolderPaths = {}
    Ignored = {}
    Policy = "keep-both"
    Racing = {"local"}
    MaxEdits = 2
    MaxFaults = 0
SPECIFICATION FairSpec
CHECK_DEADLOCK FALSE
PROPERTIES Converges
