\* A file in a folder beside another folder, under newest-wins, with passes that fail anywhere; fair passes, so no symmetry.
CONSTANTS
    a = a
    d = d
    e = e
    x = x
    copy1 = copy1
    copy2 = copy2
    Absent = absent
    Folder = folder
    NoPath = nopath
    Ancestors <- MCAncestors
    Rank <- MCRank
    CopiesOf <- MCCopies
    Contents = {v1, v2}
    Paths = {d, e, x}
    FilePaths = {x}
    FolderPaths = {d, e}
    Ignored = {}
    Policy = "newest-wins"
    Racing = {}
    MaxEdits = 4
    MaxFaults = 1
SPECIFICATION FairSpec
CHECK_DEADLOCK FALSE
INVARIANTS NeverFailsByItself
PROPERTIES KeepsLocalEdits KeepsRemoteEdits Converges
