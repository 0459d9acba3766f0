\* One file, edited between passes on both sides; passes that fail anywhere.
CONSTANTS
    a = a
    d = d
    e = e
    x = x
    copy1 = copy1
    copy2 = copy2
    Absent = absent
    Folder = folder
    NoPath = nopath
    Ancestors <- MCAncestors
    Rank <- MCRank
    CopiesOf <- MCCopies
    Contents = {v1, v2, v3}
    Paths = {a, copy1, copy2}
    FilePaths = {a}
    FolderPaths = {}
    Ignored = {}
    Policy = "keep-both"
    Racing = {}
    MaxEdits = 4
    MaxFaults = 2
SYMMETRY Alike
SPECIFICATION Spec
CHECK_DEADLOCK FALSE
INVARIANTS TypeOK NoSilentDivergence
PROPERTIES KeepsLocalEdits KeepsRemoteEdits NeverResurrects RowsWereTrue
