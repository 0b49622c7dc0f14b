SPECIFICATION Spec
CONSTANTS
    PathPrefix <- NoPrefix
    Tasks = {t1}
    Calls <- SoloCalls
    Chunks = {x, y}
    Inodes = {i1, i2, i3, i4, i5}
    Shared = {}
    MaxFileSize = 2
    InitialStores <- SoloStores
    i1 = i1
    i2 = i2
    i3 = i3
    i4 = i4
    i5 = i5
    x = x
    y = y
    Absent = Absent
    Dir = Dir
    Link = Link
    File = File
    Hole = Hole
    None = None
INVARIANT RenameMovesTheFile
