SPECIFICATION FairSpec
CONSTANTS
    PathPrefix <- LinkPrefix
    Tasks = {t1, t2}
    Calls <- LinkCalls
    Chunks = {x, y}
    Inodes = {i1, i2, i3, i4, i5}
    Shared <- LinkShared
    MaxFileSize = 2
    InitialStores <- LinkStores
    i1 = i1
    i2 = i2
    i3 = i3
    i4 = i4
    i5 = i5
    x = x
    y = y
    Absent = Absent
    Dir = Dir
    Link = Link
    File = File
    Hole = Hole
    None = None
INVARIANT Contained
PROPERTIES SharedUntouched CallsReturn
