SPECIFICATION Spec
CONSTANTS
    j1 = j1  j2 = j2  d1 = d1  k1 = k1  A = A  B = B
    f1 = f1  f2 = f2  f3 = f3  x = x  y = y  None = None
    Folders = {A, B}
    Files = {f1, f2, f3}
    Contents = {x, y}
    Jobs = {d1, j2}
    DryRuns = {d1}
    FolderOf <- DryAndFull
    FilesOf <- TwiceInB
    ContentOf <- SameContents
    Cleaners = {k1}
    MaxFaults = 2
    MaxCrashes = 1
INVARIANTS LinksMatchSources JobsTellTheTruth
CHECK_DEADLOCK FALSE
