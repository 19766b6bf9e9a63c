SPECIFICATION Spec
CONSTANTS
    f1 = f1  f2 = f2  f3 = f3  h1 = h1  h2 = h2  w1 = w1  w2 = w2
    NoAsset = NoAsset  NoFile = NoFile
    Files <- ThreeFiles
    Hashes = {h1, h2}
    HashOf <- SharedContent
    Corrupt = {f3}
    Workers <- TwoWorkers
    MaxAttempts = 2
    FaultPoints <- RetriedButUpload
    FaultClasses = {TRUE, FALSE}
    ReplayFrom = {}
    ReplayStages = {}
    MaxFaults = 1
    MaxCrashes = 0
    MaxReplays = 0
INVARIANTS HeldOrCountedOnce
PROPERTIES ImplementsJobLedger NothingIsRedone
CHECK_DEADLOCK FALSE
