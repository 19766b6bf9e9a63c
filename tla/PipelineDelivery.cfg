SPECIFICATION FairSpec
CONSTANTS
    f1 = f1  f2 = f2  f3 = f3  h1 = h1  h2 = h2  w1 = w1  w2 = w2
    NoAsset = NoAsset  NoFile = NoFile
    Files = {f1}
    Hashes = {h1}
    HashOf <- SameContent
    Corrupt = {}
    Workers <- TwoWorkers
    MaxAttempts = 2
    FaultPoints <- StageCalls
    FaultClasses = {TRUE}
    ReplayFrom = {"DEAD_LETTER"}
    ReplayStages = {"UPLOADING_TO_S3", "GENERATING_METADATA", "GENERATING_EMBEDDING"}
    MaxFaults = 2
    MaxCrashes = 1
    MaxReplays = 1
INVARIANTS NothingForgotten
PROPERTIES EveryFileSettles
CHECK_DEADLOCK FALSE
