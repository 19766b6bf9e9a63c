SPECIFICATION Spec
CONSTANTS
    f1 = f1  f2 = f2  f3 = f3  h1 = h1  h2 = h2  w1 = w1  w2 = w2
    NoAsset = NoAsset  NoFile = NoFile
    Files <- TwoFiles
    Hashes = {h1}
    HashOf <- SameContent
    Corrupt = {}
    Workers <- TwoWorkers
    MaxAttempts = 2
    FaultPoints <- AnyAwait
    FaultClasses = {TRUE, FALSE}
    ReplayFrom = {}
    ReplayStages = {}
    MaxFaults = 1
    MaxCrashes = 1
    MaxReplays = 0
SYMMETRY WorkerSymmetry
INVARIANTS ArtifactChain EverybodyAgrees OutcomesAreRecorded
CHECK_DEADLOCK FALSE
