SPECIFICATION FairRetrieval
CONSTANTS
    a1 = a1  a2 = a2  a3 = a3  NoAsset = NoAsset
    Assets = {a1, a2, a3}
    NCards = 2  NImages = 2
    CardConcurrency = 2  ImageConcurrency = 1
    MaxAttempts = 2
    NoQuery <- SecondUnnamed
    Rankings <- Competing
    ColorsMayFail = TRUE
INVARIANTS NeverReused BestOfTheRest
PROPERTIES EverySlotAnswered
CHECK_DEADLOCK FALSE
