SPECIFICATION FairSpec
CONSTANTS
    NCards = 3
    CardConcurrency = 2
    MaxRefineAttempts = 2
INVARIANTS AnswerIsWhole RequestsAccounted ObserversAreToldTheTruth
PROPERTIES RepairKeepsTheRest EveryGenerationEnds
CHECK_DEADLOCK FALSE
