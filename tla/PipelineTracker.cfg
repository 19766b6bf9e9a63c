SPECIFICATION FairSpec
CONSTANTS
    e1 = e1  e2 = e2  s1 = s1  s2 = s2  NoStage = NoStage
    Executions = {e1}
    Stages = {s1, s2}
    MaxEvents = 3
    MaxFaults = 1
INVARIANTS TimelineSound RowsAreTheEvents
PROPERTIES TrackerCatchesUp
CHECK_DEADLOCK FALSE
