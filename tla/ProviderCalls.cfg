SPECIFICATION FairCallsSpec
CONSTANTS
    c1 = c1  c2 = c2  c3 = c3  NoCall = NoCall
    Calls = {c1, c2, c3}
    Threshold = 2
    Cooldown = 2
    Capacity = 2
    Shapes = {TRUE, FALSE}
INVARIANTS CircuitMatchesFailures RateKept
PROPERTIES CooldownEnds
