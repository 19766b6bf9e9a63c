SPECIFICATION FairSpec
CONSTANTS
    kite = kite  a1 = a1  a2 = a2  k1 = k1
    NoRow = NoRow  NotCompiled = NotCompiled  Nothing = Nothing  NoRequest = NoRequest
    NoLetter = NoLetter
    Terms = {kite}
    Countries <- MCCountries
    Global = "*"
    Severities = {"RESTRICTED"}
    Defaults <- MCDefaults
    RowIds = {r1, r2}
    Admins = {d1, d2}
    MaxEdits = 2
    Keys <- MCKeys
    MaxOutages = 1
    MaxFlushes = 1
    Assets = {k1, a1, a2}
    Metadata <- MCMetadata
    Rank <- MCRank
    Callers = {s1, s2}
    Requests <- MCRequests
    DefaultCountry = "*"
    CandidateMultiplier = 2
    MinimumCandidates = 3
    LetterCandidates = 3
    LookupMultiplier = 2
    MinimumLookup = 3
    Concurrency = 2
    MaxCalls = 2
    MaxChanges = 1
    MaxFaults = 1
    MaxRestarts = 1
    Occasions <- MCOccasions
INVARIANTS AnswersFit NothingFittingMissed
PROPERTIES GuardFollowsTheTable EverySearchEnds
CHECK_DEADLOCK FALSE
