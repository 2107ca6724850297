SPECIFICATION FairSpec
CONSTANTS
    r1 = r1
    r2 = r2
    Runs = {r1, r2}
    Answers <- TeamAnswers
    Probing = {r1}
    MaxTurns = 2
    MaxCalls = 3
    WrapUps = 1
    MaxRetries = 1
    MaxInspections = 1
    RunTokens = 3
    Budget = 3
    MaxCancels = 1
    MaxFaults = 1
INVARIANTS
    OvershootBound
    LedgerTrue
    ResultWhole
    WithinLimits
PROPERTIES
    RunsEnd
CHECK_DEADLOCK FALSE
