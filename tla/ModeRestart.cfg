SPECIFICATION Spec
CONSTANTS
    j1 = j1
    j2 = j2
    a1 = a1
    a2 = a2
    c1 = c1
    c2 = c2
    Jobs = {j1, j2}
    Actions = {a1, a2}
    Callers = {c1, c2}
    StayFrozen = {TRUE, FALSE}
    MaxCrashes = 3
INVARIANTS
    NoOrphans
    OnlyRequestsDecide
    RestartKeepsMode
    HeedsEarlierRecoveries
