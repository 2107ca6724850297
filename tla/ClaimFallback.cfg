SPECIFICATION Spec
CONSTANTS
    t1 = t1
    t2 = t2
    Tasks = {t1, t2}
    MaxPasses = 2
    MaxAuto = 2
    MaxProposals = 1
    Results <- TeamSays
    Rows = {"auto", "approve"}
    Effects = {"Weak", "Failed"}
    Closings = {"Cancelled"}
    Freezes = {"FullyFrozen"}
    MaxFaults = 1
    FaultyPasses = 2
SYMMETRY TaskSymmetry
INVARIANT
    NobodyLost
CHECK_DEADLOCK FALSE
