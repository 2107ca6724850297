SPECIFICATION Spec
CONSTANTS
    t1 = t1
    t2 = t2
    Tasks = {t1, t2}
    MaxPasses = 3
    MaxAuto = 2
    MaxProposals = 1
    Results <- TeamSays
    Rows = {"auto", "approve", "unimplemented"}
    Effects = {"Weak"}
    Closings = {"Cancelled"}
    Freezes = {"FullyFrozen"}
    MaxFaults = 2
    FaultyPasses = 2
SYMMETRY TaskSymmetry
INVARIANTS
    BegunIsCarried
    ClosedHasNoWork
    Attended
    ChainBound
    OneSuccessorEach
PROPERTIES
    EndedStaysEnded
CHECK_DEADLOCK FALSE
