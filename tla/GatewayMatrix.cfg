SPECIFICATION Spec
CONSTANTS
    r1 = r1
    r2 = r2
    j1 = j1
    j2 = j2
    i1 = i1
    t1 = t1
    t2 = t2
    Runs = {r1, r2}
    Jobs = {j1}
    Issues = {i1}
    Tasks = {t1, t2}
    None = None
    JobOf <- OnePass
    IssueOf <- OneIssue
    Latest = {j1}
    KeyOf <- OwnKey
    IntentOf <- OwnKey
    Row <- AutoAndDeny
    Mutating = {r1, r2}
    Unimplemented = {r1}
    Approvable = {"WaitingForApproval"}
    Rejectable = {"Proposed", "WaitingForHuman", "Running"}
    Freezes = {"DispatchFrozen", "FullyFrozen"}
    Merges = TRUE
    MaxDrops = 1
    MaxCrashes = 0
SYMMETRY TaskSymmetry
INVARIANTS
    Consent
