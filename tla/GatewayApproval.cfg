SPECIFICATION Spec
CONSTANTS
    r1 = r1
    r2 = r2
    j1 = j1
    j2 = j2
    i1 = i1
    t1 = t1
    t2 = t2
    Runs = {r1, r2}
    Jobs = {j1, j2}
    Issues = {i1}
    Tasks = {t1, t2}
    None = None
    JobOf <- TwoPasses
    IssueOf <- OneIssue
    Latest = {j2}
    KeyOf <- SameKey
    IntentOf <- SameKey
    Row <- BothApprove
    Mutating = {r2}
    Unimplemented = {}
    Approvable = {"WaitingForApproval"}
    Rejectable = {"WaitingForApproval", "Ready"}
    Freezes = {"FullyFrozen"}
    Merges = FALSE
    MaxDrops = 0
    MaxCrashes = 1
SYMMETRY TaskSymmetry
INVARIANTS
    TypeOK
    ClaimExclusion
    ExecutingExclusion
    Consent
    ClosedQuiet
    EndsInInbox
    NoReconcileLost
PROPERTIES
    AlongTheMachines
    ResolvedWhenSettled
