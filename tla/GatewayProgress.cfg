SPECIFICATION FairSpec
CONSTANTS
    r1 = r1
    r2 = r2
    j1 = j1
    j2 = j2
    i1 = i1
    t1 = t1
    t2 = t2
    Runs = {r1}
    Jobs = {j1}
    Issues = {i1}
    Tasks = {t1, t2}
    None = None
    JobOf <- SinglePass
    IssueOf <- OneIssue
    Latest = {j1}
    KeyOf <- OwnKey
    IntentOf <- OwnKey
    Row <- BothApprove
    Mutating = {r1}
    Unimplemented = {}
    Approvable = {"WaitingForApproval"}
    Rejectable = {}
    Freezes = {"FullyFrozen"}
    Merges = FALSE
    MaxDrops = 0
    MaxCrashes = 1
PROPERTIES
    RunsSettle
    RequestsEnd
