SPECIFICATION FairSpec
CONSTANTS
    periodic = periodic
    manual = manual
    worker = worker
    db = db
    disk = disk
    Reviewers = {periodic, manual}
    Requests = {manual}
    Worker = worker
    Keys = {db, disk}
    Findings <- FoundSets
    Urgency <- UrgencyOf
    Advised = TRUE
    MaxSnapshots = 2
    MaxClosures = 1
    MaxFreezes = 1
    MaxFaults = 1
INVARIANTS
    OneIssueEach
    EvidenceCarried
PROPERTIES
    NoStaleIssue
    IntakeDrains
CHECK_DEADLOCK FALSE
