SPECIFICATION Spec
CONSTANTS
    i1 = i1
    i2 = i2
    p1 = p1
    p2 = p2
    rec = rec
    None = None
    Torn = Torn
    Clients = {i1, i2, p1, p2, rec}
    Importers = {i1, i2}
    Patchers = {p1, p2}
    Recovery = rec
    Docs <- Documents
    Values <- Contents
    Changes <- SingleChanges
    Found <- Stores
    Change = "changed"
    MaxRequests = 2
    MaxFaults = 2
SYMMETRY RequestSymmetry
INVARIANTS
    AcknowledgedKept
    ArchiveInert
PROPERTIES
    StoreIsAtomic
    SettingsHold
CHECK_DEADLOCK FALSE
