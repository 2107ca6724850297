SPECIFICATION FairSpec
CONSTANTS
    restart = restart
    reload = reload
    status = status
    tail = tail
    Requests <- MCRequests
    Resources <- MCResources
    TargetIds <- MCTargetIds
    Scoped <- MCScoped
    MaxDrops = 1
INVARIANTS
    OrderedWaits
    FirstComeFirstServed
    EveryTargetAccounted
PROPERTIES
    Serialized
    EveryRequestEnds
