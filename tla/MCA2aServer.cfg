SPECIFICATION Spec
CONSTANTS
    Specs <- MCSpecs
    MaxRevision = 1
    NumRequests = 2
    NumIds = 2
    MaxPolls = 2
INVARIANTS
    TypeOK
    ReportsAreHonest
    OneSuccessPerServer
    RetryStartsNoRun
    StaleCacheHasAReason
PROPERTIES
    EveryTaskSettles
CHECK_DEADLOCK FALSE
