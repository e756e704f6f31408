SPECIFICATION MCSpec
CONSTANTS
    Users = {u1}
    Types = {"auth", "cert"}
    CertLifetimes <- MCCertLifetimes
    durationMonth = 1
    bufferLength = 1
    MaxEvents = 2
    MaxTime = 4
    MaxRestarts = 2
    Goroutines = {1, 2}
    Conns = {1, 2}
    pipeLength = 1
    MaxPublished = 2
    MaxOverlapping = 1
INVARIANTS
    MCTypeOK
    ListingIsCurrent
    ForgottenInTime
    ListedAsHappened
    ListedIsMonitored
    ListedAsPublished
PROPERTIES
    EventuallySaved
    RestartLosesOnlyUnsaved
    FeedsInOrder
    ConnectedAgain
    DeadUnregistered
CHECK_DEADLOCK FALSE
