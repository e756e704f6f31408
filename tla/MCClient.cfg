SPECIFICATION MCSpec
CONSTANTS
    Sessions = {1, 2}
    lifetime = 1
    MaxLogins = 2
    vipCheckTimeoutSecs = 2
    targetUrls = {1, 2}
    MaxRuns = 2
INVARIANTS
    RaisedRightfully
    OwnTransaction
    SuccessMeansRaised
    
PROPERTY
    ClientEnds
CHECK_DEADLOCK FALSE
