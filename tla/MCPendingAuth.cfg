SPECIFICATION MCSpec
CONSTANTS
    Keys = {1, 2}
    MaxValue = 2
    LastIssue = 2
    maxAge = 1
    secsBetweenCleanup = 2
    Responses = {r1, r2}
    Requests = {r1, r2}
    Callbacks = {r1, r2}
INVARIANTS
    PolledIsLastPush
    
PROPERTIES
    AnsweredGone
    FoundInTime
    PendingKept
    ImplementsLifecycle
