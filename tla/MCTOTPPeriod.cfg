SPECIFICATION Spec
CONSTANTS
    Calls = {c1}
    MaxTime = 5
    MaxFailCount = 1
    MaxSuccesses = 3
    Period = 5
    ResetSecs = 3
    UseCache = TRUE
SYMMETRY Symmetric
INVARIANT PreviousSuccessNotInPeriod
