SPECIFICATION Spec
CONSTANTS
    Calls = {c1}
    MaxTime = 12
    MaxFailCount = 5
    MaxSuccesses = 1
    Period = 30
    ResetSecs = 20
    UseCache = TRUE
SYMMETRY Symmetric
INVARIANT FifthFailureLocksOut
