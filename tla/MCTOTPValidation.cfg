SPECIFICATION Spec
CONSTANTS
    Calls = {c1, c2}
    MaxTime = 4
    MaxFailCount = 1
    MaxSuccesses = 2
    Period = 4
    ResetSecs = 2
    UseCache = TRUE
SYMMETRY Symmetric
INVARIANT OncePerPeriod
PROPERTY ChecksSpaced
