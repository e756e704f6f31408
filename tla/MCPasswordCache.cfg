SPECIFICATION Spec
CONSTANTS
    Passwords = {p1, p2}
    NoPassword = NoPassword
    Logins = {l1, l2}
    MaxTime = 3
    expirationDuration = 1
SYMMETRY Symmetric
PROPERTY LocalHashRecent
PROPERTY DeletesOnlyRefusedHash
