SPECIFICATION Spec
CONSTANTS
    Passwords = {p1}
    NoPassword = NoPassword
    Logins = {l1}
    MaxTime = 3
    expirationDuration = 2
SYMMETRY Symmetric
PROPERTY DeletedHashNotAccepted
