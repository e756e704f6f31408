SPECIFICATION Spec
CONSTANTS
    Users = {u1, u2}
    MaxTime = 2
    MaxRandom = 2
    Period = 2
    OtpDurations = {1}
    Requests = {r1}
    Called = {"u2fRegisterRequest",
              "u2fRegisterResponse",
              "u2fTokenManagerHandler",
              "GenerateNewTOTP",
              "validateNewTOTP",
              "totpTokenManagerHandler"}
    AllowSelfServiceBootstrapOTP = FALSE
SYMMETRY Symmetric
PROPERTY UndisturbedSaveKeepsRow
INVARIANT
    CredentialsIssuedToOwner
