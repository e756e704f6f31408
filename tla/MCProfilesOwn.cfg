SPECIFICATION Spec
CONSTANTS
    Users = {u1}
    MaxTime = 2
    MaxRandom = 1
    Period = 2
    OtpDurations = {1}
    Requests = {r1, r2}
    Called = {"u2fRegisterRequest",
              "u2fRegisterResponse",
              "u2fTokenManagerHandler",
              "GenerateNewTOTP",
              "validateNewTOTP",
              "validateUserTOTP",
              "trySelfServiceGenerateBootstrapOTP",
              "generateBootstrapOTP",
              "BootstrapOtpAuthHandler",
              "addUserHandler",
              "deleteUserHandler"}
    AllowSelfServiceBootstrapOTP = TRUE
SYMMETRY Symmetric
INVARIANT ProfilesConsistent
INVARIANT OtpAcceptedOnce
PROPERTY UndisturbedSaveKeepsRow
