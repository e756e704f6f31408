SPECIFICATION MCSpec
CONSTANTS
    Users = {u1, u2}
    Requests = {r1, r2}
    Factors = {"TOTP"}
    maxAgeSecondsAuthCookie = 1
    maxCertificateLifetime = 2
    MaxTime = 3
    MaxSessionTime = 2
    MaxCerts = 1
    Clients = {"web", "phone"}
    Public = {"phone"}
    HasDomains = {"web"}
    HasREs = {"phone"}
    Redirects <- MCRedirects
    WebUIBackends = {"Password"}
    idpOpenIDCMaxAuthProcessMaxDurationSeconds = 1
    MaxTokens = 2
    Calls = {call1, call2}
    maxDuration = 2
    MaxAdminTime = 5
    MaxChanges = 2
SYMMETRY MCSymmetry
INVARIANTS
    
    AccessFollowsLogin
    AnswersFollowGroups

    
