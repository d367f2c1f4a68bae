CONSTANTS
    t1 = t1
    t2 = t2
    a1 = a1
    a2 = a2
    Tokens = {t1, t2}
    NoToken = NoToken
    NoCache = NoCache
    Addrs = {a1}
    Home <- MCHomeOne
    NonExpiring = {}
    ExpiresAt <- MCExpiresAt
    Recheck = 2
    Warn = 1
    Skews = {0}
    Drift = 0
    StampsCollide = FALSE
    DeleteMayFail = FALSE
    MaxTime = 5
    MaxWrites = 2
SPECIFICATION Spec
PROPERTIES NetworkFailureIsNotLogout
