CONSTANTS
    t1 = t1
    t2 = t2
    a1 = a1
    a2 = a2
    Tokens = {t1, t2}
    NoToken = NoToken
    NoCache = NoCache
    Addrs = {a1, a2}
    Home <- MCHomeTwo
    NonExpiring = {t2}
    ExpiresAt <- MCExpiresAt
    Recheck = 2
    Warn = 1
    Skews <- MCSkews
    Drift = 2
    StampsCollide = FALSE
    DeleteMayFail = TRUE
    MaxTime = 3
    MaxWrites = 1
SPECIFICATION FairSpec
INVARIANTS OtherServerNeverShown
PROPERTIES KeepsAuditBudget ForceReachesServer
