CONSTANTS
    t1 = t1
    t2 = t2
    t3 = t3
    g1 = g1
    g2 = g2
    o1 = o1
    o2 = o2
    Tokens = {t1, t2, t3}
    NoToken = NoToken
    Torn = Torn
    Logins = {g1, g2}
    Logouts = {o1, o2}
SYMMETRY Symmetry
SPECIFICATION Spec
INVARIANTS TypeOK NoCopyLeft SilentMeansRevoked
PROPERTIES KeepsTokenStore
